---------------------------- MODULE ActiveProducts ----------------------------
(***************************************************************************)
(* ActiveProductStore of session/active_product_store.py: the catalogue    *)
(* the Node side last sent, and the last one that had something in stock.  *)
(*                                                                         *)
(*   current    the catalogue as sent, until CLOSE clears it               *)
(*   lastValid  the last one with a recognised product in stock            *)
(*   clock      seconds, in units the model counts                         *)
(*                                                                         *)
(* A catalogue is its recognised rows in order, each at the place it had   *)
(* in the payload; what the source keeps beside it (allowed_class_ids,     *)
(* class_to_product, the counters) is a function of those.  Every method   *)
(* holds the lock or runs on the event loop without an await, so each is   *)
(* one step.                                                               *)
(***************************************************************************)
EXTENDS Integers, SequencesExt, FiniteSetsExt

CONSTANTS
  EngineClass,  \* class id per normalised engine name; 0 is a class too
  Known,        \* KNOWN_PRODUCT_WEIGHT_FALLBACKS, by class
  StaticCompat, \* source_policy = "static_mapping_compat"
  Ttl           \* last_valid_ttl_seconds

ASSUME CatalogueAssumption ==
  /\ \A name \in DOMAIN EngineClass : EngineClass[name] \in Nat
  /\ \A c \in DOMAIN Known : Known[c] \in Nat \ {0}
  /\ StaticCompat \in BOOLEAN
  /\ Ttl \in Nat

VARIABLES current, lastValid, clock

storeVars == <<current, lastValid, clock>>

Absent == [there |-> FALSE, rows |-> <<>>, at |-> 0]

NoText == ""

InitStore ==
  /\ current = Absent
  /\ lastValid = Absent
  /\ clock = 0

-----------------------------------------------------------------------------
\* Reading a catalogue.

InStock(r) == r.stock > 0

ClassesOf(rows) == {rows[i].class : i \in DOMAIN rows}

AllowedClasses(rows) == {rows[i].class : i \in {j \in DOMAIN rows : InStock(rows[j])}}

StockPositive(data) == data.there /\ AllowedClasses(data.rows) # {}

\* class_to_product: a later row of the class replaces an earlier one.
RowOfClass(rows, c) == rows[Max({i \in DOMAIN rows : rows[i].class = c})]

\* Where class_to_product holds class c: dictionaries keep insertion order.
Place(rows, c) == Min({i \in DOMAIN rows : rows[i].class = c})

\* _product_maps_by_idx over class_to_product: the last class with that idx.
ClassesWithIdx(rows, idx) == {c \in ClassesOf(rows) : RowOfClass(rows, c).idx = idx}

WeightByIdx(rows, idx) ==
  LET with == ClassesWithIdx(rows, idx)
      last == CHOOSE c \in with : \A d \in with : Place(rows, d) <= Place(rows, c)
  IN IF idx = NoText \/ with = {} THEN 0 ELSE RowOfClass(rows, last).weight

WeightByClass(rows, c) == IF c \in ClassesOf(rows) THEN RowOfClass(rows, c).weight ELSE 0

\* _positive_weight_from_snapshot
SnapshotWeight(rows, c, idx) ==
  IF WeightByClass(rows, c) > 0 THEN WeightByClass(rows, c) ELSE Max({0, WeightByIdx(rows, idx)})

Fresh == lastValid.there /\ clock - lastValid.at <= Ttl

FreshRows == IF Fresh THEN lastValid.rows ELSE <<>>

-----------------------------------------------------------------------------
\* Reading a request's rows.

\* product_eng_name, then name, then product_name; the first given decides,
\* recognised or not.
ClassKey(r) ==
  CASE r.eng # NoText -> r.eng
    [] r.eng = NoText /\ r.name # NoText -> r.name
    [] OTHER -> r.shown

\* Class 0 is refused by _coerce_yolo_class_id.
Recognised(r) == ClassKey(r) \in DOMAIN EngineClass /\ EngineClass[ClassKey(r)] > 0

\* Mistake: the last valid catalogue is not asked.
RepairSourcesCurrentOnly(c, idx) == << SnapshotWeight(current.rows, c, idx), 0, 0 >>

RepairSources(c, idx) ==
  << SnapshotWeight(current.rows, c, idx), SnapshotWeight(FreshRows, c, idx),
     IF StaticCompat /\ c \in DOMAIN Known THEN Known[c] ELSE 0 >>

\* _repair_product_weight: the first source that knows a positive weight.
Weighed(r, c) ==
  LET weights == RepairSources(c, r.idx)
      known == {i \in DOMAIN weights : weights[i] > 0}
  IN IF r.weight > 0 \/ ~InStock(r) \/ known = {} THEN r.weight ELSE weights[Min(known)]

Product(r) ==
  LET c == EngineClass[ClassKey(r)] IN
  [class |-> c, idx |-> r.idx, price |-> r.price, stock |-> r.stock, weight |-> Weighed(r, c)]

ProductsOf(payload) ==
  [i \in {j \in DOMAIN payload : Recognised(payload[j])} |-> Product(payload[i])]

-----------------------------------------------------------------------------
\* Operations.

\* set_products(preserve_on_invalid_existing=True), its only call.
SetProducts(payload) ==
  LET data == [there |-> TRUE, rows |-> ProductsOf(payload), at |-> clock] IN
  /\ IF StockPositive(current) /\ ~StockPositive(data)
       THEN UNCHANGED <<current, lastValid>>
       ELSE /\ current' = data
            /\ lastValid' = IF StockPositive(data) THEN data ELSE lastValid
  /\ UNCHANGED clock

\* get_effective_snapshot
Effective ==
  CASE StockPositive(current) -> current
    [] ~StockPositive(current) /\ Fresh -> lastValid
    [] OTHER -> current

\* get_by_yolo_class_id, as a set of at most one row.
LiveRows(c) ==
  LET rows == IF current.there /\ c \in ClassesOf(current.rows) THEN current.rows ELSE FreshRows
  IN IF c \in ClassesOf(rows) THEN {RowOfClass(rows, c)} ELSE {}

Clear ==
  /\ current' = Absent
  /\ UNCHANGED <<lastValid, clock>>

\* clear_all and the start of the next process; only times since then matter.
ClearAll ==
  /\ current' = Absent
  /\ lastValid' = Absent
  /\ clock' = 0

Elapse ==
  /\ clock' = clock + 1
  /\ UNCHANGED <<current, lastValid>>
=============================================================================
