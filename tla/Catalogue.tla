------------------------------- MODULE Catalogue -------------------------------
(***************************************************************************)
(* The catalogue in use: the polling API of api/routes/multi_zone.py       *)
(* writes it, CLOSE clears it, a trigger captures it when it arrives and   *)
(* the worker bills from the copy long after.  What a trigger is found to  *)
(* have taken is any product its copy allows.                              *)
(*                                                                         *)
(*   open     a visit is on (global session of the door)                   *)
(*   uploads  triggers: rows and found, the copy; st; bill, what was       *)
(*            charged, as a set of at most one line; reason, the failure   *)
(***************************************************************************)
EXTENDS ActiveProducts

CONSTANTS
  Payloads,   \* products a request may carry
  TestNames,  \* names INVALID_PRODUCT_NAME_PATTERNS refuses
  MaxTime,    \* bound on the clock
  MaxUploads  \* bound on the triggers

ASSUME PayloadAssumption ==
  \A payload \in Payloads : Len(payload) \in Nat /\ DOMAIN payload = 1..Len(payload)

VARIABLES open, uploads

vars == <<storeVars, open, uploads>>

Init ==
  /\ InitStore
  /\ open = FALSE
  /\ uploads = <<>>

-----------------------------------------------------------------------------
\* The polling API.

\* 400 before anything is done.
Refused(payload) == \E i \in DOMAIN payload : payload[i].shown \in TestNames

\* _has_stock_positive_class_request_products
OffersProducts(payload) ==
  \E i \in DOMAIN payload : InStock(payload[i]) /\ ClassKey(payload[i]) # NoText

\* _maybe_update_active_product_snapshot
UpdateSnapshot(door, payload) ==
  IF door # "CLOSE" /\ OffersProducts(payload) THEN SetProducts(payload) ELSE UNCHANGED storeVars

DoorOpens(payload) ==
  /\ ~Refused(payload)
  /\ UpdateSnapshot("OPEN", payload)
  /\ open' = TRUE
  /\ UNCHANGED uploads

Poll(payload) ==
  /\ ~Refused(payload)
  /\ UpdateSnapshot("", payload)
  /\ UNCHANGED <<open, uploads>>

\* Mistake: CLOSE forgets the last valid catalogue too.
DoorClosesForgetting ==
  /\ open
  /\ open' = FALSE
  /\ current' = Absent
  /\ lastValid' = Absent
  /\ UNCHANGED <<clock, uploads>>

\* The CLOSE that finalizes.  Its products are ignored, and so is all of it
\* while the visit waits or when there is none.
DoorCloses ==
  /\ open
  /\ open' = FALSE
  /\ Clear
  /\ UNCHANGED uploads

\* The cleanup that ends a visit nobody closed leaves the catalogue alone.
VisitTimesOut ==
  /\ open
  /\ open' = FALSE
  /\ UNCHANGED <<storeVars, uploads>>

-----------------------------------------------------------------------------
\* Triggers.

\* The copy is taken on arrival, before the queue.
Upload ==
  /\ Len(uploads) < MaxUploads
  /\ uploads' = Append(uploads, [rows |-> Effective.rows, found |-> Effective.there,
                                 st |-> "queued", bill |-> {}, reason |-> NoText])
  /\ UNCHANGED <<storeVars, open>>

\* Why inference sees no class.
FailClosed(u) ==
  CASE ~u.found -> "missing_active_products"
    [] u.found /\ AllowedClasses(u.rows) = {} -> "empty_active_product_allowlist"
    [] OTHER -> NoText

\* Of two rows of a class the judgement weighs the later one.
Chargeable(u) ==
  {c \in AllowedClasses(u.rows) : InStock(RowOfClass(u.rows, c)) /\ RowOfClass(u.rows, c).weight > 0}

\* _snapshot_product_info takes the earlier one; without an idx the store is asked.
IdxOf(u, c) ==
  LET first == u.rows[Place(u.rows, c)] IN
  IF first.idx # NoText THEN {first.idx} ELSE {r.idx : r \in LiveRows(c)} \cup {NoText}

\* Mistake: the price is read when the bill is made.
LatestPrice(u, c) == {r.price : r \in LiveRows(c)} \cup {0}

\* A price of 0 may be taken again from the store.
PriceOf(u, c) ==
  LET p == RowOfClass(u.rows, c).price IN
  IF p > 0 THEN {p} ELSE {0} \cup {r.price : r \in LiveRows(c)}

Lines(u) ==
  UNION {[class : {c}, idx : IdxOf(u, c), price : PriceOf(u, c), weight : {RowOfClass(u.rows, c).weight}]
           : c \in Chargeable(u)}

Bill(i) ==
  /\ uploads[i].st = "queued"
  /\ \E line \in Lines(uploads[i]) :
       uploads' = [uploads EXCEPT ![i] = [@ EXCEPT !.st = "done", !.bill = {line}]]
  /\ UNCHANGED <<storeVars, open>>

FindNothing(i) ==
  /\ uploads[i].st = "queued"
  /\ uploads' = [uploads EXCEPT ![i] = [@ EXCEPT !.st = "done",
                                                !.reason = FailClosed(uploads[i])]]
  /\ UNCHANGED <<storeVars, open>>

-----------------------------------------------------------------------------

Tick ==
  /\ clock < MaxTime
  /\ Elapse
  /\ UNCHANGED <<open, uploads>>

\* Shutdown drains the worker and clears both catalogues.
Restart ==
  /\ ClearAll
  /\ open' = FALSE
  /\ uploads' = <<>>

Next ==
  \/ \E payload \in Payloads : DoorOpens(payload) \/ Poll(payload)
  \/ DoorCloses
  \/ VisitTimesOut
  \/ Upload
  \/ \E i \in DOMAIN uploads : Bill(i) \/ FindNothing(i)
  \/ Tick
  \/ Restart

Spec == Init /\ [][Next]_vars

-----------------------------------------------------------------------------
\* Properties.

\* The store in the terms of its promise.
Promise ==
  INSTANCE PromisedCatalogue WITH
    given <- AllowedClasses(Effective.rows), held <- StockPositive(current),
    since <- lastValid.at, now <- clock, visit <- open

\* The classes a trigger may be charged for are those of the newest payload
\* with stock, until CLOSE and Ttl longer, whatever empty or unknown payloads
\* came in between (active_product_store.py get_effective_snapshot).
PromiseKept == Promise!Spec

\* The store weighs class c, now or in a catalogue still fresh.
KnowsWeight(c) == \E rows \in {current.rows, FreshRows} : WeightByClass(rows, c) > 0

\* A product whose weight was known does not lose it to a payload that leaves
\* it out: no row in stock is stored unweighed (_repair_product_weight).
WeightNotForgotten ==
  [][\A c \in ClassesOf(current'.rows) :
       (current' # current /\ KnowsWeight(c)) =>
         \A i \in DOMAIN current'.rows :
           LET r == current'.rows[i] IN r.class = c /\ InStock(r) => r.weight > 0]_vars

\* What a trigger is charged was on sale when the trigger arrived, at the price
\* and weight one captured row has (a price of 0 aside), under an idx a
\* captured row of the class has (none given aside), whatever OPEN, CLOSE,
\* payload or expiry came while it waited (trigger_service.py:3999).
BilledAsCaptured ==
  \A i \in DOMAIN uploads :
    LET captured == ToSet(uploads[i].rows) IN
    \A line \in uploads[i].bill :
      LET same == {r \in captured : r.class = line.class} IN
      /\ \E r \in same : InStock(r) /\ r.weight = line.weight
                        /\ (r.price > 0 => r.price = line.price)
      /\ \E r \in same : r.idx \in {NoText, line.idx}
=============================================================================
