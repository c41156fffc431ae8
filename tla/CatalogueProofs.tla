---------------------------- MODULE CatalogueProofs ----------------------------
(***************************************************************************)
(* The store keeps its promise for every catalogue, engine and lifetime:   *)
(* Catalogue implements PromisedCatalogue.  Weights are not forgotten, and *)
(* what is billed was captured.                                            *)
(***************************************************************************)
EXTENDS Catalogue, FoldProofs, SequenceTheorems

\* What relates the two catalogues: one with stock that is current is the last
\* valid one, and the last valid one has stock.
Paired ==
  /\ clock \in Nat
  /\ lastValid.at \in Nat
  /\ ~current.there => current.rows = <<>>
  /\ StockPositive(current) => lastValid = current
  /\ lastValid.there => AllowedClasses(lastValid.rows) # {}

LEMMA NothingInNothing == AllowedClasses(<<>>) = {}
  BY DEF AllowedClasses

\* The classes given, in the terms of the last valid catalogue.
LEMMA GivenIs ==
  Paired => AllowedClasses(Effective.rows) =
              IF StockPositive(current) \/ Fresh THEN AllowedClasses(lastValid.rows) ELSE {}
<1> SUFFICES ASSUME Paired
    PROVE AllowedClasses(Effective.rows) =
            IF StockPositive(current) \/ Fresh THEN AllowedClasses(lastValid.rows) ELSE {}
    OBVIOUS
<1>1. CASE StockPositive(current)
    BY <1>1 DEF Paired, Effective
<1>2. CASE ~StockPositive(current) /\ Fresh
    BY <1>2 DEF Effective
<1>3. CASE ~StockPositive(current) /\ ~Fresh
    <2>1. Effective = current
        BY <1>3 DEF Effective
    <2>2. AllowedClasses(current.rows) = {}
        BY <1>3, NothingInNothing DEF Paired, StockPositive
    <2> QED BY <1>3, <2>1, <2>2
<1> QED BY <1>1, <1>2, <1>3

\* set_products either changes nothing, stores a catalogue with stock in both
\* places, or one without stock where there was none.
LEMMA SetProductsCases ==
  ASSUME NEW payload, SetProducts(payload), Paired
  PROVE /\ clock' = clock
        /\ \/ UNCHANGED <<current, lastValid>>
           \/ /\ StockPositive(current)' /\ current'.there /\ lastValid' = current'
              /\ current'.at = clock /\ AllowedClasses(current'.rows) # {}
           \/ /\ ~StockPositive(current) /\ ~StockPositive(current)' /\ current'.there
              /\ UNCHANGED lastValid
<1> DEFINE data == [there |-> TRUE, rows |-> ProductsOf(payload), at |-> clock]
<1>1. /\ clock' = clock
      /\ IF StockPositive(current) /\ ~StockPositive(data)
           THEN UNCHANGED <<current, lastValid>>
           ELSE current' = data /\ lastValid' = IF StockPositive(data) THEN data ELSE lastValid
    BY DEF SetProducts
<1>2. data.there /\ data.at = clock
    OBVIOUS
<1> HIDE DEF data
<1>3. CASE StockPositive(current) /\ ~StockPositive(data)
    BY <1>1, <1>3
<1>4. CASE StockPositive(data)
    BY <1>1, <1>2, <1>4 DEF StockPositive
<1>5. CASE ~StockPositive(current) /\ ~StockPositive(data)
    BY <1>1, <1>2, <1>5 DEF StockPositive
<1> QED BY <1>3, <1>4, <1>5

LEMMA AbsentIs == Absent.there = FALSE /\ Absent.rows = <<>> /\ Absent.at = 0 /\ ~StockPositive(Absent)
<1>1. Absent.there = FALSE /\ Absent.rows = <<>> /\ Absent.at = 0
    BY DEF Absent
<1> QED BY <1>1 DEF StockPositive

LEMMA PairedInit == Init => Paired
  BY AbsentIs DEF Init, InitStore, Paired

LEMMA PairedStep == Paired /\ [Next]_vars => Paired'
<1> SUFFICES ASSUME Paired, [Next]_vars PROVE Paired'
    OBVIOUS
<1>1. ASSUME NEW payload \in Payloads, UpdateSnapshot("OPEN", payload) \/ UpdateSnapshot("", payload)
      PROVE Paired'
    <2>1. CASE SetProducts(payload)
        BY <1>1, <2>1, SetProductsCases DEF Paired, StockPositive
    <2>2. CASE UNCHANGED storeVars
        BY <1>1, <2>2 DEF Paired, StockPositive, storeVars
    <2> QED BY <1>1, <2>1, <2>2 DEF UpdateSnapshot
<1>2. ASSUME NEW payload \in Payloads, DoorOpens(payload) \/ Poll(payload)
      PROVE Paired'
    BY <1>1, <1>2 DEF DoorOpens, Poll
<1>3. CASE DoorCloses
    BY <1>3, AbsentIs DEF DoorCloses, Clear, Paired
<1>4. CASE VisitTimesOut
    BY <1>4 DEF VisitTimesOut, storeVars, Paired, StockPositive
<1>5. CASE Upload
    BY <1>5 DEF Upload, storeVars, Paired, StockPositive
<1>6. ASSUME NEW i \in DOMAIN uploads, Bill(i) \/ FindNothing(i)
      PROVE Paired'
    BY <1>6 DEF Bill, FindNothing, storeVars, Paired, StockPositive
<1>7. CASE Tick
    BY <1>7 DEF Tick, Elapse, Paired, StockPositive
<1>8. CASE Restart
    BY <1>8, AbsentIs DEF Restart, ClearAll, Paired
<1>9. CASE UNCHANGED vars
    BY <1>9 DEF vars, storeVars, Paired, StockPositive
<1> QED BY <1>2, <1>3, <1>4, <1>5, <1>6, <1>7, <1>8, <1>9 DEF Next

-----------------------------------------------------------------------------

LEMMA PromiseInit == Init => Promise!Init
  BY NothingInNothing, AbsentIs DEF Init, InitStore, Promise!Init, Effective, Fresh

\* Every step of the store is a step of its promise or none.
LEMMA PromiseStep ==
  ASSUME Paired, Paired', [Next]_vars
  PROVE [Promise!Next]_(Promise!promiseVars)
<1> DEFINE given == AllowedClasses(Effective.rows)
           held == StockPositive(current)
<1>1. given = IF held \/ Fresh THEN AllowedClasses(lastValid.rows) ELSE {}
    BY GivenIs
<1>2. (Paired => given = IF held \/ Fresh THEN AllowedClasses(lastValid.rows) ELSE {})'
    BY GivenIs, PTL
<1>3. given' = IF held' \/ Fresh' THEN AllowedClasses(lastValid'.rows) ELSE {}
    BY <1>2
<1>4. /\ Fresh <=> lastValid.there /\ clock - lastValid.at <= Ttl
      /\ Fresh' <=> lastValid'.there /\ clock' - lastValid'.at <= Ttl
    BY DEF Fresh
<1>5. /\ held => lastValid = current /\ current.there
      /\ held' => lastValid' = current' /\ current'.there
      /\ lastValid.there => AllowedClasses(lastValid.rows) # {}
      /\ clock \in Nat /\ lastValid.at \in Nat
    BY DEF Paired, StockPositive
<1>6. /\ held <=> current.there /\ AllowedClasses(current.rows) # {}
      /\ held' <=> current'.there /\ AllowedClasses(current'.rows) # {}
    BY DEF StockPositive
<1> HIDE DEF given, held
<1>7. ASSUME UNCHANGED storeVars
      PROVE given' = given /\ held' = held /\ lastValid' = lastValid /\ clock' = clock
    <2>1. UNCHANGED <<current, lastValid, clock>>
        BY <1>7 DEF storeVars
    <2>2. held' = held
        BY <2>1 DEF held, StockPositive
    <2>3. Effective' = Effective
        BY <2>1 DEF Effective, Fresh, StockPositive
    <2> QED BY <2>1, <2>2, <2>3 DEF given
<1>8. ASSUME NEW payload \in Payloads,
             UpdateSnapshot("OPEN", payload) \/ UpdateSnapshot("", payload),
             open' \in {open, TRUE}
      PROVE Promise!Payload \/ Promise!VisitBegins \/ UNCHANGED Promise!promiseVars
    <2>1. CASE UNCHANGED storeVars
        BY <1>7, <1>8, <2>1 DEF Promise!VisitBegins, Promise!promiseVars, given, held
    <2>2. CASE SetProducts(payload)
        <3>1. CASE UNCHANGED <<current, lastValid>>
            BY <1>7, <1>8, <2>2, <3>1, SetProductsCases
               DEF Promise!VisitBegins, Promise!promiseVars, given, held, storeVars
        <3>2. CASE held' /\ lastValid'.at = clock /\ clock' = clock
            <4>1. given' # {}
                BY <1>3, <1>5, <1>6, <3>2
            <4> QED BY <1>8, <3>2, <4>1 DEF Promise!Payload, given, held
        <3>3. CASE held = FALSE /\ held' = FALSE /\ lastValid' = lastValid /\ clock' = clock
            <4>1. given' = given
                BY <1>1, <1>3, <1>4, <3>3
            <4> QED BY <1>8, <3>3, <4>1 DEF Promise!VisitBegins, Promise!promiseVars, given, held
        <3>4. clock' = clock
            BY <2>2, SetProductsCases
        <3>5. CASE StockPositive(current)' /\ current'.there /\ lastValid' = current'
                   /\ current'.at = clock
            BY <3>2, <3>4, <3>5 DEF held
        <3>6. CASE ~StockPositive(current) /\ ~StockPositive(current)' /\ UNCHANGED lastValid
            <4>1. held = FALSE /\ held' = FALSE
                BY <3>6 DEF held, StockPositive
            <4> QED BY <3>3, <3>4, <3>6, <4>1
        <3> QED BY <2>2, <3>1, <3>5, <3>6, SetProductsCases
    <2> QED BY <1>8, <2>1, <2>2 DEF UpdateSnapshot
<1>9. ASSUME NEW payload \in Payloads, DoorOpens(payload) \/ Poll(payload)
      PROVE Promise!Payload \/ Promise!VisitBegins \/ UNCHANGED Promise!promiseVars
    BY <1>8, <1>9 DEF DoorOpens, Poll
<1>10. CASE DoorCloses
    <2>1. held' = FALSE /\ lastValid' = lastValid /\ clock' = clock /\ open /\ open' = FALSE
        BY <1>10, AbsentIs DEF DoorCloses, Clear, held
    <2>2. given' = IF clock - lastValid.at <= Ttl THEN given ELSE {}
        BY <1>1, <1>3, <1>4, <1>5, <2>1
    <2> QED BY <2>1, <2>2 DEF Promise!Next, Promise!Close, given, held
<1>11. CASE VisitTimesOut
    BY <1>7, <1>11 DEF VisitTimesOut, Promise!Next, Promise!VisitTimesOut, given, held
<1>12. CASE Upload \/ (\E i \in DOMAIN uploads : Bill(i) \/ FindNothing(i))
    BY <1>7, <1>12 DEF Upload, Bill, FindNothing, Promise!promiseVars, given, held
<1>13. CASE Tick
    <2>1. held' = held /\ lastValid' = lastValid /\ clock' = clock + 1 /\ open' = open
        BY <1>13 DEF Tick, Elapse, held
    <2>2. given' = IF held \/ clock' - lastValid.at <= Ttl THEN given ELSE {}
        BY <1>1, <1>3, <1>4, <1>5, <2>1, CatalogueAssumption
    <2> QED BY <2>1, <2>2 DEF Promise!Next, Promise!Elapse, given, held
<1>14. CASE Restart
    <2>1. held' = FALSE /\ lastValid' = Absent /\ clock' = 0 /\ open' = FALSE
        BY <1>14, AbsentIs DEF Restart, ClearAll, held
    <2>2. given' = {} /\ lastValid'.at = 0
        BY <1>3, <1>4, <2>1, AbsentIs
    <2> QED BY <2>1, <2>2 DEF Promise!Next, Promise!Restart, given, held
<1>15. CASE UNCHANGED vars
    BY <1>7, <1>15 DEF vars, Promise!promiseVars, given, held
<1> QED BY <1>9, <1>10, <1>11, <1>12, <1>13, <1>14, <1>15 DEF Next, Promise!Next

\* PromisedCatalogue, which speaks of classes, payloads and CLOSE only, is
\* implemented by the store, the polling API and the triggers of Catalogue.
THEOREM StoreKeepsPromise == Spec => PromiseKept
<1>1. Init => Paired
    BY PairedInit
<1>2. Paired /\ [Next]_vars => Paired'
    BY PairedStep
<1>3. Init => Promise!Init
    BY PromiseInit
<1>4. Paired /\ Paired' /\ [Next]_vars => [Promise!Next]_(Promise!promiseVars)
    BY PromiseStep
<1> QED BY <1>1, <1>2, <1>3, <1>4, PTL DEF Spec, PromiseKept, Promise!Spec

-----------------------------------------------------------------------------
(* Rows and weights. *)

\* The places of a catalogue's rows are finitely many numbers.
RowsOK(rows) == DOMAIN rows \subseteq Nat /\ IsFiniteSet(DOMAIN rows)

Same(S) == [x \in S |-> x]

LEMMA MaxMin ==
  ASSUME NEW S, IsFiniteSet(S), S \subseteq Int, S # {}
  PROVE  Max(S) \in S /\ Min(S) \in S
<1>1. \A x \in S : Same(S)[x] = x /\ Same(S)[x] \in Int
    BY DEF Same
<1>2. PICK m \in S : \A x \in S : Same(S)[x] <= Same(S)[m]
    BY <1>1, Topmost
<1>3. PICK n \in S : \A x \in S : Same(S)[n] <= Same(S)[x]
    BY <1>1, Bottommost
<1>4. Max(S) \in S
    BY <1>1, <1>2 DEF Max
<1>5. Min(S) \in S
    BY <1>1, <1>3 DEF Min
<1> QED BY <1>4, <1>5

\* The rows that class_to_product and the first row of a class stand for.
LEMMA RowsOfClass ==
  ASSUME NEW rows, RowsOK(rows), NEW c \in ClassesOf(rows)
  PROVE  /\ RowOfClass(rows, c) \in ToSet(rows) /\ RowOfClass(rows, c).class = c
         /\ rows[Place(rows, c)] \in ToSet(rows) /\ rows[Place(rows, c)].class = c
<1> DEFINE S == {i \in DOMAIN rows : rows[i].class = c}
<1>1. S # {} /\ S \subseteq Int
    BY DEF ClassesOf, RowsOK
<1>2. IsFiniteSet(S)
    BY FS_Subset DEF RowsOK
<1>3. Max(S) \in S /\ Min(S) \in S
    <2> HIDE DEF S
    <2> QED BY <1>1, <1>2, MaxMin
<1> QED BY <1>3 DEF RowOfClass, Place, ToSet

\* A row in stock is stored with a weight if any source knows one.
LEMMA WeighedIfKnown ==
  ASSUME NEW r, NEW c, KnowsWeight(c), InStock(r)
  PROVE  Weighed(r, c) > 0
<1> DEFINE weights == RepairSources(c, r.idx)
           known == {i \in DOMAIN weights : weights[i] > 0}
<1>1. DOMAIN weights = 1..3
      /\ weights[1] = SnapshotWeight(current.rows, c, r.idx)
      /\ weights[2] = SnapshotWeight(FreshRows, c, r.idx)
    BY DEF RepairSources
<1>2. 1 \in known \/ 2 \in known
    <2>1. weights[1] > 0 \/ weights[2] > 0
        BY <1>1 DEF KnowsWeight, SnapshotWeight
    <2> QED BY <1>1, <2>1
<1>3. Min(known) \in known
    <2>1. known \subseteq Nat /\ \A i \in known : i <= 3
        BY <1>1
    <2>2. IsFiniteSet(known)
        <3> HIDE DEF known
        <3> QED BY <2>1, FS_BoundedSetOfNaturals
    <2>3. IsFiniteSet(known) /\ known \subseteq Int /\ known # {}
        BY <1>2, <2>1, <2>2
    <2> HIDE DEF known
    <2> QED BY <2>3, MaxMin
<1>4. Weighed(r, c) = IF r.weight > 0 THEN r.weight ELSE weights[Min(known)]
    BY <1>2 DEF Weighed
<1> QED BY <1>3, <1>4

\* Whatever set_products stores in place of a catalogue that knew the weight of a
\* class, or while a fresh one knows it, its rows of the class in stock have one.
THEOREM WeightsAreKept == Spec => WeightNotForgotten
<1> DEFINE Kept == \A c \in ClassesOf(current'.rows) :
                     (current' # current /\ KnowsWeight(c)) =>
                       \A i \in DOMAIN current'.rows :
                         LET r == current'.rows[i] IN r.class = c /\ InStock(r) => r.weight > 0
<1>1. ASSUME [Next]_vars PROVE [Kept]_vars
    <2>1. CASE current' = current
        BY <2>1
    <2>2. ASSUME NEW payload, SetProducts(payload), current' # current PROVE Kept
        <3>1. current'.rows = ProductsOf(payload)
            BY <2>2 DEF SetProducts
        <3> SUFFICES ASSUME NEW i \in DOMAIN current'.rows, KnowsWeight(current'.rows[i].class),
                            InStock(current'.rows[i])
                     PROVE  current'.rows[i].weight > 0
            OBVIOUS
        <3>2. current'.rows[i] = Product(payload[i])
            BY <3>1 DEF ProductsOf
        <3> DEFINE c == EngineClass[ClassKey(payload[i])]
        <3>3. /\ Product(payload[i]).class = c
              /\ Product(payload[i]).stock = payload[i].stock
              /\ Product(payload[i]).weight = Weighed(payload[i], c)
            BY DEF Product
        <3> HIDE DEF c
        <3>4. KnowsWeight(c) /\ InStock(payload[i])
            BY <3>2, <3>3 DEF InStock
        <3> QED BY <3>2, <3>3, <3>4, WeighedIfKnown
    <2>3. CASE current' = Absent
        BY <2>3, AbsentIs DEF ClassesOf
    <2> QED BY <1>1, <2>1, <2>2, <2>3
            DEF Next, DoorOpens, Poll, UpdateSnapshot, DoorCloses, Clear, VisitTimesOut, Upload,
                Bill, FindNothing, Tick, Elapse, Restart, ClearAll, vars, storeVars
<1>2. WeightNotForgotten <=> [][Kept]_vars
    BY DEF WeightNotForgotten
<1> HIDE DEF Kept
<1> QED BY <1>1, <1>2, PTL DEF Spec

-----------------------------------------------------------------------------
(* Bills. *)

\* A line was on sale in the copy.
CapturedLine(rows, line) ==
  LET same == {r \in ToSet(rows) : r.class = line.class} IN
  /\ \E r \in same : InStock(r) /\ r.weight = line.weight
                    /\ (r.price > 0 => r.price = line.price)
  /\ \E r \in same : r.idx \in {NoText, line.idx}

UploadOK(u) ==
  /\ DOMAIN u = {"rows", "found", "st", "bill", "reason"}
  /\ RowsOK(u.rows)
  /\ \A line \in u.bill : CapturedLine(u.rows, line)

CopiesOK ==
  /\ RowsOK(current.rows) /\ RowsOK(lastValid.rows)
  /\ \E S : uploads \in Seq(S)
  /\ \A i \in DOMAIN uploads : UploadOK(uploads[i])

\* Sequences of triggers, whatever triggers are.
LEMMA SeqChanges ==
  ASSUME NEW S, NEW s \in Seq(S), NEW u, NEW t,
         t = Append(s, u) \/ (\E i \in DOMAIN s : t = [s EXCEPT ![i] = u])
  PROVE  /\ t \in Seq(S \cup {u})
         /\ \A j \in DOMAIN t : t[j] = u \/ (j \in DOMAIN s /\ t[j] = s[j])
<1>1. s \in Seq(S \cup {u}) /\ DOMAIN s = 1..Len(s) /\ Len(s) \in Nat
    OBVIOUS
<1>2. CASE t = Append(s, u)
    BY <1>1, <1>2
<1>3. CASE \E i \in DOMAIN s : t = [s EXCEPT ![i] = u]
    <2>1. PICK i \in DOMAIN s : t = [s EXCEPT ![i] = u]
        BY <1>3
    <2> DEFINE T == S \cup {u}
    <2>2. s \in Seq(T) /\ u \in T /\ i \in 1..Len(s)
        BY <1>1
    <2> HIDE DEF T
    <2>3. t \in Seq(T) /\ Len(t) = Len(s) /\ \A j \in 1..Len(s) : t[j] = IF j = i THEN u ELSE s[j]
        BY <2>1, <2>2, ExceptSeq
    <2> QED BY <1>1, <2>3 DEF T
<1> QED BY <1>2, <1>3

\* What the judgement may bill is captured, whatever the store says by then.
LEMMA LinesAreCaptured ==
  ASSUME NEW u, RowsOK(u.rows), NEW line \in Lines(u)
  PROVE  CapturedLine(u.rows, line)
<1>1. PICK c \in Chargeable(u) :
        line \in [class : {c}, idx : IdxOf(u, c), price : PriceOf(u, c),
                  weight : {RowOfClass(u.rows, c).weight}]
    BY DEF Lines
<1> DEFINE last == RowOfClass(u.rows, c)
           first == u.rows[Place(u.rows, c)]
<1>2. c \in ClassesOf(u.rows) /\ InStock(last)
    BY DEF Chargeable, AllowedClasses, ClassesOf
<1>3. last \in ToSet(u.rows) /\ last.class = c /\ first \in ToSet(u.rows) /\ first.class = c
    BY <1>2, RowsOfClass
<1>4. /\ line.class = c /\ line.weight = last.weight
      /\ line.idx \in IdxOf(u, c) /\ line.price \in PriceOf(u, c)
    BY <1>1
<1>5. last.price > 0 => line.price = last.price
    BY <1>4 DEF PriceOf
<1>6. first.idx \in {NoText, line.idx}
    BY <1>4 DEF IdxOf
<1> HIDE DEF last, first
<1> QED BY <1>2, <1>3, <1>4, <1>5, <1>6 DEF CapturedLine

LEMMA CopiesStep == CopiesOK /\ [Next]_vars => CopiesOK'
<1> SUFFICES ASSUME CopiesOK, [Next]_vars PROVE CopiesOK'
    OBVIOUS
<1>1. RowsOK(<<>>) /\ RowsOK(Absent.rows)
    BY AbsentIs, FS_EmptySet DEF RowsOK
<1>2. ASSUME NEW payload \in Payloads PROVE RowsOK(ProductsOf(payload))
    <2>1. DOMAIN payload \subseteq Nat /\ IsFiniteSet(DOMAIN payload)
        <3>1. Len(payload) \in Int /\ DOMAIN payload = 1..Len(payload)
            BY PayloadAssumption
        <3> QED BY <3>1, FS_Interval
    <2> QED BY <2>1, FS_Subset DEF ProductsOf, RowsOK
<1>3. RowsOK(current'.rows) /\ RowsOK(lastValid'.rows)
    <2>1. ASSUME NEW payload \in Payloads, SetProducts(payload)
          PROVE  RowsOK(current'.rows) /\ RowsOK(lastValid'.rows)
        BY <1>2, <2>1 DEF SetProducts, CopiesOK
    <2>2. CASE current' \in {current, Absent} /\ lastValid' \in {lastValid, Absent}
        BY <1>1, <2>2 DEF CopiesOK
    <2> QED BY <2>1, <2>2
            DEF Next, DoorOpens, Poll, UpdateSnapshot, DoorCloses, Clear, VisitTimesOut, Upload,
                Bill, FindNothing, Tick, Elapse, Restart, ClearAll, vars, storeVars
<1>4. CASE uploads' = uploads
    BY <1>3, <1>4 DEF CopiesOK
<1>5. ASSUME NEW u, UploadOK(u),
             \/ uploads' = Append(uploads, u)
             \/ \E i \in DOMAIN uploads : uploads' = [uploads EXCEPT ![i] = u]
      PROVE  CopiesOK'
    <2>1. PICK S : uploads \in Seq(S)
        BY DEF CopiesOK
    <2>2. /\ uploads' \in Seq(S \cup {u})
          /\ \A j \in DOMAIN uploads' :
               uploads'[j] = u \/ (j \in DOMAIN uploads /\ uploads'[j] = uploads[j])
        BY <1>5, <2>1, SeqChanges
    <2> QED BY <1>3, <1>5, <2>2 DEF CopiesOK
<1>6. CASE Upload
    <2> DEFINE u == [rows |-> Effective.rows, found |-> Effective.there,
                     st |-> "queued", bill |-> {}, reason |-> NoText]
    <2>1. /\ DOMAIN u = {"rows", "found", "st", "bill", "reason"}
          /\ u.rows = Effective.rows /\ u.bill = {}
        OBVIOUS
    <2>2. uploads' = Append(uploads, u)
        BY <1>6 DEF Upload
    <2>3. RowsOK(Effective.rows)
        BY DEF CopiesOK, Effective
    <2> HIDE DEF u
    <2>4. UploadOK(u)
        BY <2>1, <2>3 DEF UploadOK
    <2> QED BY <1>5, <2>2, <2>4
<1>7. ASSUME NEW i \in DOMAIN uploads, NEW line \in Lines(uploads[i]),
             uploads' = [uploads EXCEPT ![i] = [uploads[i] EXCEPT !.st = "done", !.bill = {line}]]
      PROVE CopiesOK'
    <2> DEFINE old == uploads[i]
               u == [old EXCEPT !.st = "done", !.bill = {line}]
    <2>1. UploadOK(old)
        BY DEF CopiesOK
    <2>2. CapturedLine(old.rows, line)
        BY <2>1, LinesAreCaptured DEF UploadOK
    <2>3. DOMAIN u = DOMAIN old /\ u.rows = old.rows /\ u.bill = {line}
        <3> HIDE DEF old
        <3> QED BY <2>1 DEF UploadOK
    <2>4. uploads' = [uploads EXCEPT ![i] = u]
        BY <1>7
    <2> HIDE DEF old, u
    <2>5. UploadOK(u)
        BY <2>1, <2>2, <2>3 DEF UploadOK
    <2> QED BY <1>5, <2>4, <2>5
<1>8. ASSUME NEW i \in DOMAIN uploads, NEW why,
             uploads' = [uploads EXCEPT ![i] = [uploads[i] EXCEPT !.st = "done", !.reason = why]]
      PROVE CopiesOK'
    <2> DEFINE old == uploads[i]
               u == [old EXCEPT !.st = "done", !.reason = why]
    <2>1. UploadOK(old)
        BY DEF CopiesOK
    <2>2. DOMAIN u = DOMAIN old /\ u.rows = old.rows /\ u.bill = old.bill
        <3> HIDE DEF old
        <3> QED BY <2>1 DEF UploadOK
    <2>3. uploads' = [uploads EXCEPT ![i] = u]
        BY <1>8
    <2> HIDE DEF old, u
    <2>4. UploadOK(u)
        BY <2>1, <2>2 DEF UploadOK
    <2> QED BY <1>5, <2>3, <2>4
<1>9. ASSUME NEW i \in DOMAIN uploads, Bill(i) \/ FindNothing(i) PROVE CopiesOK'
    BY <1>7, <1>8, <1>9 DEF Bill, FindNothing
<1>10. CASE Restart
    <2>1. uploads' \in Seq({}) /\ DOMAIN uploads' = {}
        BY <1>10 DEF Restart
    <2> QED BY <1>3, <2>1 DEF CopiesOK
<1> QED BY <1>4, <1>6, <1>9, <1>10
        DEF Next, DoorOpens, Poll, DoorCloses, VisitTimesOut, Tick, vars

\* Whatever a trigger is charged was in stock in the catalogue it captured, with
\* that row's price and weight, for all payloads, classes and lifetimes.
THEOREM BillsAreCaptured == Spec => []BilledAsCaptured
<1>1. Init => CopiesOK
    <2> SUFFICES ASSUME Init PROVE CopiesOK
        OBVIOUS
    <2>1. RowsOK(Absent.rows)
        BY AbsentIs, FS_EmptySet DEF RowsOK
    <2>2. uploads \in Seq({}) /\ DOMAIN uploads = {}
        BY DEF Init
    <2> QED BY <2>1, <2>2 DEF Init, InitStore, CopiesOK
<1>2. CopiesOK /\ [Next]_vars => CopiesOK'
    BY CopiesStep
<1>3. CopiesOK => BilledAsCaptured
    BY DEF CopiesOK, UploadOK, CapturedLine, BilledAsCaptured
<1> QED BY <1>1, <1>2, <1>3, PTL DEF Spec
=============================================================================
