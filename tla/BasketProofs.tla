---------------------------- MODULE BasketProofs ----------------------------
(***************************************************************************)
(* What ZoneBaskets bills after a visit in which nothing was put back, for *)
(* every cabinet, catalogue and movement: each ambient zone pays for what  *)
(* weighs as much as its loadcells lost, or for nothing of known weight.   *)
(*                                                                         *)
(* Such a visit only ever collects sessions of removals (OnlyTakes): they  *)
(* have a basket and no return that is deferred, unmatched or crosses      *)
(* zones.  On a store of them the passes of CLOSE change nothing, each for *)
(* a reason of its own (NoCrossReturns, NothingDeferred,                   *)
(* NothingToValidate), until the final weight check, which leaves only     *)
(* baskets of the right weight (FinallyWeighed).  The passes are folds     *)
(* over the zones in order; ExchangedAll and FoldStates of FoldProofs open *)
(* them.  BasketInv is the inductive invariant: the triggers so far, that  *)
(* the sessions hold removals among them, and what CLOSE left.             *)
(***************************************************************************)
EXTENDS ZoneBaskets, FoldProofs

-----------------------------------------------------------------------------
(* Baskets of what was taken                                                 *)

Unit == [zone : Zones, side : Sides, pos : Nat, time : Nat]
Entry == [id : Products, count : Int, units : Seq(Unit)]

\* A trigger that lost weight and felt no return.
Removed(t) ==
  /\ t.zone \in Zones /\ t.time \in Nat
  /\ t.delta \in Int /\ t.delta < 0 /\ t.hints = <<>>
  /\ t.products \in Seq(Decided) /\ t.candidates \in Seq(Candidate)

\* The units a removal puts into a basket.
LEMMA UnitsType ==
  ASSUME ~Freezer, NEW t, Removed(t), NEW q \in Decided, q.count > 0
  PROVE  PlacementUnits(q, t) \in Seq(Unit)
<1>1. q.count \in Nat /\ q.side \in Sides /\ q.pos \in Nat
  BY DEF Decided
<1>2. PlacementUnits(q, t) =
        [u \in 1..q.count |-> [zone |-> t.zone, side |-> q.side, pos |-> q.pos,
                               time |-> t.time]]
  BY DEF PlacementUnits
<1>3. [zone |-> t.zone, side |-> q.side, pos |-> q.pos, time |-> t.time] \in Unit
  BY <1>1 DEF Unit, Removed
<1> HIDE DEF Unit
<1>4. PlacementUnits(q, t) \in [1..q.count -> Unit]
  BY <1>2, <1>3
<1> QED BY <1>1, <1>4

\* A basket with one more product is a basket.
LEMMA AddProductType ==
  ASSUME ~Freezer, NEW t, Removed(t), NEW q \in Decided, q.count > 0,
         NEW b \in Seq(Entry)
  PROVE  AddProduct(b, q, t) \in Seq(Entry)
<1> DEFINE i == EntryIndex(b, q.id)
           units == PlacementUnits(q, t)
           new == [id |-> q.id, count |-> q.count, units |-> units]
           Grown(e) == [e EXCEPT !.count = @ + q.count, !.units = @ \o units]
           more == [b EXCEPT ![i] = Grown(b[i])]
<1>1. units \in Seq(Unit) /\ q.id \in Products /\ q.count \in Int
  BY UnitsType DEF Decided
<1> HIDE DEF units, i
<1>2. new \in Entry
  BY <1>1 DEF Entry
<1>3. Append(b, new) \in Seq(Entry)
  BY <1>2
<1>4. more \in Seq(Entry)
  <2>1. \A e \in Entry : Grown(e) \in Entry
    <3> TAKE e \in Entry
    <3>1. e.count + q.count \in Int /\ e.units \o units \in Seq(Unit)
      BY <1>1 DEF Entry
    <3> QED BY <3>1 DEF Entry
  <2>2. Len(b) \in Nat /\ b \in [1..Len(b) -> Entry]
    BY LenProperties
  <2> HIDE DEF Grown
  <2>3. ASSUME NEW j \in 1..Len(b) PROVE more[j] \in Entry
    <3>1. b[j] \in Entry /\ j \in DOMAIN b
      BY <2>2
    <3>2. Grown(b[j]) \in Entry
      BY <2>1, <3>1
    <3>3. CASE j = i
      BY <3>1, <3>2, <3>3
    <3>4. CASE j # i
      BY <3>1, <3>4
    <3> QED BY <3>3, <3>4
  <2>4. DOMAIN more = 1..Len(b)
    BY <2>2
  <2>5. more \in [1..Len(b) -> Entry]
    BY <2>3, <2>4
  <2> QED BY <2>2, <2>5
<1> QED BY <1>3, <1>4 DEF AddProduct, units, i

\* What is decided on a removal turns a basket into a basket.
LEMMA HandleRemovalType ==
  ASSUME ~Freezer, NEW t, Removed(t), NEW b \in Seq(Entry)
  PROVE  HandleRemoval(b, t) \in Seq(Entry)
<1> DEFINE s == t.products
           n == Len(s)
           V == Seq(Entry)
           Step(v, q) == IF q.count <= 0 THEN v ELSE AddProduct(v, q, t)
           G == [p \in (1..n) \X V |-> Step(p[2], s[p[1]])]
           Eq(F) == F = [X \in SUBSET (1..n) |->
                           IF X = {} THEN b ELSE Step(F[X \ {Max(X)}], s[Max(X)])]
           H == CHOOSE F : Eq(F)
<1>1. s \in Seq(Decided) /\ n \in Nat /\ DOMAIN s = 1..n /\ \A k \in 1..n : s[k] \in Decided
  BY LenProperties, ElementOfSeq DEF Removed
<1>2. HandleRemoval(b, t) = H[1..n]
  BY <1>1 DEF HandleRemoval, FoldLeft, MapThenFoldSet
<1>3. ASSUME NEW k \in 1..n, NEW v \in V
      PROVE  G[<<k, v>>] = Step(v, s[k]) /\ Step(v, s[k]) \in V
  <2>1. G[<<k, v>>] = Step(v, s[k])
    OBVIOUS
  <2>2. s[k] \in Decided /\ s[k].count \in Int
    BY <1>1 DEF Decided
  <2>3. CASE s[k].count <= 0
    BY <2>1, <2>3
  <2>4. CASE s[k].count > 0
    <3>1. AddProduct(v, s[k], t) \in V
      BY <2>2, <2>4, AddProductType
    <3>2. ~ (s[k].count <= 0)
      BY <2>2, <2>4
    <3> QED BY <2>1, <3>1, <3>2
  <2> QED BY <2>2, <2>3, <2>4
<1> HIDE DEF Step
<1>4. Steps(n, V, G) /\ b \in V
  BY <1>3 DEF Steps
<1>5. \A X \in SUBSET (1..n) : X # {} => Max(X) \in 1..n
  BY <1>1, MaxOfPlaces
<1> HIDE DEF G, n, V
<1>6. Eq(H)
  <2>1. PICK F : F \in Folds(n, V, b, G)
    BY <1>1, <1>4, FoldExists
  <2>2. ASSUME NEW X \in SUBSET (1..n)
        PROVE  F[X] = IF X = {} THEN b ELSE Step(F[X \ {Max(X)}], s[Max(X)])
    <3>1. F[X] = IF X = {} THEN b ELSE G[<<Max(X), F[X \ {Max(X)}]>>]
      BY <2>1 DEF Folds
    <3>2. X # {} => Max(X) \in 1..n /\ F[X \ {Max(X)}] \in V
      BY <1>5, <2>1 DEF Folds
    <3> QED BY <1>3, <3>1, <3>2
  <2>3. Eq(F)
    BY <2>1, <2>2 DEF Folds
  <2> QED BY <2>3
<1>7. FollowsSteps(H, n, V, b, G)
  <2>1. H[{}] = b
    BY <1>6
  <2>2. ASSUME NEW X \in SUBSET (1..n), X # {}, H[X \ {Max(X)}] \in V
        PROVE  H[X] = G[<<Max(X), H[X \ {Max(X)}]>>]
    <3>1. H[X] = Step(H[X \ {Max(X)}], s[Max(X)])
      BY <1>6, <2>2
    <3>2. Max(X) \in 1..n
      BY <1>5, <2>2
    <3> HIDE DEF H
    <3> QED BY <1>3, <2>2, <3>1, <3>2
  <2> QED BY <2>1, <2>2 DEF FollowsSteps
<1> HIDE DEF H
<1>8. PICK h : h \in States(n, V, b, G, H[1..n])
  BY <1>1, <1>4, <1>7, FoldStates
<1>9. H[1..n] \in V
  BY <1>1, <1>8 DEF States
<1> QED BY <1>2, <1>9 DEF V

Aggregates ==
  [basket : Seq(Entry), unmatched : {<<>>}, deferred : {<<>>}, hints : {<<>>}]

\* A trigger of a removal adds to the basket and to nothing else.
LEMMA ApplyRemoval ==
  ASSUME ~Freezer, NEW t, Removed(t), NEW defer, NEW a \in Aggregates
  PROVE  ApplyTrigger(a, t, defer) \in Aggregates
<1>1. ~IsReturn(t)
  BY DEF IsReturn, Removed
<1>2. ASSUME NEW at PROVE ReturnHints(t, at) = <<>>
  <2>1. Only(t.hints, {h \in ToSet(t.hints) : h.at = at /\ h.weight > 0}) = <<>>
    BY OnlyOfNothing DEF Removed
  <2> DEFINE empty == Only(t.hints, {h \in ToSet(t.hints) : h.at = at /\ h.weight > 0})
             r == [k \in DOMAIN empty |-> ReturnRecord(t, empty[k].weight, NoPlace, 0)]
  <2>2. DOMAIN r = 1..0 /\ \A k \in 1..0 : r[k] \in {}
    BY <2>1
  <2>3. r \in [1..0 -> {}]
    BY <2>2
  <2> HIDE DEF r
  <2>4. r \in Seq({}) /\ Len(r) = 0
    BY <2>2, <2>3
  <2>5. r = <<>>
    BY <2>4, EmptySeq
  <2> QED BY <2>5 DEF ReturnHints, r
<1>3. HandleRemoval(a.basket, t) \in Seq(Entry)
  BY HandleRemovalType DEF Aggregates
<1>4. ApplyTrigger(a, t, defer) =
        [a EXCEPT !.deferred = @ \o ReturnHints(t, "before_removal")
                                 \o ReturnHints(t, "after_removal"),
                  !.basket = HandleRemoval(@, t)]
  BY <1>1 DEF ApplyTrigger
<1>5. a.deferred \o <<>> \o <<>> = <<>>
  BY DEF Aggregates
<1>6. ApplyTrigger(a, t, defer) = [a EXCEPT !.deferred = <<>>, !.basket = HandleRemoval(a.basket, t)]
  BY <1>2, <1>4, <1>5
<1> QED BY <1>3, <1>6 DEF Aggregates

\* Triggers in the order of their times, equal times in their old order.
LEMMA ChronologicalType ==
  ASSUME NEW R, NEW s \in Seq(R), \A t \in R : t.time \in Int
  PROVE  Chronological(s) \in Seq(R)
<1> DEFINE keys == [i \in DOMAIN s |-> <<s[i].time>>]
<1>1. \A i \in DOMAIN s : s[i].time \in Int
  BY LenProperties, ElementOfSeq
<1>2. Tuples(keys, DOMAIN s, 1)
  BY <1>1 DEF Tuples
<1>3. Chronological(s) = SortedOn(s, keys)
  BY DEF Chronological, SortedBy
<1> HIDE DEF keys
<1> QED BY <1>2, <1>3, SortedOnType

\* A session rebuilt from removals holds what they put into its basket; no
\* return waits or is left over.
LEMMA AggregateType ==
  ASSUME ~Freezer, NEW R, \A t \in R : Removed(t), NEW s \in Seq(R), NEW defer
  PROVE  Aggregate(s, defer) \in Aggregates
<1> DEFINE c == Chronological(s)
           n == Len(c)
           V == Aggregates
           b == EmptyAggregate
           Step(v, t) == ApplyTrigger(v, t, defer)
           G == [p \in (1..n) \X V |-> Step(p[2], c[p[1]])]
           Eq(F) == F = [X \in SUBSET (1..n) |->
                           IF X = {} THEN b ELSE Step(F[X \ {Max(X)}], c[Max(X)])]
           H == CHOOSE F : Eq(F)
<1>1. /\ c \in Seq(R) /\ n \in Nat /\ DOMAIN c = 1..n
      /\ \A k \in 1..n : c[k] \in R /\ Removed(c[k])
  <2>1. \A t \in R : t.time \in Int
    BY DEF Removed
  <2>2. c \in Seq(R)
    BY <2>1, ChronologicalType
  <2> HIDE DEF c
  <2> QED BY <2>2, LenProperties, ElementOfSeq
<1>2. Aggregate(s, defer) = H[1..n]
  <2> HIDE DEF c
  <2>1. FoldLeft(LAMBDA v, t : ApplyTrigger(v, t, defer), b, c) = H[1..n]
    BY <1>1 DEF FoldLeft, MapThenFoldSet
  <2> QED BY <2>1 DEF Aggregate, c
<1> HIDE DEF c
<1>3. ASSUME NEW k \in 1..n, NEW v \in V
      PROVE  G[<<k, v>>] = Step(v, c[k]) /\ Step(v, c[k]) \in V
  BY <1>1, ApplyRemoval
<1>4. Steps(n, V, G) /\ b \in V
  <2>1. b \in V
    BY DEF EmptyAggregate, Aggregates
  <2> HIDE DEF G, V, Step
  <2> QED BY <1>3, <2>1 DEF Steps
<1> HIDE DEF Step, b
<1>5. \A X \in SUBSET (1..n) : X # {} => Max(X) \in 1..n
  BY <1>1, MaxOfPlaces
<1> HIDE DEF G, n, V
<1>6. Eq(H)
  <2>1. PICK F : F \in Folds(n, V, b, G)
    BY <1>1, <1>4, FoldExists
  <2>2. ASSUME NEW X \in SUBSET (1..n)
        PROVE  F[X] = IF X = {} THEN b ELSE Step(F[X \ {Max(X)}], c[Max(X)])
    <3>1. F[X] = IF X = {} THEN b ELSE G[<<Max(X), F[X \ {Max(X)}]>>]
      BY <2>1 DEF Folds
    <3>2. X # {} => Max(X) \in 1..n /\ F[X \ {Max(X)}] \in V
      BY <1>5, <2>1 DEF Folds
    <3> QED BY <1>3, <3>1, <3>2
  <2>3. Eq(F)
    BY <2>1, <2>2 DEF Folds
  <2> QED BY <2>3
<1>7. FollowsSteps(H, n, V, b, G)
  <2>1. H[{}] = b
    BY <1>6
  <2>2. ASSUME NEW X \in SUBSET (1..n), X # {}, H[X \ {Max(X)}] \in V
        PROVE  H[X] = G[<<Max(X), H[X \ {Max(X)}]>>]
    <3>1. H[X] = Step(H[X \ {Max(X)}], c[Max(X)])
      BY <1>6, <2>2
    <3>2. Max(X) \in 1..n
      BY <1>5, <2>2
    <3> HIDE DEF H
    <3> QED BY <1>3, <2>2, <3>1, <3>2
  <2> QED BY <2>1, <2>2 DEF FollowsSteps
<1> HIDE DEF H
<1>8. PICK h : h \in States(n, V, b, G, H[1..n])
  BY <1>1, <1>4, <1>7, FoldStates
<1>9. H[1..n] \in V
  BY <1>1, <1>8 DEF States
<1> QED BY <1>2, <1>9 DEF V

-----------------------------------------------------------------------------
(* Sessions of removals                                                      *)

Fields == {"created", "triggers", "basket", "unmatched", "deferred", "cross", "hints",
           "reconciled"}

\* A session with results, each one a trigger of R.
Begun(s, R) ==
  /\ s = [f \in Fields |-> s[f]]
  /\ s.triggers \in Seq(R) /\ s.triggers # <<>>

\* ... and with nothing but what they removed.
OnlyTakes(s, R) ==
  /\ Begun(s, R)
  /\ s.basket \in Seq(Entry)
  /\ s.unmatched = <<>> /\ s.deferred = <<>> /\ s.cross = <<>>

Store(S) == S = [z \in DOMAIN S |-> S[z]] /\ IsFiniteSet(DOMAIN S) /\ DOMAIN S \subseteq Zones

\* Rebuilding a session keeps its triggers and leaves no return open.
LEMMA RebuiltTakes ==
  ASSUME ~Freezer, NEW R, \A t \in R : Removed(t), NEW s, Begun(s, R), NEW v \in BOOLEAN
  PROVE  OnlyTakes(Rebuilt(s, v), R)
<1> DEFINE agg == Aggregate(s.triggers, v /\ Freezer)
           hints == agg.hints \o FlattenSeq([k \in DOMAIN s.triggers |-> s.triggers[k].touches])
<1>1. agg \in Aggregates
  BY AggregateType DEF Begun
<1>2. /\ agg.basket \in Seq(Entry) /\ agg.unmatched = <<>> /\ agg.deferred = <<>>
      /\ agg.unmatched \o agg.deferred = <<>>
  BY <1>1 DEF Aggregates
<1>3. Rebuilt(s, v) =
        [s EXCEPT !.basket = agg.basket,
                  !.unmatched = IF v THEN agg.unmatched ELSE agg.unmatched \o agg.deferred,
                  !.deferred = IF v THEN agg.deferred ELSE <<>>,
                  !.hints = hints, !.cross = <<>>, !.reconciled = FALSE]
  BY DEF Rebuilt, RebuiltFrom
<1> HIDE DEF agg, hints
<1>4. Rebuilt(s, v) =
        [s EXCEPT !.basket = agg.basket, !.unmatched = <<>>, !.deferred = <<>>,
                  !.hints = hints, !.cross = <<>>, !.reconciled = FALSE]
  BY <1>2, <1>3
<1> DEFINE r == Rebuilt(s, v)
<1>5. DOMAIN s = Fields /\ r = [f \in Fields |-> r[f]] /\ r.triggers = s.triggers
  BY <1>4 DEF Begun, Fields
<1>6. r.basket = agg.basket /\ r.unmatched = <<>> /\ r.deferred = <<>> /\ r.cross = <<>>
  BY <1>4, <1>5 DEF Fields
<1> QED BY <1>2, <1>5, <1>6 DEF OnlyTakes, Begun

-----------------------------------------------------------------------------
(* The passes over the zones                                                 *)

\* The passes visit zones of the store, and every one of them.
LEMMA ZonesInOrder ==
  ASSUME NEW S, IsFiniteSet(DOMAIN S), DOMAIN S \subseteq Zones
  PROVE  /\ ZoneOrder(S) \in Seq(DOMAIN S)
         /\ \A z \in DOMAIN S : \E k \in 1..Len(ZoneOrder(S)) : ZoneOrder(S)[k] = z
<1> DEFINE D == DOMAIN S
           R == {p \in D \X D : p[1] < p[2]}
<1>1. \A z \in D : z \in Int
  BY ZonesAssumption
<1> HIDE DEF D
<1>2. StrictOrder(R, D)
  BY <1>1 DEF StrictOrder
<1>3. \A x, y \in D : x = y \/ <<x, y>> \in R \/ <<y, x>> \in R
  BY <1>1
<1> HIDE DEF R
<1>4. IsFiniteSet(D)
  BY DEF D
<1>5. /\ InOrderOf(D, R) \in Seq(D)
      /\ Len(InOrderOf(D, R)) = Cardinality(D)
      /\ \A x \in D : \E k \in 1..Cardinality(D) : InOrderOf(D, R)[k] = x
  BY <1>2, <1>3, <1>4, ListedInOrder
<1> QED BY <1>5 DEF ZoneOrder, D, R

\* Every session is exchanged.
LEMMA ExchangedAll ==
  ASSUME NEW S, Store(S), NEW T, T = [z \in DOMAIN S |-> T[z]]
  PROVE  Exchanged(S, T) = T
<1> DEFINE D == DOMAIN S
           c == ZoneOrder(S)
           n == Len(c)
           V == [D -> {S[z] : z \in D} \cup {T[z] : z \in D}]
           Step(v, z) == [v EXCEPT ![z] = T[z]]
           G == [p \in (1..n) \X V |-> Step(p[2], c[p[1]])]
           Eq(F) == F = [X \in SUBSET (1..n) |->
                           IF X = {} THEN S ELSE Step(F[X \ {Max(X)}], c[Max(X)])]
           H == CHOOSE F : Eq(F)
<1>1. /\ c \in Seq(D) /\ n \in Nat /\ DOMAIN c = 1..n
      /\ \A k \in 1..n : c[k] \in D
      /\ \A z \in D : \E k \in 1..n : c[k] = z
  <2>1. c \in Seq(D) /\ \A z \in D : \E k \in 1..n : c[k] = z
    BY ZonesInOrder DEF Store
  <2> HIDE DEF c, D
  <2> QED BY <2>1, LenProperties, ElementOfSeq
<1>2. Exchanged(S, T) = H[1..n]
  <2> HIDE DEF c
  <2>1. FoldLeft(LAMBDA U, z : [U EXCEPT ![z] = T[z]], S, c) = H[1..n]
    BY <1>1 DEF FoldLeft, MapThenFoldSet
  <2> QED BY <2>1 DEF Exchanged, c
<1> HIDE DEF c
<1>3. ASSUME NEW k \in 1..n, NEW v \in V
      PROVE  G[<<k, v>>] = Step(v, c[k]) /\ Step(v, c[k]) \in V
  BY <1>1
<1>4. Steps(n, V, G) /\ S \in V
  <2>1. S \in V
    BY DEF Store
  <2> HIDE DEF G, V, Step
  <2> QED BY <1>3, <2>1 DEF Steps
<1>5. \A X \in SUBSET (1..n) : X # {} => Max(X) \in 1..n
  BY <1>1, MaxOfPlaces
<1>12. ASSUME NEW v \in V, NEW z \in D, NEW k \in 1..n
       PROVE  Step(v, c[k])[z] = IF z = c[k] THEN T[z] ELSE v[z]
  BY <1>1
<1>13. \A v \in V : DOMAIN v = D /\ v = [z \in D |-> v[z]]
  OBVIOUS
<1> HIDE DEF G, n, V, Step
<1>6. Eq(H)
  <2>1. PICK F : F \in Folds(n, V, S, G)
    BY <1>1, <1>4, FoldExists
  <2>2. ASSUME NEW X \in SUBSET (1..n)
        PROVE  F[X] = IF X = {} THEN S ELSE Step(F[X \ {Max(X)}], c[Max(X)])
    <3>1. F[X] = IF X = {} THEN S ELSE G[<<Max(X), F[X \ {Max(X)}]>>]
      BY <2>1 DEF Folds
    <3>2. X # {} => Max(X) \in 1..n /\ F[X \ {Max(X)}] \in V
      BY <1>5, <2>1 DEF Folds
    <3> QED BY <1>3, <3>1, <3>2
  <2>3. Eq(F)
    BY <2>1, <2>2 DEF Folds
  <2> QED BY <2>3
<1>7. FollowsSteps(H, n, V, S, G)
  <2>1. H[{}] = S
    BY <1>6
  <2>2. ASSUME NEW X \in SUBSET (1..n), X # {}, H[X \ {Max(X)}] \in V
        PROVE  H[X] = G[<<Max(X), H[X \ {Max(X)}]>>]
    <3>1. H[X] = Step(H[X \ {Max(X)}], c[Max(X)])
      BY <1>6, <2>2
    <3>2. Max(X) \in 1..n
      BY <1>5, <2>2
    <3> HIDE DEF H
    <3> QED BY <1>3, <2>2, <3>1, <3>2
  <2> QED BY <2>1, <2>2 DEF FollowsSteps
<1> HIDE DEF H
<1>8. PICK h : h \in States(n, V, S, G, H[1..n])
  BY <1>1, <1>4, <1>7, FoldStates
<1>9. \A k \in 0..n : h[k] \in V
  BY <1>8 DEF States
<1>10. ASSUME NEW k \in 1..n, NEW z \in D
       PROVE  h[k][z] = IF z = c[k] THEN T[z] ELSE h[k - 1][z]
  <2>1. k - 1 \in 0..n
    BY <1>1
  <2>2. h[k] = G[<<k, h[k - 1]>>] /\ h[k - 1] \in V
    BY <1>8, <1>9, <2>1 DEF States
  <2> QED BY <1>3, <1>12, <2>2
<1> DEFINE Done(k) == {z \in D : \E j \in 1..k : c[j] = z}
           K == {k \in 0..n : \A z \in Done(k) : h[k][z] = T[z]}
<1>11. n \in K
  <2>1. 0 \in K
    BY <1>1
  <2>2. ASSUME NEW k \in 1..n, k - 1 \in K PROVE k \in K
    <3>1. ASSUME NEW z \in Done(k) PROVE h[k][z] = T[z]
      <4>1. CASE z = c[k]
        BY <1>10, <4>1
      <4>2. CASE z # c[k]
        <5>1. z \in Done(k - 1)
          BY <1>1, <4>2
        <5> QED BY <1>10, <2>2, <4>2, <5>1
      <4> QED BY <4>1, <4>2
    <3>2. k \in 0..n
      BY <1>1
    <3> HIDE DEF Done
    <3> QED BY <3>1, <3>2
  <2> HIDE DEF K
  <2>3. \A k \in 0..n : k \in K
    BY <1>1, <2>1, <2>2, Counting
  <2> QED BY <1>1, <2>3
<1>14. \A z \in D : h[n][z] = T[z]
  BY <1>1, <1>11
<1>15. h[n] = T
  <2>1. h[n] \in V
    BY <1>1, <1>9
  <2>2. h[n] = [z \in D |-> h[n][z]]
    BY <1>13, <2>1
  <2>3. [z \in D |-> h[n][z]] = [z \in D |-> T[z]]
    BY <1>14
  <2> QED BY <2>2, <2>3
<1>16. h[n] = H[1..n]
  BY <1>8 DEF States
<1> QED BY <1>2, <1>15, <1>16

\* Sessions that only lost products.
Takes(S, R) == Store(S) /\ \A z \in DOMAIN S : OnlyTakes(S[z], R)

\* Without returns to match the other zones stay as they are.
LEMMA NothingElsewhere ==
  ASSUME NEW S, NEW z
  PROVE  MatchElsewhere(S, z, <<>>) = [S |-> S, left |-> <<>>]
<1> DEFINE b == [S |-> S, left |-> <<>>]
           F == [X \in SUBSET {} |-> b]
<1>1. DOMAIN <<>> = {}
  OBVIOUS
<1>2. F[{}] = b
  OBVIOUS
<1> QED BY <1>1, <1>2 DEF MatchElsewhere, FoldLeft, MapThenFoldSet

\* No return is matched in another zone.
LEMMA NoCrossReturns ==
  ASSUME NEW R, NEW S, Takes(S, R)
  PROVE  HandleCrossZoneReturns(S) = S
<1> DEFINE c == ZoneOrder(S)
           n == Len(c)
           V == {S}
           Step(v, z) == 
             [MatchElsewhere(v, z, v[z].unmatched).S EXCEPT
                ![z].unmatched = MatchElsewhere(v, z, v[z].unmatched).left]
           G == [p \in (1..n) \X V |-> Step(p[2], c[p[1]])]
           Eq(F) == F = [X \in SUBSET (1..n) |->
                           IF X = {} THEN S ELSE Step(F[X \ {Max(X)}], c[Max(X)])]
           H == CHOOSE F : Eq(F)
<1>1. /\ n \in Nat /\ DOMAIN c = 1..n
      /\ \A k \in 1..n : c[k] \in DOMAIN S
  <2>1. c \in Seq(DOMAIN S)
    BY ZonesInOrder DEF Takes, Store
  <2> HIDE DEF c
  <2> QED BY <2>1, LenProperties, ElementOfSeq
<1>2. HandleCrossZoneReturns(S) = H[1..n]
  <2> HIDE DEF c
  <2>1. FoldLeft(LAMBDA T, z : LET a == MatchElsewhere(T, z, T[z].unmatched)
                                 IN  [a.S EXCEPT ![z].unmatched = a.left], S, c) = H[1..n]
    BY <1>1 DEF FoldLeft, MapThenFoldSet
  <2> QED BY <2>1 DEF HandleCrossZoneReturns, c
<1> HIDE DEF c
<1>3. ASSUME NEW k \in 1..n, NEW v \in V
      PROVE  G[<<k, v>>] = Step(v, c[k]) /\ Step(v, c[k]) \in V
  <2>1. G[<<k, v>>] = Step(v, c[k])
    OBVIOUS
  <2>2. Step(S, c[k]) = S
    <3> DEFINE z == c[k]
    <3>1. z \in DOMAIN S /\ S[z].unmatched = <<>> /\ S[z] = [f \in Fields |-> S[z][f]]
          /\ S = [y \in DOMAIN S |-> S[y]]
      BY <1>1 DEF Takes, Store, OnlyTakes, Begun
    <3> HIDE DEF z
    <3>2. MatchElsewhere(S, z, S[z].unmatched) = [S |-> S, left |-> <<>>]
      BY <3>1, NothingElsewhere
    <3>3. Step(S, z) = [S EXCEPT ![z].unmatched = <<>>]
      BY <3>2
    <3>4. [S EXCEPT ![z].unmatched = <<>>] = S
      <4>1. [S[z] EXCEPT !.unmatched = <<>>] = S[z]
        BY <3>1 DEF Fields
      <4> QED BY <3>1, <4>1
    <3> QED BY <3>3, <3>4 DEF z
  <2> QED BY <2>1, <2>2
<1> HIDE DEF Step
<1>4. Steps(n, V, G) /\ S \in V
  BY <1>3 DEF Steps
<1>5. \A X \in SUBSET (1..n) : X # {} => Max(X) \in 1..n
  BY <1>1, MaxOfPlaces
<1> HIDE DEF G, n, V
<1>6. Eq(H)
  <2>1. PICK F : F \in Folds(n, V, S, G)
    BY <1>1, <1>4, FoldExists
  <2>2. ASSUME NEW X \in SUBSET (1..n)
        PROVE  F[X] = IF X = {} THEN S ELSE Step(F[X \ {Max(X)}], c[Max(X)])
    <3>1. F[X] = IF X = {} THEN S ELSE G[<<Max(X), F[X \ {Max(X)}]>>]
      BY <2>1 DEF Folds
    <3>2. X # {} => Max(X) \in 1..n /\ F[X \ {Max(X)}] \in V
      BY <1>5, <2>1 DEF Folds
    <3> QED BY <1>3, <3>1, <3>2
  <2>3. Eq(F)
    BY <2>1, <2>2 DEF Folds
  <2> QED BY <2>3
<1>7. FollowsSteps(H, n, V, S, G)
  <2>1. H[{}] = S
    BY <1>6
  <2>2. ASSUME NEW X \in SUBSET (1..n), X # {}, H[X \ {Max(X)}] \in V
        PROVE  H[X] = G[<<Max(X), H[X \ {Max(X)}]>>]
    <3>1. H[X] = Step(H[X \ {Max(X)}], c[Max(X)])
      BY <1>6, <2>2
    <3>2. Max(X) \in 1..n
      BY <1>5, <2>2
    <3> HIDE DEF H
    <3> QED BY <1>3, <2>2, <3>1, <3>2
  <2> QED BY <2>1, <2>2 DEF FollowsSteps
<1> HIDE DEF H
<1>8. PICK h : h \in States(n, V, S, G, H[1..n])
  BY <1>1, <1>4, <1>7, FoldStates
<1>9. H[1..n] \in V
  BY <1>1, <1>8 DEF States
<1> QED BY <1>2, <1>9 DEF V

\* No return waits for CLOSE.
LEMMA NothingDeferred ==
  ASSUME NEW R, NEW S, Takes(S, R)
  PROVE  SettleDeferredReturns(S) = S
<1> DEFINE c == ZoneOrder(S)
           n == Len(c)
           V == {S}
           Step(v, z) == IF v[z].deferred = <<>> THEN v ELSE SettleZone(v, z)
           G == [p \in (1..n) \X V |-> Step(p[2], c[p[1]])]
           Eq(F) == F = [X \in SUBSET (1..n) |->
                           IF X = {} THEN S ELSE Step(F[X \ {Max(X)}], c[Max(X)])]
           H == CHOOSE F : Eq(F)
<1>1. /\ n \in Nat /\ DOMAIN c = 1..n
      /\ \A k \in 1..n : c[k] \in DOMAIN S
  <2>1. c \in Seq(DOMAIN S)
    BY ZonesInOrder DEF Takes, Store
  <2> HIDE DEF c
  <2> QED BY <2>1, LenProperties, ElementOfSeq
<1>2. SettleDeferredReturns(S) = H[1..n]
  <2> HIDE DEF c
  <2>1. FoldLeft(LAMBDA T, z : IF T[z].deferred = <<>> THEN T ELSE SettleZone(T, z), S, c) = H[1..n]
    BY <1>1 DEF FoldLeft, MapThenFoldSet
  <2> QED BY <2>1 DEF SettleDeferredReturns, c
<1> HIDE DEF c
<1>3. ASSUME NEW k \in 1..n, NEW v \in V
      PROVE  G[<<k, v>>] = Step(v, c[k]) /\ Step(v, c[k]) \in V
  <2>1. G[<<k, v>>] = Step(v, c[k])
    OBVIOUS
  <2>2. Step(S, c[k]) = S
    BY <1>1 DEF Takes, OnlyTakes
  <2> QED BY <2>1, <2>2
<1> HIDE DEF Step
<1>4. Steps(n, V, G) /\ S \in V
  BY <1>3 DEF Steps
<1>5. \A X \in SUBSET (1..n) : X # {} => Max(X) \in 1..n
  BY <1>1, MaxOfPlaces
<1> HIDE DEF G, n, V
<1>6. Eq(H)
  <2>1. PICK F : F \in Folds(n, V, S, G)
    BY <1>1, <1>4, FoldExists
  <2>2. ASSUME NEW X \in SUBSET (1..n)
        PROVE  F[X] = IF X = {} THEN S ELSE Step(F[X \ {Max(X)}], c[Max(X)])
    <3>1. F[X] = IF X = {} THEN S ELSE G[<<Max(X), F[X \ {Max(X)}]>>]
      BY <2>1 DEF Folds
    <3>2. X # {} => Max(X) \in 1..n /\ F[X \ {Max(X)}] \in V
      BY <1>5, <2>1 DEF Folds
    <3> QED BY <1>3, <3>1, <3>2
  <2>3. Eq(F)
    BY <2>1, <2>2 DEF Folds
  <2> QED BY <2>3
<1>7. FollowsSteps(H, n, V, S, G)
  <2>1. H[{}] = S
    BY <1>6
  <2>2. ASSUME NEW X \in SUBSET (1..n), X # {}, H[X \ {Max(X)}] \in V
        PROVE  H[X] = G[<<Max(X), H[X \ {Max(X)}]>>]
    <3>1. H[X] = Step(H[X \ {Max(X)}], c[Max(X)])
      BY <1>6, <2>2
    <3>2. Max(X) \in 1..n
      BY <1>5, <2>2
    <3> HIDE DEF H
    <3> QED BY <1>3, <2>2, <3>1, <3>2
  <2> QED BY <2>1, <2>2 DEF FollowsSteps
<1> HIDE DEF H
<1>8. PICK h : h \in States(n, V, S, G, H[1..n])
  BY <1>1, <1>4, <1>7, FoldStates
<1>9. H[1..n] \in V
  BY <1>1, <1>8 DEF States
<1> QED BY <1>2, <1>9 DEF V

-----------------------------------------------------------------------------
(* What the loadcells lost                                                   *)

\* The function without arguments is the empty sequence.
LEMMA EmptyFunction ==
  ASSUME NEW f, f = [k \in {} |-> f[k]]
  PROVE  f = <<>>
<1>1. f \in [1..0 -> {}]
  BY 1..0 = {}
<1>2. f \in Seq({}) /\ Len(f) = 0
  BY <1>1
<1> QED BY <1>2, EmptySeq

\* A trigger without hints of a return moved what it says.
LEMMA EffectOfRemoval ==
  ASSUME NEW t, Removed(t)
  PROVE  EffectiveDelta(t) = t.delta
<1> DEFINE f == [k \in DOMAIN t.hints |-> t.hints[k].weight]
<1>1. DOMAIN t.hints = {}
  BY DEF Removed
<1>2. f = <<>>
  <2>1. f = [k \in {} |-> f[k]]
    BY <1>1
  <2> HIDE DEF f
  <2> QED BY <2>1, EmptyFunction
<1>3. SumOver(t.hints, LAMBDA h : h.weight) = 0
  BY <1>2, SumOfNothing DEF SumOver
<1> QED BY <1>3 DEF EffectiveDelta, Removed

\* A session of removals lost something.
LEMMA LostIsPositive ==
  ASSUME NEW R, \A t \in R : Removed(t), NEW s, Begun(s, R)
  PROVE  Lost(s) \in Int /\ Lost(s) > 0
<1> DEFINE w == [k \in DOMAIN s.triggers |-> EffectiveDelta(s.triggers[k])]
           n == Len(s.triggers)
<1>1. /\ n \in Nat /\ n # 0 /\ DOMAIN s.triggers = 1..n
      /\ \A k \in 1..n : s.triggers[k] \in R
  BY LenProperties, ElementOfSeq, EmptySeq DEF Begun
<1>2. \A k \in 1..n : EffectiveDelta(s.triggers[k]) \in Int /\ EffectiveDelta(s.triggers[k]) < 0
  BY <1>1, EffectOfRemoval DEF Removed
<1>3. w \in [1..n -> Int] /\ \A k \in 1..n : w[k] < 0
  BY <1>1, <1>2
<1> HIDE DEF w
<1>4. w \in Seq(Int) /\ Len(w) = n
  BY <1>1, <1>3
<1>5. w # <<>>
  BY <1>1, <1>4
<1>6. SumOf(w) < 0 /\ SumOf(w) \in Int
  BY <1>3, <1>4, <1>5, SumOfNegatives, SumType
<1>7. Lost(s) = -SumOf(w)
  BY DEF Lost, SumOver, w
<1> QED BY <1>6, <1>7

\* No zone expects a return from another one.
LEMMA NothingIncoming ==
  ASSUME NEW R, NEW S, Takes(S, R), NEW z
  PROVE  Incoming(S, z) = 0
<1> DEFINE c == ZoneOrder(S)
           n == Len(c)
           From(o) == [j \in DOMAIN S[o].cross |->
                         IF S[o].cross[j].target = z THEN S[o].cross[j].delta ELSE 0]
           w == [k \in DOMAIN c |-> SumOf(From(c[k]))]
<1>1. n \in Nat /\ DOMAIN c = 1..n /\ \A k \in 1..n : c[k] \in DOMAIN S
  <2>1. c \in Seq(DOMAIN S)
    BY ZonesInOrder DEF Takes, Store
  <2> HIDE DEF c
  <2> QED BY <2>1, LenProperties, ElementOfSeq
<1>2. Incoming(S, z) = SumOf(w)
  BY DEF Incoming, SumOver
<1> HIDE DEF c
<1>3. ASSUME NEW o \in DOMAIN S PROVE SumOf(From(o)) = 0
  <2>1. DOMAIN S[o].cross = {}
    BY DEF Takes, OnlyTakes
  <2>2. From(o) = [j \in {} |-> From(o)[j]]
    BY <2>1
  <2>3. From(o) = <<>>
    <3> HIDE DEF From
    <3> QED BY <2>2, EmptyFunction
  <2> HIDE DEF From
  <2> QED BY <2>3, SumOfNothing
<1> HIDE DEF From
<1>4. w \in [1..n -> Int] /\ \A k \in 1..n : w[k] = 0
  BY <1>1, <1>3
<1> HIDE DEF w
<1>5. w \in Seq(Int) /\ Len(w) = n
  BY <1>1, <1>4
<1>6. SumOf(w) = 0
  BY <1>4, <1>5, SumOfZeros
<1> QED BY <1>2, <1>6

\* The net movement CLOSE weighs a session by is what its loadcells lost.
LEMMA NetIsLost ==
  ASSUME NEW R, \A t \in R : Removed(t), NEW S, Takes(S, R), NEW z \in DOMAIN S
  PROVE  /\ Lost(S[z]) \in Int /\ Lost(S[z]) > 0
         /\ NetDelta(S, z) = -Lost(S[z])
         /\ ~Blocked(S, z)
<1> DEFINE sum == SumOver(S[z].triggers, EffectiveDelta)
           u == [k \in DOMAIN S[z].unmatched |-> Abs(S[z].unmatched[k].delta)]
           x == [k \in DOMAIN S[z].cross |-> S[z].cross[k].delta]
<1>1. DOMAIN S[z].unmatched = {} /\ DOMAIN S[z].cross = {}
  BY DEF Takes, OnlyTakes
<1>2. u = [k \in {} |-> u[k]] /\ x = [k \in {} |-> x[k]]
  BY <1>1
<1>3. SumOf(u) = 0 /\ SumOf(x) = 0
  <2> HIDE DEF u, x
  <2> QED BY <1>2, EmptyFunction, SumOfNothing
<1>4. NetDelta(S, z) = sum - SumOf(u) - SumOf(x) + Incoming(S, z)
  BY DEF NetDelta, SumOver
<1>5. Lost(S[z]) \in Int /\ Lost(S[z]) > 0
  BY LostIsPositive DEF Takes, OnlyTakes
<1>6. Incoming(S, z) = 0
  BY NothingIncoming
<1>7. Lost(S[z]) = -sum
  BY DEF Lost
<1>8. sum \in Int
  <2> DEFINE w == [k \in DOMAIN S[z].triggers |-> EffectiveDelta(S[z].triggers[k])]
             n == Len(S[z].triggers)
  <2>1. /\ n \in Nat /\ DOMAIN S[z].triggers = 1..n
        /\ \A k \in 1..n : S[z].triggers[k] \in R
    <3>1. S[z].triggers \in Seq(R)
      BY DEF Takes, OnlyTakes, Begun
    <3> QED BY <3>1, LenProperties, ElementOfSeq
  <2>2. w \in [1..n -> Int]
    BY <2>1, EffectOfRemoval DEF Removed
  <2>3. sum = SumOf(w)
    BY DEF SumOver
  <2> HIDE DEF w, sum
  <2>4. w \in Seq(Int)
    BY <2>1, <2>2
  <2> QED BY <2>3, <2>4, SumType
<1> HIDE DEF sum
<1>9. NetDelta(S, z) = -Lost(S[z])
  BY <1>3, <1>4, <1>6, <1>7, <1>8
<1>10. ~Blocked(S, z)
  BY DEF Blocked, Takes, OnlyTakes
<1> QED BY <1>5, <1>9, <1>10

-----------------------------------------------------------------------------
(* The repeated product that may replace a basket                            *)

\* Finitely many proposals, each a candidate of a known weight.
LEMMA ProposalsSound ==
  ASSUME NEW R, \A t \in R : Removed(t), NEW s, Begun(s, R)
  PROVE  /\ IsFiniteSet(Proposals(s))
         /\ \A x \in Proposals(s) :
              /\ x = <<x[1], x[2]>> /\ x[1] \in 1..Len(s.triggers) /\ x[2] \in Int
              /\ Proposed(s, x) \in Candidate /\ UnitWeight[Proposed(s, x).id] > 0
<1> DEFINE n == Len(s.triggers)
           cs(k) == s.triggers[k].candidates
           fit(k) == {c \in DOMAIN cs(k) : UnitWeight[cs(k)[c].id] > 0}
           ks == {j \in DOMAIN s.triggers : IsRemoval(s.triggers[j])}
<1>1. /\ n \in Nat /\ DOMAIN s.triggers = 1..n
      /\ \A k \in 1..n : s.triggers[k] \in R
  <2>1. s.triggers \in Seq(R)
    BY DEF Begun
  <2> QED BY <2>1, LenProperties, ElementOfSeq
<1>2. \A k \in 1..n : cs(k) \in Seq(Candidate)
  BY <1>1 DEF Removed
<1>3. ASSUME NEW k \in 1..n
      PROVE  /\ DOMAIN cs(k) = 1..Len(cs(k)) /\ Len(cs(k)) \in Nat
             /\ \A c \in DOMAIN cs(k) : cs(k)[c] \in Candidate
  <2> DEFINE q == cs(k)
  <2>1. q \in Seq(Candidate)
    BY <1>2
  <2> HIDE DEF q
  <2>2. DOMAIN q = 1..Len(q) /\ Len(q) \in Nat /\ \A c \in DOMAIN q : q[c] \in Candidate
    BY <2>1, LenProperties, ElementOfSeq
  <2> QED BY <2>2 DEF q
<1>4. ASSUME NEW k \in 1..n PROVE IsFiniteSet({k} \X fit(k))
  <2> DEFINE C == fit(k)
             f == [c \in C |-> <<k, c>>]
  <2>1. IsFiniteSet(C)
    <3> DEFINE m == Len(cs(k))
    <3>1. m \in Int /\ C \in SUBSET (1..m)
      BY <1>3
    <3> HIDE DEF C, m
    <3>2. IsFiniteSet(1..m)
      BY <3>1, FS_Interval
    <3> QED BY <3>1, <3>2, FS_Subset
  <2> HIDE DEF C
  <2>2. {f[c] : c \in C} = {k} \X C
    OBVIOUS
  <2> HIDE DEF f
  <2>3. IsFiniteSet({f[c] : c \in C})
    BY <2>1, FiniteImage
  <2> QED BY <2>2, <2>3 DEF C
<1>5. IsFiniteSet(Proposals(s))
  <2> DEFINE f == [k \in ks |-> {k} \X fit(k)]
             U == {f[k] : k \in ks}
  <2>1. IsFiniteSet(ks)
    <3>1. IsFiniteSet(1..n) /\ ks \in SUBSET (1..n)
      BY <1>1, FS_Interval
    <3> HIDE DEF ks
    <3> QED BY <3>1, FS_Subset
  <2>2. \A k \in ks : f[k] = {k} \X fit(k) /\ IsFiniteSet(f[k])
    BY <1>1, <1>4
  <2>3. Proposals(s) = UNION {{k} \X fit(k) : k \in ks}
    BY DEF Proposals
  <2> HIDE DEF f, ks, fit
  <2>4. IsFiniteSet(U)
    BY <2>1, FiniteImage
  <2>5. \A T \in U : IsFiniteSet(T)
    BY <2>2
  <2>6. UNION {{k} \X fit(k) : k \in ks} = UNION U
    BY <2>2
  <2> HIDE DEF U
  <2>7. IsFiniteSet(UNION U)
    BY <2>4, <2>5, FS_UNION
  <2> QED BY <2>3, <2>6, <2>7
<1>6. ASSUME NEW x \in Proposals(s)
      PROVE  /\ x = <<x[1], x[2]>> /\ x[1] \in 1..n /\ x[2] \in Int
             /\ Proposed(s, x) \in Candidate /\ UnitWeight[Proposed(s, x).id] > 0
  <2>1. PICK k \in ks : x \in {k} \X fit(k)
    BY DEF Proposals
  <2>2. PICK c \in fit(k) : x = <<k, c>>
    BY <2>1
  <2>3. k \in 1..n /\ c \in 1..Len(cs(k)) /\ x[1] = k /\ x[2] = c
    BY <1>1, <1>3, <2>2
  <2>4. Proposed(s, x) = cs(k)[c]
    BY <2>3 DEF Proposed
  <2> QED BY <1>3, <2>2, <2>3, <2>4
<1> QED BY <1>5, <1>6

\* A group of proposals: a known product that weighs something, with numbers.
Weighed(g) ==
  /\ g.id \in Products /\ UnitWeight[g.id] \in Nat \ {0}
  /\ \A m \in {g.triggers, g.regular, g.rank, g.conf, g.first[1], g.first[2]} : m \in Int

\* What the proposals of one product add up to is numbers.
LEMMA GroupWeighed ==
  ASSUME NEW R, \A t \in R : Removed(t), NEW s, Begun(s, R),
         NEW p, NEW P, P = {x \in Proposals(s) : Proposed(s, x).id = p}, P # {}
  PROVE  Weighed(Group(s, p, P))
<1> DEFINE regular == {x \in P : Proposed(s, x).regular}
           first == LeastBy(P, LAMBDA x : x)
           confs == {Proposed(s, x).conf : x \in P}
           ranks == {Proposed(s, x).rank : x \in regular}
           visits == {x[1] : x \in P}
           g == Group(s, p, P)
<1>1. \A x \in P : /\ x = <<x[1], x[2]>> /\ x[1] \in 1..Len(s.triggers) /\ x[2] \in Int
                   /\ Proposed(s, x) \in Candidate /\ UnitWeight[Proposed(s, x).id] > 0
                   /\ Proposed(s, x).id = p
  BY ProposalsSound
<1>2. IsFiniteSet(P) /\ IsFiniteSet(regular)
  <2>1. IsFiniteSet(P)
    BY ProposalsSound, FS_Subset
  <2>2. regular \in SUBSET P
    OBVIOUS
  <2> HIDE DEF regular
  <2> QED BY <2>1, <2>2, FS_Subset
<1>3. g.id = p /\ g.first = first /\ g.conf = Max(confs) /\ g.regular = Cardinality(regular)
      /\ g.rank = (IF regular = {} THEN 999 ELSE Min(ranks)) /\ g.triggers = Cardinality(visits)
  BY DEF Group
<1>4. p \in Products /\ UnitWeight[p] \in Nat \ {0}
  <2>1. PICK x \in P : TRUE
    OBVIOUS
  <2>2. p \in Products /\ UnitWeight[p] > 0
    BY <1>1 DEF Candidate
  <2> QED BY <2>2, AggregationAssumption
<1>5. first[1] \in Int /\ first[2] \in Int
  <2> DEFINE K == [x \in P |-> x]
  <2>1. Keyed(K, P, 2)
    BY <1>1 DEF Keyed
  <2>2. \A x \in P : K[x] = x
    OBVIOUS
  <2> HIDE DEF K
  <2>3. \E m \in P : \A o \in P : ~LexLess(K[o], K[m])
    BY <1>2, <2>1, LexLeast
  <2>4. first \in P
    BY <2>2, <2>3 DEF LeastBy
  <2> QED BY <1>1, <2>4
<1>6. Max(confs) \in Int
  <2> DEFINE f == [x \in P |-> Proposed(s, x).conf]
  <2>1. \A x \in P : f[x] = Proposed(s, x).conf /\ f[x] \in Int
    BY <1>1 DEF Candidate
  <2> HIDE DEF f
  <2>2. PICK m \in P : \A x \in P : f[x] <= f[m]
    BY <1>2, <2>1, Topmost
  <2>3. f[m] \in confs /\ \A c \in confs : f[m] >= c
    BY <2>1, <2>2
  <2>4. Max(confs) \in confs
    BY <2>3 DEF Max
  <2> QED BY <2>1, <2>4
<1>7. regular # {} => Min(ranks) \in Int
  <2> SUFFICES ASSUME regular # {} PROVE Min(ranks) \in Int
    OBVIOUS
  <2> DEFINE f == [x \in regular |-> Proposed(s, x).rank]
  <2>1. \A x \in regular : f[x] = Proposed(s, x).rank /\ f[x] \in Int
    BY <1>1 DEF Candidate
  <2> HIDE DEF f, regular
  <2>2. PICK m \in regular : \A x \in regular : f[m] <= f[x]
    BY <1>2, <2>1, Bottommost
  <2>3. f[m] \in ranks /\ \A c \in ranks : f[m] <= c
    BY <2>1, <2>2
  <2>4. Min(ranks) \in ranks
    BY <2>3 DEF Min
  <2> QED BY <2>1, <2>4
<1>8. Cardinality(regular) \in Int /\ Cardinality(visits) \in Int
  <2>1. IsFiniteSet(visits)
    <3>1. s.triggers \in Seq(R)
      BY DEF Begun
    <3>2. Len(s.triggers) \in Nat
      BY <3>1, LenProperties
    <3> DEFINE n == Len(s.triggers)
    <3>3. visits \in SUBSET (1..n)
      <4>1. \A x \in P : x[1] \in 1..n
        BY <1>1
      <4> HIDE DEF n
      <4> QED BY <4>1
    <3> HIDE DEF visits
    <3>4. n \in Int
      BY <3>2
    <3> HIDE DEF n
    <3>5. IsFiniteSet(1..n)
      BY <3>4, FS_Interval
    <3> QED BY <3>3, <3>5, FS_Subset
  <2> HIDE DEF regular, visits
  <2> QED BY <1>2, <2>1, FS_CardinalityType
<1> HIDE DEF g, first, confs, ranks, visits, regular
<1>9. Weighed(g)
  BY <1>3, <1>4, <1>5, <1>6, <1>7, <1>8 DEF Weighed
<1> QED BY <1>9 DEF g

\* Finitely many groups, each of one product of a known weight.
LEMMA GroupsWeighed ==
  ASSUME NEW R, \A t \in R : Removed(t), NEW s, Begun(s, R)
  PROVE  IsFiniteSet(CandidateGroups(s)) /\ \A g \in CandidateGroups(s) : Weighed(g)
<1> DEFINE all == Proposals(s)
           ids == {Proposed(s, x).id : x \in all}
           places(p) == {x \in all : Proposed(s, x).id = p}
<1>1. CandidateGroups(s) = {Group(s, p, places(p)) : p \in ids}
  BY DEF CandidateGroups
<1>2. IsFiniteSet(ids)
  <2> DEFINE f == [x \in all |-> Proposed(s, x).id]
  <2>1. ids = {f[x] : x \in all}
    OBVIOUS
  <2>2. IsFiniteSet(all)
    BY ProposalsSound
  <2> HIDE DEF f, all, ids
  <2> QED BY <2>1, <2>2, FiniteImage
<1>3. IsFiniteSet(CandidateGroups(s))
  <2> DEFINE f == [p \in ids |-> Group(s, p, places(p))]
  <2>1. {Group(s, p, places(p)) : p \in ids} = {f[p] : p \in ids}
    OBVIOUS
  <2>2. CandidateGroups(s) = {f[p] : p \in ids}
    BY <1>1, <2>1
  <2> HIDE DEF f, ids, places
  <2>3. IsFiniteSet({f[p] : p \in ids})
    BY <1>2, FiniteImage
  <2> QED BY <2>2, <2>3
<1>4. ASSUME NEW p \in ids PROVE Weighed(Group(s, p, places(p)))
  <2> DEFINE P == places(p)
  <2>1. P = {x \in Proposals(s) : Proposed(s, x).id = p} /\ P # {}
    OBVIOUS
  <2> HIDE DEF P
  <2>2. Weighed(Group(s, p, P))
    BY <2>1, GroupWeighed
  <2> QED BY <2>2 DEF P
<1> HIDE DEF ids, places
<1> QED BY <1>1, <1>3, <1>4

\* Rounding gives a whole number.
LEMMA RoundedType ==
  ASSUME NEW a \in Int, NEW b \in Nat \ {0}
  PROVE  Rounded(a, b) \in Int
<1> DEFINE q == a \div b
           twice == 2 * (a % b)
<1>1. q \in Int /\ twice \in Int /\ q % 2 \in Int
  OBVIOUS
<1>2. Rounded(a, b) = CASE twice < b -> q [] twice > b -> q + 1 [] OTHER -> q + (q % 2)
  BY DEF Rounded
<1> HIDE DEF q, twice
<1>3. CASE twice < b
  <2>1. ~ (twice > b)
    BY <1>1, <1>3
  <2> QED BY <1>1, <1>2, <1>3, <2>1
<1>4. CASE twice > b
  <2>1. ~ (twice < b)
    BY <1>1, <1>4
  <2> QED BY <1>1, <1>2, <1>4, <2>1
<1>5. CASE ~ (twice < b) /\ ~ (twice > b)
  BY <1>1, <1>2, <1>5
<1> QED BY <1>3, <1>4, <1>5

\* The best of some groups is one of them.
LEMMA BestIsOne ==
  ASSUME NEW viable, IsFiniteSet(viable), viable # {}, \A g \in viable : Weighed(g),
         NEW target \in Int
  PROVE  MostRepeated(viable, target) \in viable
<1> DEFINE Key(g) == <<-g.triggers, -g.regular, g.rank, -g.conf, Unexplained(g, target),
                       g.first[1], g.first[2]>>
           K == [g \in viable |-> Key(g)]
<1>1. ASSUME NEW g \in viable
      PROVE  DOMAIN Key(g) = 1..7 /\ \A k \in 1..7 : Key(g)[k] \in Int
  <2>1. /\ g.triggers \in Int /\ g.regular \in Int /\ g.rank \in Int /\ g.conf \in Int
        /\ g.first[1] \in Int /\ g.first[2] \in Int /\ UnitWeight[g.id] \in Nat \ {0}
    BY DEF Weighed
  <2>2. Unexplained(g, target) \in Int
    <3>1. Repeats(g, target) \in Int
      BY <2>1, RoundedType DEF Repeats
    <3>2. target - Repeats(g, target) * UnitWeight[g.id] \in Int
      BY <2>1, <3>1
    <3> QED BY <3>2 DEF Unexplained, Abs
  <2>3. DOMAIN Key(g) = 1..7
    OBVIOUS
  <2>4. /\ -g.triggers \in Int /\ -g.regular \in Int /\ -g.conf \in Int
    BY <2>1
  <2>5. Key(g) \in Seq(Int) /\ Len(Key(g)) = 7
    BY <2>1, <2>2, <2>4
  <2> HIDE DEF Key
  <2>6. \A k \in 1..7 : Key(g)[k] \in Int
    BY <2>5, ElementOfSeq
  <2> QED BY <2>3, <2>6
<1> HIDE DEF Key
<1>2. Keyed(K, viable, 7)
  BY <1>1 DEF Keyed
<1>3. \A g \in viable : K[g] = Key(g)
  OBVIOUS
<1> HIDE DEF K
<1>4. \E m \in viable : \A o \in viable : ~LexLess(K[o], K[m])
  BY <1>2, LexLeast
<1>5. \E m \in viable : \A o \in viable : ~LexLess(Key(o), Key(m))
  BY <1>3, <1>4
<1>6. MostRepeated(viable, target) =
        CHOOSE m \in viable : \A o \in viable : ~LexLess(Key(o), Key(m))
  BY DEF MostRepeated, LeastBy, Key
<1> QED BY <1>5, <1>6

\* What replaces a basket is a basket.
LEMMA ReplacementType ==
  ASSUME NEW R, \A t \in R : Removed(t), NEW S, Takes(S, R), NEW z \in DOMAIN S
  PROVE  Replacement(S, z) \in Seq(Entry)
<1> DEFINE groups == CandidateGroups(S[z])
           strong == Strong(groups)
           viable == Viable(S, z, groups, strong)
           target == Abs(NetDelta(S, z))
           best == MostRepeated(viable, target)
           entry == [id |-> best.id, count |-> Repeats(best, target), units |-> <<>>]
<1>1. IsFiniteSet(groups) /\ \A g \in groups : Weighed(g)
  BY GroupsWeighed DEF Takes, OnlyTakes
<1>2. target \in Int
  BY NetIsLost DEF Abs
<1>3. viable \in SUBSET groups
  BY DEF Viable
<1>4. IsFiniteSet(viable) /\ \A g \in viable : Weighed(g)
  <2> HIDE DEF groups, viable
  <2> QED BY <1>1, <1>3, FS_Subset
<1> HIDE DEF groups, strong, viable, target
<1>5. viable # {} => <<entry>> \in Seq(Entry)
  <2> SUFFICES ASSUME viable # {} PROVE <<entry>> \in Seq(Entry)
    OBVIOUS
  <2>1. best \in viable
    BY <1>2, <1>4, BestIsOne
  <2>2. best.id \in Products /\ UnitWeight[best.id] \in Nat \ {0}
    BY <1>4, <2>1 DEF Weighed
  <2> HIDE DEF best
  <2>3. Repeats(best, target) \in Int
    BY <1>2, <2>2, RoundedType DEF Repeats
  <2>4. <<>> \in Seq(Unit)
    BY EmptySeq
  <2>5. entry \in Entry
    BY <2>2, <2>3, <2>4 DEF Entry
  <2> HIDE DEF entry
  <2> QED BY <2>5
<1>6. Replacement(S, z) \in IF viable = {} THEN {<<>>} ELSE {<<>>, <<entry>>}
  <2>1. Replacement(S, z) = ReplacementAmong(S, z, groups, strong)
    BY DEF Replacement, groups, strong
  <2>2. ReplacedBy(S, z, best, strong) \in {<<>>, <<entry>>}
    BY DEF ReplacedBy, target
  <2>3. ReplacementAmong(S, z, groups, strong) \in {<<>>, ReplacedBy(S, z, best, strong)}
    BY DEF ReplacementAmong, viable, target
  <2>4. viable = {} => ReplacementAmong(S, z, groups, strong) = <<>>
    BY DEF ReplacementAmong, viable
  <2> HIDE DEF entry, best
  <2> QED BY <2>1, <2>2, <2>3, <2>4
<1>7. <<>> \in Seq(Entry)
  BY EmptySeq
<1> HIDE DEF entry
<1> QED BY <1>5, <1>6, <1>7

-----------------------------------------------------------------------------
(* The visit                                                                 *)

\* Rebuilding the whole store.
LEMMA RebuiltAll ==
  ASSUME ~Freezer, NEW R, \A t \in R : Removed(t), NEW v \in BOOLEAN,
         NEW S, Store(S), \A z \in DOMAIN S : Begun(S[z], R)
  PROVE  Takes(AllRebuilt(S, v), R)
<1> DEFINE T == [z \in DOMAIN S |-> Rebuilt(S[z], v)]
<1>1. AllRebuilt(S, v) = Exchanged(S, T)
  BY DEF AllRebuilt, OnEach
<1>2. T = [z \in DOMAIN S |-> T[z]] /\ DOMAIN T = DOMAIN S
  OBVIOUS
<1>3. \A z \in DOMAIN S : OnlyTakes(T[z], R)
  BY RebuiltTakes
<1> HIDE DEF T
<1>4. Exchanged(S, T) = T
  BY <1>2, ExchangedAll
<1>5. Takes(T, R)
  BY <1>2, <1>3 DEF Takes, Store
<1> QED BY <1>1, <1>4, <1>5

\* The check of the net movement finds every net a removal.
LEMMA NothingToValidate ==
  ASSUME NEW R, \A t \in R : Removed(t), NEW S, Takes(S, R)
  PROVE  ValidateNetDelta(S) = S
<1> DEFINE T == [z \in DOMAIN S |->
                   [S[z] EXCEPT !.basket = ValidatedBasket(S[z], NetDelta(S, z))]]
<1>1. ValidateNetDelta(S) = Exchanged(S, T)
  BY DEF ValidateNetDelta, OnEach
<1>2. ASSUME NEW z \in DOMAIN S PROVE T[z] = S[z]
  <2> DEFINE s == S[z]
             net == NetDelta(S, z)
  <2>1. s = [f \in Fields |-> s[f]] /\ s.triggers \in Seq(R)
    BY DEF Takes, OnlyTakes, Begun
  <2>2. ~HasReturn(s)
    <3>1. \A k \in DOMAIN s.triggers : s.triggers[k] \in R
      BY <2>1, LenProperties, ElementOfSeq
    <3>2. \A k \in DOMAIN s.triggers : ~IsReturn(s.triggers[k]) /\ s.triggers[k].hints = <<>>
      BY <3>1 DEF Removed, IsReturn
    <3> QED BY <3>2 DEF HasReturn
  <2> HIDE DEF s, net
  <2>3. ValidatedBasket(s, net) = s.basket
    BY <2>2 DEF ValidatedBasket
  <2>4. [s EXCEPT !.basket = s.basket] = s
    BY <2>1 DEF Fields
  <2> QED BY <2>3, <2>4 DEF s, net
<1>3. T = S
  BY <1>2 DEF Takes, Store
<1> HIDE DEF T
<1>4. Exchanged(S, T) = T
  BY <1>3, ExchangedAll DEF Takes, Store
<1> QED BY <1>1, <1>3, <1>4

\* What every later trigger of a visit recomputes.
LEMMA ReaggregatedTakes ==
  ASSUME ~Freezer, NEW R, \A t \in R : Removed(t), NEW v \in BOOLEAN,
         NEW S, Store(S), \A z \in DOMAIN S : Begun(S[z], R)
  PROVE  Takes(Reaggregate(S, v), R)
<1> DEFINE T == AllRebuilt(S, v)
<1>1. Takes(T, R)
  BY RebuiltAll
<1>2. Reaggregate(S, v) = ValidatedOutsideVisit(HandleCrossZoneReturns(T), v)
  BY DEF Reaggregate
<1> HIDE DEF T
<1>3. HandleCrossZoneReturns(T) = T /\ ValidateNetDelta(T) = T
  BY <1>1, NoCrossReturns, NothingToValidate
<1> QED BY <1>1, <1>2, <1>3 DEF ValidatedOutsideVisit

\* What BillFollowsTheScales says of one session.
FollowsTheScales(s) ==
  \/ ActiveEntries(s.basket) = <<>>
  \/ Abs(WeightOf(s.basket) - Lost(s))
       <= FullDeltaTolerance(SumOver(ActiveEntries(s.basket), LAMBDA e : e.count))

\* A basket has a weight and a number of units.
LEMMA WeightType ==
  ASSUME NEW b \in Seq(Entry)
  PROVE  WeightOf(b) \in Int /\ SumOver(ActiveEntries(b), LAMBDA e : e.count) \in Int
<1>1. /\ DOMAIN b = 1..Len(b) /\ Len(b) \in Nat /\ \A k \in 1..Len(b) : b[k] \in Entry
  BY LenProperties, ElementOfSeq
<1>2. WeightOf(b) \in Int
  <2> DEFINE w == [k \in DOMAIN b |->
                     IF Charged(b[k]) THEN b[k].count * UnitWeight[b[k].id] ELSE 0]
  <2>1. \A k \in 1..Len(b) : b[k].count \in Int /\ UnitWeight[b[k].id] \in Nat
    BY <1>1, AggregationAssumption DEF Entry
  <2>2. w \in [1..Len(b) -> Int]
    BY <1>1, <2>1
  <2>3. WeightOf(b) = SumOf(w)
    BY DEF WeightOf, SumOver
  <2> HIDE DEF w
  <2>4. w \in Seq(Int)
    BY <1>1, <2>2
  <2> QED BY <2>3, <2>4, SumType
<1>3. SumOver(ActiveEntries(b), LAMBDA e : e.count) \in Int
  <2> DEFINE a == ActiveEntries(b)
             w == [k \in DOMAIN a |-> a[k].count]
  <2>1. a \in Seq(Entry)
    BY OnlyType DEF ActiveEntries
  <2> HIDE DEF a
  <2>2. DOMAIN a = 1..Len(a) /\ Len(a) \in Nat /\ \A k \in 1..Len(a) : a[k] \in Entry
    BY <2>1, LenProperties, ElementOfSeq
  <2>3. w \in [1..Len(a) -> Int]
    BY <2>2 DEF Entry
  <2>4. SumOver(a, LAMBDA e : e.count) = SumOf(w)
    BY DEF SumOver
  <2> HIDE DEF w
  <2>5. w \in Seq(Int)
    BY <2>2, <2>3
  <2>6. SumOf(w) \in Int
    BY <2>5, SumType
  <2> QED BY <2>4, <2>6 DEF a
<1> QED BY <1>2, <1>3

\* The final weight check leaves only baskets that weigh what the zone lost.
LEMMA FinallyWeighed ==
  ASSUME ~Freezer, NEW R, \A t \in R : Removed(t), NEW S, Takes(S, R)
  PROVE  /\ Takes(FinalWeightCheck(S), R)
         /\ \A z \in DOMAIN FinalWeightCheck(S) : FollowsTheScales(FinalWeightCheck(S)[z])
<1> DEFINE D == DOMAIN S
           T == [z \in D |-> WithReplacement(S[z], Replacement(S, z))]
           U == [z \in D |-> IF ~Freezer /\ Mismatch(T, z) THEN [T[z] EXCEPT !.basket = <<>>]
                             ELSE T[z]]
<1>1. ReplacedBaskets(S) = Exchanged(S, T)
  BY DEF ReplacedBaskets, OnEach
<1>2. ASSUME NEW z \in D PROVE OnlyTakes(T[z], R)
  <2> DEFINE s == S[z]
             entries == Replacement(S, z)
  <2>1. entries \in Seq(Entry)
    BY ReplacementType
  <2>2. OnlyTakes(s, R)
    BY DEF Takes
  <2>3. T[z] = WithReplacement(s, entries)
    OBVIOUS
  <2> HIDE DEF entries, s, T
  <2> DEFINE r == [s EXCEPT !.basket = entries]
  <2>4. r = [f \in Fields |-> r[f]] /\ r.triggers = s.triggers /\ r.basket = entries
        /\ r.unmatched = s.unmatched /\ r.deferred = s.deferred /\ r.cross = s.cross
    BY <2>2 DEF OnlyTakes, Begun, Fields
  <2>5. T[z] = s \/ T[z] = r
    BY <2>3 DEF WithReplacement
  <2> HIDE DEF r
  <2>6. OnlyTakes(r, R)
    BY <2>1, <2>2, <2>4 DEF OnlyTakes, Begun
  <2> QED BY <2>2, <2>5, <2>6
<1>3. T = [z \in D |-> T[z]] /\ DOMAIN T = D
  OBVIOUS
<1>4. Takes(T, R)
  <2> HIDE DEF T
  <2> QED BY <1>2, <1>3 DEF Takes, Store
<1>5. ReplacedBaskets(S) = T
  <2> HIDE DEF T
  <2> QED BY <1>1, <1>3, ExchangedAll DEF Takes
<1>6. FinalWeightCheck(S) = Exchanged(T, U)
  <2>1. DOMAIN T = D
    OBVIOUS
  <2> HIDE DEF T
  <2> QED BY <1>5, <2>1 DEF FinalWeightCheck, EmptiedWhereMismatched, OnEach
<1>7. U = [z \in D |-> U[z]] /\ DOMAIN U = D
  OBVIOUS
<1> HIDE DEF T
<1>8. FinalWeightCheck(S) = U
  <2> HIDE DEF U
  <2> QED BY <1>3, <1>4, <1>6, <1>7, ExchangedAll DEF Takes
<1>9. ASSUME NEW z \in D PROVE OnlyTakes(U[z], R) /\ FollowsTheScales(U[z])
  <2> DEFINE s == T[z]
             r == [s EXCEPT !.basket = <<>>]
  <2>1. OnlyTakes(s, R)
    BY <1>2
  <2>2. CASE Mismatch(T, z)
    <3>1. U[z] = r
      BY <2>2
    <3> HIDE DEF s
    <3>2. r = [f \in Fields |-> r[f]] /\ r.triggers = s.triggers /\ r.basket = <<>>
          /\ r.unmatched = s.unmatched /\ r.deferred = s.deferred /\ r.cross = s.cross
      BY <2>1 DEF OnlyTakes, Begun, Fields
    <3> HIDE DEF r, U
    <3>3. OnlyTakes(r, R)
      BY <2>1, <3>2, EmptySeq DEF OnlyTakes, Begun
    <3>4. ActiveEntries(r.basket) = <<>>
      BY <3>2, OnlyOfNothing DEF ActiveEntries
    <3> QED BY <3>1, <3>3, <3>4 DEF FollowsTheScales
  <2>3. CASE ~Mismatch(T, z)
    <3>1. U[z] = s
      BY <2>3
    <3> HIDE DEF U
    <3> DEFINE active == ActiveEntries(s.basket)
               w == WeightOf(s.basket)
               units == SumOver(active, LAMBDA e : e.count)
               gone == Lost(s)
               net == NetDelta(T, z)
    <3>2. gone \in Int /\ gone > 0 /\ net = -gone /\ ~Blocked(T, z)
      BY <1>3, <1>4, NetIsLost
    <3>3. w \in Int /\ units \in Int
      BY <2>1, WeightType DEF OnlyTakes
    <3>4. net < 0 /\ Residual(T, z) = Abs(Abs(net) - w)
      BY <3>2 DEF Residual
    <3>5. active = <<>> \/ ~ (Residual(T, z) > FullDeltaTolerance(units))
      BY <2>3, <3>2, <3>4 DEF Mismatch
    <3>6. FullDeltaTolerance(units) \in Int
      BY <3>3, AggregationAssumption, CloseAssumption DEF FullDeltaTolerance, AtLeast
    <3> HIDE DEF w, units, gone, net, active
    <3>7. Abs(net) = gone
      BY <3>2 DEF Abs
    <3>8. Residual(T, z) = Abs(gone - w)
      BY <3>4, <3>7
    <3>9. Abs(gone - w) = Abs(w - gone) /\ Abs(w - gone) \in Int
      BY <3>2, <3>3 DEF Abs
    <3>10. active = <<>> \/ Abs(w - gone) <= FullDeltaTolerance(units)
      BY <3>5, <3>6, <3>8, <3>9
    <3>11. FollowsTheScales(s)
      BY <3>10 DEF FollowsTheScales, w, units, gone, active
    <3> QED BY <2>1, <3>1, <3>11
  <2> QED BY <2>2, <2>3
<1> HIDE DEF U
<1>10. Takes(U, R)
  BY <1>7, <1>9 DEF Takes, Store
<1> QED BY <1>7, <1>8, <1>9, <1>10

\* All that CLOSE does to a store of removals.
LEMMA SettledTakes ==
  ASSUME ~Freezer, NEW R, \A t \in R : Removed(t),
         NEW S, Store(S), \A z \in DOMAIN S : Begun(S[z], R)
  PROVE  Takes(Settled(S), R) /\ \A z \in DOMAIN Settled(S) : FollowsTheScales(Settled(S)[z])
<1> DEFINE T == AllRebuilt(S, TRUE)
           U == FinalWeightCheck(T)
<1>1. Takes(T, R)
  BY RebuiltAll
<1>2. Settled(S) = FreezerAggregate(FinalWeightCheck(ValidateNetDelta(
                     SettleDeferredReturns(HandleCrossZoneReturns(T)))))
  BY DEF Settled
<1> HIDE DEF T
<1>3. HandleCrossZoneReturns(T) = T /\ SettleDeferredReturns(T) = T /\ ValidateNetDelta(T) = T
  BY <1>1, NoCrossReturns, NothingDeferred, NothingToValidate
<1>4. Settled(S) = FreezerAggregate(U)
  BY <1>2, <1>3
<1>5. Takes(U, R) /\ \A z \in DOMAIN U : FollowsTheScales(U[z])
  BY <1>1, FinallyWeighed
<1> HIDE DEF U
<1>6. FreezerAggregate(U) = U
  BY DEF FreezerAggregate
<1> QED BY <1>4, <1>5, <1>6

-----------------------------------------------------------------------------
(* The inductive invariant                                                   *)

\* The triggers so far.
Happened == {events[k] : k \in DOMAIN events}

\* A trigger the store can meet.
Told(t) ==
  /\ t.zone \in Zones /\ t.time \in Nat /\ t.delta \in Int
  /\ t.products \in Seq(Decided) /\ t.candidates \in Seq(Candidate)

VisitOfTakes ==
  /\ \A t \in Happened : Removed(t)
  /\ Takes(sessions, Happened)
  /\ closed => \A z \in DOMAIN sessions : FollowsTheScales(sessions[z])

BasketInv ==
  /\ visit \in BOOLEAN /\ cabinet \in DOMAIN Movements
  /\ events \in Seq(Happened) /\ \A t \in Happened : Told(t)
  /\ ~Freezer /\ OnlyRemovals => VisitOfTakes

\* More triggers in the history change nothing for those a store holds.
LEMMA TakesMore ==
  ASSUME NEW R, NEW Q, R \subseteq Q, NEW S, Takes(S, R)
  PROVE  Takes(S, Q)
<1>1. Seq(R) \subseteq Seq(Q)
  <2> SUFFICES ASSUME NEW s \in Seq(R) PROVE s \in Seq(Q)
    OBVIOUS
  <2>1. Len(s) \in Nat /\ s \in [1..Len(s) -> R]
    BY LenProperties
  <2>2. s \in [1..Len(s) -> Q]
    BY <2>1
  <2> QED BY <2>1, <2>2
<1> QED BY <1>1 DEF Takes, OnlyTakes, Begun

\* Nothing happened yet.
LEMMA BasketInit == Init => BasketInv
<1> SUFFICES ASSUME Init PROVE BasketInv
  OBVIOUS
<1> USE DEF Init
<1>1. Happened = {} /\ events \in Seq(Happened)
  BY EmptySeq DEF Happened
<1>2. Takes(sessions, Happened)
  <2>1. DOMAIN sessions = {}
    OBVIOUS
  <2>2. sessions = [z \in DOMAIN sessions |-> sessions[z]]
    <3> DEFINE f == [z \in {} |-> sessions[z]]
    <3>1. f = [z \in {} |-> f[z]]
      OBVIOUS
    <3> HIDE DEF f
    <3>2. f = <<>>
      BY <3>1, EmptyFunction
    <3> QED BY <2>1, <3>2 DEF f
  <2>3. IsFiniteSet(DOMAIN sessions)
    BY <2>1, FS_EmptySet
  <2> QED BY <2>1, <2>2, <2>3 DEF Takes, Store
<1> QED BY <1>1, <1>2 DEF BasketInv, VisitOfTakes

\* A movement that is not yet told changes no session.
LEMMA MovePreserves ==
  ASSUME BasketInv, NEW z \in Zones, NEW f \in Zones, NEW m \in Movements[cabinet],
         Move(z, f, m)
  PROVE  BasketInv'
<1> DEFINE t == Trigger(m, z, f, Len(events) + 1)
           n == Len(events)
<1>1. /\ n \in Nat /\ DOMAIN events = 1..n /\ events' = Append(events, t)
      /\ \A k \in 1..n : events[k] \in Happened
      /\ UNCHANGED <<cabinet, visit, sessions, closed>>
  BY LenProperties, ElementOfSeq DEF Move, BasketInv
<1>2. Told(t)
  <2>1. m.delta \in Int /\ m.products \in Seq(Decided) /\ m.candidates \in Seq(Candidate)
    BY ZonesAssumption DEF BasketInv
  <2> QED BY <1>1, <2>1 DEF Told, Trigger
<1> HIDE DEF t
<1>3. /\ DOMAIN events' = 1..(n + 1) /\ events'[n + 1] = t
      /\ \A k \in 1..n : events'[k] = events[k]
  BY <1>1 DEF BasketInv
<1>4. Happened' = Happened \cup {t}
  <2>1. Happened' = {events'[k] : k \in 1..(n + 1)}
    BY <1>3 DEF Happened
  <2>2. Happened = {events[k] : k \in 1..n}
    BY <1>1 DEF Happened
  <2>3. 1..(n + 1) = (1..n) \cup {n + 1}
    BY <1>1
  <2> QED BY <1>3, <2>1, <2>2, <2>3
<1>5. events' \in Seq(Happened')
  <2>1. events \in Seq(Happened \cup {t})
    <3>1. events \in [1..n -> Happened \cup {t}]
      BY <1>1 DEF BasketInv
    <3> QED BY <1>1, <3>1
  <2> QED BY <1>1, <1>4, <2>1
<1>6. \A x \in Happened' : Told(x)
  BY <1>2, <1>4 DEF BasketInv
<1>7. ASSUME ~Freezer', OnlyRemovals' PROVE VisitOfTakes'
  <2>1. \A k \in 1..(n + 1) : events'[k].delta < 0 /\ events'[k].hints = <<>>
    BY <1>3, <1>7 DEF OnlyRemovals, IsRemoval
  <2>2. OnlyRemovals /\ ~Freezer
    BY <1>1, <1>3, <1>7, <2>1 DEF OnlyRemovals, IsRemoval, Freezer
  <2>3. VisitOfTakes
    BY <2>2 DEF BasketInv
  <2>4. Removed(t)
    BY <1>1, <1>2, <1>3, <2>1 DEF Told, Removed
  <2>5. \A x \in Happened' : Removed(x)
    BY <1>4, <2>3, <2>4 DEF VisitOfTakes
  <2>6. Takes(sessions', Happened')
    BY <1>1, <1>4, <2>3, TakesMore DEF VisitOfTakes
  <2>7. ~closed'
    BY <1>1 DEF Move
  <2> QED BY <2>5, <2>6, <2>7 DEF VisitOfTakes
<1> QED BY <1>1, <1>5, <1>6, <1>7 DEF BasketInv

\* A trigger starts or extends a session, and all are rebuilt.
LEMMA AddTriggerPreserves ==
  ASSUME BasketInv, NEW t \in Happened, AddTrigger(t)
  PROVE  BasketInv'
<1> DEFINE O == Opened(t.zone)
           S == [O EXCEPT ![t.zone].triggers = Append(@, t)]
<1>1. /\ sessions' = Reaggregate(S, visit) /\ ~closed'
      /\ UNCHANGED <<cabinet, visit, events, closed>>
  BY DEF AddTrigger
<1>2. Happened' = Happened
  BY <1>1 DEF Happened
<1>3. ASSUME ~Freezer, OnlyRemovals PROVE Takes(sessions', Happened)
  <2> DEFINE D == DOMAIN sessions \cup {t.zone}
  <2>1. VisitOfTakes
    BY <1>3 DEF BasketInv
  <2>2. /\ Store(sessions) /\ \A z \in DOMAIN sessions : Begun(sessions[z], Happened)
        /\ \A x \in Happened : Removed(x)
    BY <2>1 DEF VisitOfTakes, Takes, OnlyTakes
  <2>3. t.zone \in Zones
    BY <2>2 DEF Removed
  <2>4. O = [o \in D |-> O[o]] /\ DOMAIN O = D
    BY DEF Opened
  <2>5. ASSUME NEW o \in D
        PROVE  O[o] = [f \in Fields |-> O[o][f]] /\ O[o].triggers \in Seq(Happened)
    <3>1. CASE o \in DOMAIN sessions
      <4>1. O[o] = sessions[o]
        BY <3>1 DEF Opened
      <4> QED BY <2>2, <3>1, <4>1 DEF Begun
    <3>2. CASE o \notin DOMAIN sessions
      <4>1. O[o] = NewSession(Cardinality(ResultIds) + 1)
        BY <3>2 DEF Opened
      <4> HIDE DEF O
      <4> QED BY <4>1, EmptySeq DEF NewSession, Fields
    <3> QED BY <3>1, <3>2
  <2> HIDE DEF O
  <2>6. ASSUME NEW o \in D, o # t.zone PROVE S[o] = sessions[o] /\ o \in DOMAIN sessions
    <3>1. S[o] = O[o] /\ o \in DOMAIN sessions
      BY <2>4, <2>6
    <3> QED BY <3>1 DEF O, Opened
  <2>7. S[t.zone] = [O[t.zone] EXCEPT !.triggers = Append(@, t)]
    BY <2>4
  <2>8. Begun(S[t.zone], Happened)
    <3> DEFINE s == O[t.zone]
               r == [s EXCEPT !.triggers = Append(s.triggers, t)]
    <3>1. s = [f \in Fields |-> s[f]] /\ s.triggers \in Seq(Happened)
      BY <2>5
    <3> HIDE DEF s
    <3>2. r = [f \in Fields |-> r[f]] /\ r.triggers = Append(s.triggers, t)
      BY <3>1 DEF Fields
    <3>3. Append(s.triggers, t) \in Seq(Happened) /\ Append(s.triggers, t) # <<>>
      <4> DEFINE q == s.triggers
      <4>1. q \in Seq(Happened) /\ t \in Happened
        BY <3>1
      <4> HIDE DEF q
      <4>2. Append(q, t) \in Seq(Happened) /\ Append(q, t) # <<>>
        BY <4>1, AppendProperties
      <4> QED BY <4>2 DEF q
    <3> HIDE DEF r
    <3>4. Begun(r, Happened)
      BY <3>2, <3>3 DEF Begun
    <3> QED BY <2>7, <3>4 DEF r, s
  <2>9. \A o \in D : Begun(S[o], Happened)
    BY <2>2, <2>6, <2>8
  <2>10. DOMAIN S = D /\ S = [o \in D |-> S[o]]
    BY <2>4
  <2>11. Store(S)
    <3>1. IsFiniteSet(D) /\ D \subseteq Zones
      BY <2>2, <2>3, FS_AddElement DEF Store
    <3> HIDE DEF S, D
    <3> QED BY <2>10, <3>1 DEF Store
  <2> HIDE DEF S
  <2>12. Takes(Reaggregate(S, visit), Happened)
    BY <1>3, <2>2, <2>9, <2>10, <2>11, ReaggregatedTakes DEF BasketInv
  <2> QED BY <1>1, <2>12
<1>4. ASSUME ~Freezer', OnlyRemovals' PROVE VisitOfTakes'
  <2>1. ~Freezer /\ OnlyRemovals
    BY <1>1, <1>4 DEF Freezer, OnlyRemovals
  <2>2. VisitOfTakes
    BY <2>1 DEF BasketInv
  <2>3. \A x \in Happened' : Removed(x)
    BY <1>2, <2>2 DEF VisitOfTakes
  <2>4. Takes(sessions', Happened')
    BY <1>2, <1>3, <2>1
  <2> HIDE DEF S
  <2> QED BY <1>1, <2>3, <2>4 DEF VisitOfTakes
<1> QED BY <1>1, <1>2, <1>4 DEF BasketInv

\* CLOSE settles what the visit collected.
LEMMA ClosePreserves ==
  ASSUME BasketInv, Close
  PROVE  BasketInv'
<1>1. sessions' = Settled(sessions) /\ UNCHANGED <<cabinet, visit, events>>
  BY DEF Close
<1>2. Happened' = Happened
  BY <1>1 DEF Happened
<1>3. ASSUME ~Freezer', OnlyRemovals' PROVE VisitOfTakes'
  <2>1. ~Freezer /\ OnlyRemovals
    BY <1>1, <1>3 DEF Freezer, OnlyRemovals
  <2>2. VisitOfTakes
    BY <2>1 DEF BasketInv
  <2>3. /\ Store(sessions) /\ \A z \in DOMAIN sessions : Begun(sessions[z], Happened)
        /\ \A x \in Happened : Removed(x)
    BY <2>2 DEF VisitOfTakes, Takes, OnlyTakes
  <2>4. /\ Takes(Settled(sessions), Happened)
        /\ \A z \in DOMAIN Settled(sessions) : FollowsTheScales(Settled(sessions)[z])
    BY <2>1, <2>3, SettledTakes
  <2>5. Takes(sessions', Happened') /\ \A z \in DOMAIN sessions' : FollowsTheScales(sessions'[z])
    BY <1>1, <1>2, <2>4
  <2>6. \A x \in Happened' : Removed(x)
    BY <1>2, <2>3
  <2> QED BY <2>5, <2>6 DEF VisitOfTakes
<1> QED BY <1>1, <1>2, <1>3 DEF BasketInv

\* After a visit in which nothing was put back each zone of an ambient
\* cabinet pays for what weighs as much as its loadcells lost, within the
\* tolerance of CLOSE, or for nothing of a known weight: whatever the camera
\* took the products for, and in whatever order the results arrived.
THEOREM BillIsWeighed == Spec => []BillFollowsTheScales
<1>1. Init => BasketInv
  BY BasketInit
<1>2. BasketInv /\ [Next]_vars => BasketInv'
  <2> SUFFICES ASSUME BasketInv, [Next]_vars PROVE BasketInv'
    OBVIOUS
  <2>1. ASSUME NEW z \in Zones, NEW f \in Zones, NEW m \in Movements[cabinet], Move(z, f, m)
        PROVE  BasketInv'
    BY <2>1, MovePreserves
  <2>2. ASSUME NEW k \in DOMAIN events, AddTrigger(events[k])
        PROVE  BasketInv'
    <3>1. events[k] \in Happened
      BY DEF Happened
    <3> QED BY <2>2, <3>1, AddTriggerPreserves
  <2>3. CASE Close
    BY <2>3, ClosePreserves
  <2>4. CASE UNCHANGED vars
    <3> USE DEF vars
    <3>1. Happened' = Happened
      BY <2>4 DEF Happened
    <3>2. (~Freezer /\ OnlyRemovals => VisitOfTakes)' = (~Freezer /\ OnlyRemovals => VisitOfTakes)
      BY <2>4, <3>1 DEF Freezer, OnlyRemovals, VisitOfTakes
    <3> QED BY <2>4, <3>1, <3>2 DEF BasketInv
  <2> QED BY <2>1, <2>2, <2>3, <2>4 DEF Next
<1>3. BasketInv => BillFollowsTheScales
  <2> SUFFICES ASSUME BasketInv, closed, ~Freezer, OnlyRemovals,
                      NEW z \in DOMAIN sessions
               PROVE  FollowsTheScales(sessions[z])
    BY DEF BillFollowsTheScales, FollowsTheScales
  <2> QED BY DEF BasketInv, VisitOfTakes
<1> QED BY <1>1, <1>2, <1>3, PTL DEF Spec
=============================================================================
