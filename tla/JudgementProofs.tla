---------------------------- MODULE JudgementProofs ----------------------------
(***************************************************************************)
(* Whatever branch of the decision engine bills a removal, the bill names  *)
(* only classes that a candidate or a stage named, of each no more than is *)
(* in stock, and each once; and it weighs what is gone or is one unit of a *)
(* class that was clearly recognised.  The search for combinations misses  *)
(* none and meets none twice, and what believable candidates explain is    *)
(* billed.                                                                 *)
(***************************************************************************)
EXTENDS Judgement, FoldProofs

\* What any removal may be judged as, and then nothing more happens.
Judging ==
  /\ verdict = None
  /\ [][\E r : IsRemoval(r) /\ JudgeRemoval(r)]_vars

\* The same with a video that names only what is in stock.
JudgingInStock ==
  /\ verdict = None
  /\ [][\E r : IsRemoval(r) /\ NamedInStock(r) /\ JudgeRemoval(r)]_vars

\* And with removals that few combinations explain.
JudgingFew ==
  /\ verdict = None
  /\ [][\E r : IsRemoval(r) /\ NamedInStock(r) /\ FewExplain(r) /\ JudgeRemoval(r)]_vars

Named(r) == Ids(r.cands) \cup Ids(r.stage)

\* The items a bill of r may have, and the parts of a combination.
Affordable(r, id, n) == r.products[id].stock > 0 => n <= r.products[id].stock

Billable(r) ==
  {e \in [id : Named(r) \cap DOMAIN r.products, n : Nat \ {0}, unit : Nat] :
     Affordable(r, e.id, e.n)}

Parts(r) ==
  {p \in [cand : Candidate, n : Nat \ {0}, unit : Nat] :
     /\ p.cand.id \in Named(r) \cap DOMAIN r.products
     /\ Affordable(r, p.cand.id, p.n)}

\* A success explains what its items weigh.
Sound(r, res) ==
  /\ res.items \in Seq(Billable(r)) /\ OneEach(res.items)
  /\ IsSuccess(res) => res.explained = ItemWeight(res.items)

Combos(r) ==
  {c \in Seq(Parts(r)) : \A i, j \in DOMAIN c : c[i].cand.id = c[j].cand.id => i = j}

\* Those that weigh right.
Exact(r, target) == {c \in Combos(r) : ErrorOf(c, target) <= ToleranceGrams}

\* Candidates the branches work with.
Known(r) == {c \in Candidate : c.id \in Named(r)}

-----------------------------------------------------------------------------
(* Results *)

\* What the assumptions say, one by one.
LEMMA ConstantTypes ==
  /\ ToleranceGrams \in Nat \ {0} /\ SameProductMax \in Nat \ {0}
  /\ MaxItemsPerSegment \in Nat \ {0}
  /\ MaxCombinationKinds \in Nat /\ MaxCombinationSize \in Nat
  /\ MaxCountPerItem \in Nat /\ MaxCombinations \in Nat
  /\ MultiKindMinConf \in Nat /\ MinWeightChange \in Nat /\ TopK \in Nat
  /\ SameProductTolerance \in Nat /\ MaxCombinationItems \in Nat
BY MatchingAssumption, DecisionAssumption

\* What is known of a removal.
LEMMA RemovalTypes ==
  ASSUME NEW r, IsRemoval(r)
  PROVE  /\ r.target \in Nat /\ r.segments \in Nat
         /\ r.cands \in Seq(Candidate) /\ r.cands \in Seq(Known(r))
         /\ DOMAIN r.cands = 1..Len(r.cands) /\ Len(r.cands) \in Nat
         /\ \A i \in DOMAIN r.cands : r.cands[i] \in Known(r)
         /\ DOMAIN r.stage = 1..Len(r.stage) /\ Len(r.stage) \in Nat
         /\ \A i \in DOMAIN r.stage : r.stage[i] \in StageEntry /\ r.stage[i].id \in Named(r)
         /\ \A id \in DOMAIN r.products : /\ id \in Nat
                                          /\ r.products[id].weight \in Nat
                                          /\ r.products[id].stock \in Int
<1>1. /\ r.cands \in Seq(Candidate) /\ r.stage \in Seq(StageEntry)
      /\ r.target \in Nat /\ r.segments \in Nat
      /\ DOMAIN r.products \subseteq Nat
      /\ \A id \in DOMAIN r.products : r.products[id] \in Product
  BY DEF IsRemoval
<1>2. /\ DOMAIN r.cands = 1..Len(r.cands) /\ Len(r.cands) \in Nat
      /\ DOMAIN r.stage = 1..Len(r.stage) /\ Len(r.stage) \in Nat
      /\ \A i \in DOMAIN r.cands : r.cands[i] \in Candidate
      /\ \A i \in DOMAIN r.stage : r.stage[i] \in StageEntry
  BY <1>1, LenProperties, ElementOfSeq
<1>3. /\ \A i \in DOMAIN r.cands : r.cands[i] \in Known(r)
      /\ \A i \in DOMAIN r.stage : r.stage[i].id \in Named(r)
  BY <1>2 DEF Known, Named, Ids
<1>4. r.cands \in Seq(Known(r))
  <2>1. r.cands \in [1..Len(r.cands) -> Known(r)]
    BY <1>1, <1>2, <1>3, LenProperties
  <2> QED BY <1>2, <2>1
<1>5. \A id \in DOMAIN r.products : r.products[id].weight \in Nat /\ r.products[id].stock \in Int
  BY <1>1 DEF Product
<1> QED BY <1>1, <1>2, <1>3, <1>4, <1>5

\* A result with no items.
LEMMA NothingSound ==
  ASSUME NEW r, NEW res, res.items = <<>>, ~IsSuccess(res) \/ res.explained = 0
  PROVE  Sound(r, res)
<1>1. [i \in DOMAIN <<>> |-> <<>>[i].n * <<>>[i].unit] = <<>>
  OBVIOUS
<1>2. ItemWeight(<<>>) = 0
  BY <1>1, SumOfNothing DEF ItemWeight
<1> QED BY <1>2, EmptySeq DEF Sound, OneEach

\* One item.
LEMMA SingleSound ==
  ASSUME NEW r, NEW status, NEW id \in Named(r) \cap DOMAIN r.products,
         NEW n \in Nat \ {0}, NEW unit \in Nat, Affordable(r, id, n)
  PROVE  Sound(r, Single(status, id, n, unit))
<1> DEFINE e == Item(id, n, unit)
           one == <<e>>
<1>1. e \in Billable(r) /\ e.n = n /\ e.unit = unit
  BY DEF Item, Billable
<1>2. Single(status, id, n, unit).items = one /\ Single(status, id, n, unit).explained = unit * n
  BY DEF Single
<1> HIDE DEF e
<1>3. one \in Seq(Billable(r)) /\ DOMAIN one = {1} /\ one[1] = e
  BY <1>1
<1>4. ItemWeight(one) = unit * n
  <2> DEFINE w == n * unit
  <2>1. [i \in DOMAIN one |-> one[i].n * one[i].unit] = <<w>>
    BY <1>1, <1>3
  <2>2. w \in Int /\ w = unit * n
    OBVIOUS
  <2> HIDE DEF w, one
  <2> QED BY <2>1, <2>2, SumOfOne DEF ItemWeight
<1> HIDE DEF one
<1> QED BY <1>2, <1>3, <1>4 DEF Sound, OneEach

\* The items of a combination.
LEMMA FromComboSound ==
  ASSUME NEW r, NEW c \in Combos(r)
  PROVE  Sound(r, FromCombo(c))
<1> DEFINE items == [i \in DOMAIN c |-> Item(c[i].cand.id, c[i].n, c[i].unit)]
<1>1. DOMAIN c = 1..Len(c) /\ Len(c) \in Nat /\ \A i \in DOMAIN c : c[i] \in Parts(r)
  BY LenProperties, ElementOfSeq DEF Combos
<1>2. \A i \in DOMAIN c : items[i] \in Billable(r) /\ items[i].id = c[i].cand.id
  BY <1>1 DEF Parts, Billable, Item
<1>3. FromCombo(c).items = items /\ DOMAIN items = 1..Len(c)
  BY <1>1 DEF FromCombo
<1>4. items \in [1..Len(c) -> Billable(r)]
  BY <1>1, <1>2
<1>5. FromCombo(c).explained = ItemWeight(items)
  <2>1. \A i \in DOMAIN c : /\ items[i].n = c[i].n /\ items[i].unit = c[i].unit
                            /\ c[i].n \in Int /\ c[i].unit \in Int
    BY <1>1 DEF Item, Parts
  <2> HIDE DEF items
  <2>2. \A i \in DOMAIN c : c[i].unit * c[i].n = items[i].n * items[i].unit
    BY <2>1
  <2>3. [i \in DOMAIN c |-> c[i].unit * c[i].n] = [i \in DOMAIN items |-> items[i].n * items[i].unit]
    BY <1>1, <1>3, <2>2
  <2> QED BY <2>3 DEF FromCombo, WeightOf, ItemWeight
<1> HIDE DEF items
<1>6. items \in Seq(Billable(r))
  BY <1>1, <1>4
<1>7. OneEach(items)
  BY <1>1, <1>2, <1>3 DEF OneEach, Combos
<1> QED BY <1>3, <1>5, <1>6, <1>7 DEF Sound

\* The first of two attempts.
LEMMA OrElseSound ==
  ASSUME NEW r, NEW a, NEW b, Sound(r, a), Sound(r, b)
  PROVE  Sound(r, a ?? b)
BY DEF ??

\* The last guard bills the result or nothing (_enforce_full_delta_match).
LEMMA EnforcedSound ==
  ASSUME NEW r, NEW res, Sound(r, res), NEW branch
  PROVE  Sound(r, EnforceFullDelta(r, res, branch))
<1>1. \/ EnforceFullDelta(r, res, branch) = res
      \/ /\ EnforceFullDelta(r, res, branch).items = <<>>
         /\ ~IsSuccess(EnforceFullDelta(r, res, branch))
  BY DEF EnforceFullDelta, IsSuccess
<1> QED BY <1>1, NothingSound

LEMMA NoneSound ==
  ASSUME NEW r
  PROVE  Sound(r, None) /\ \A status : Sound(r, Nothing(status))
<1>1. ~IsSuccess(None) /\ None.items = <<>>
  BY DEF IsSuccess, None
<1>2. \A status : Nothing(status).items = <<>> /\ Nothing(status).explained = 0
  BY DEF Nothing
<1> QED BY <1>1, <1>2, NothingSound

-----------------------------------------------------------------------------
(* Numbers *)

\* Rounding a quotient gives a number.
LEMMA RoundType ==
  ASSUME NEW a \in Nat, NEW b \in Nat \ {0}
  PROVE  Round(a, b) \in Int /\ NearestCount(a, b) \in Nat \ {0}
<1>1. a \div b \in Int
  OBVIOUS
<1>2. Round(a, b) \in Int
  BY <1>1 DEF Round
<1> HIDE DEF Round
<1> QED BY <1>2 DEF NearestCount, Most

\* A sum over places.
LEMMA SumIsInt ==
  ASSUME NEW n \in Nat, NEW f \in [1..n -> Int]
  PROVE  SumOf(f) \in Int
<1>1. f \in Seq(Int)
  OBVIOUS
<1> QED BY <1>1, SumType

LEMMA ScoreType ==
  ASSUME NEW c \in Candidate
  PROVE  EvidenceScore(c) \in Int
<1>1. c.conf \in Int /\ c.raw \in Int
  BY DEF Candidate
<1> DEFINE a == IF HasMotion(c) THEN 20 ELSE 0
           b == IF c.votes >= 2 THEN 8 ELSE 0
           d == Least(8, c.raw)
           e == CASE c.source = "stage_counts" -> 12
                  [] c.source \in RescueSources -> IF c.fits THEN 6 ELSE -8
                  [] OTHER -> 0
<1>2. a \in Int /\ b \in Int /\ d \in Int /\ e \in Int
  BY <1>1 DEF Least
<1>3. EvidenceScore(c) = Most(0, c.conf + a + b + d + e)
  BY DEF EvidenceScore
<1> HIDE DEF a, b, d, e
<1> QED BY <1>1, <1>2, <1>3 DEF Most

\* The parts of a combination.
LEMMA PartTypes ==
  ASSUME NEW r, NEW c \in Combos(r)
  PROVE  /\ DOMAIN c = 1..Len(c) /\ Len(c) \in Nat /\ c \in Seq(Parts(r))
         /\ \A i \in 1..Len(c) :
              /\ c[i] \in Parts(r) /\ c[i].cand \in Candidate
              /\ c[i].n \in Int /\ c[i].unit \in Int /\ c[i].cand.conf \in Int
              /\ EvidenceScore(c[i].cand) \in Int
<1>1. DOMAIN c = 1..Len(c) /\ Len(c) \in Nat /\ c \in Seq(Parts(r))
      /\ \A i \in 1..Len(c) : c[i] \in Parts(r)
  BY LenProperties, ElementOfSeq DEF Combos
<1>2. ASSUME NEW p \in Parts(r)
      PROVE  p.cand \in Candidate /\ p.n \in Int /\ p.unit \in Int /\ p.cand.conf \in Int
  BY DEF Parts, Candidate
<1> QED BY <1>1, <1>2, ScoreType

\* What is added up over a combination.
LEMMA ComboSums ==
  ASSUME NEW r, NEW c \in Combos(r)
  PROVE  /\ WeightOf(c) \in Int /\ UnitsOf(c) \in Int /\ ConfOf(c) \in Int
         /\ EvidenceOf(c) \in Int /\ MotionUnits(c) \in Int
         /\ \A target \in Int : ErrorOf(c, target) \in Int
<1> DEFINE n == Len(c)
<1>1. n \in Nat /\ DOMAIN c = 1..n
  BY PartTypes
<1>2. /\ [i \in DOMAIN c |-> c[i].unit * c[i].n] \in [1..n -> Int]
      /\ [i \in DOMAIN c |-> c[i].n] \in [1..n -> Int]
      /\ [i \in DOMAIN c |-> c[i].cand.conf * c[i].n] \in [1..n -> Int]
      /\ [i \in DOMAIN c |-> EvidenceScore(c[i].cand) * c[i].n] \in [1..n -> Int]
      /\ [i \in DOMAIN c |-> IF HasMotion(c[i].cand) THEN c[i].n ELSE 0] \in [1..n -> Int]
  BY PartTypes
<1> HIDE DEF n
<1>3. WeightOf(c) \in Int
  BY <1>1, <1>2, SumIsInt DEF WeightOf
<1>4. UnitsOf(c) \in Int
  BY <1>1, <1>2, SumIsInt DEF UnitsOf
<1>5. ConfOf(c) \in Int
  BY <1>1, <1>2, SumIsInt DEF ConfOf
<1>6. EvidenceOf(c) \in Int
  BY <1>1, <1>2, SumIsInt DEF EvidenceOf
<1>7. MotionUnits(c) \in Int
  BY <1>1, <1>2, SumIsInt DEF MotionUnits
<1>8. \A target \in Int : ErrorOf(c, target) \in Int
  BY <1>3 DEF ErrorOf, Gap
<1> QED BY <1>3, <1>4, <1>5, <1>6, <1>7, <1>8

-----------------------------------------------------------------------------
(* Sequences of different classes *)

\* Appending an entry of a new class.
LEMMA OneMore ==
  ASSUME NEW T, NEW s \in Seq(T), NEW e \in T
  PROVE  OneEach(Append(s, e)) <=> OneEach(s) /\ e.id \notin Ids(s)
<1> DEFINE n == Len(s)
           t == Append(s, e)
<1>1. /\ n \in Nat /\ DOMAIN s = 1..n /\ DOMAIN t = 1..(n + 1)
      /\ \A i \in 1..n : t[i] = s[i]
      /\ t[n + 1] = e
  BY LenProperties, AppendProperties
<1> HIDE DEF n, t
<1>2. ASSUME OneEach(t) PROVE OneEach(s) /\ e.id \notin Ids(s)
  <2>1. \A i, j \in 1..(n + 1) : t[i].id = t[j].id => i = j
    BY <1>1, <1>2 DEF OneEach
  <2>2. \A i \in 1..n : i \in 1..(n + 1) /\ n + 1 \in 1..(n + 1) /\ i # n + 1
    BY <1>1
  <2> QED BY <1>1, <2>1, <2>2 DEF OneEach, Ids
<1>3. ASSUME OneEach(s), e.id \notin Ids(s) PROVE OneEach(t)
  <2>1. \A i \in 1..(n + 1) : i \in 1..n \/ i = n + 1
    BY <1>1
  <2>2. \A i \in 1..n : s[i].id # e.id
    BY <1>1, <1>3 DEF Ids
  <2>3. \A i, j \in 1..n : s[i].id = s[j].id => i = j
    BY <1>1, <1>3 DEF OneEach
  <2> QED BY <1>1, <2>1, <2>2, <2>3 DEF OneEach
<1> QED BY <1>2, <1>3 DEF t

\* The classes of what is kept are classes of the sequence.
LEMMA IdsOfOnly ==
  ASSUME NEW T, NEW s \in Seq(T), NEW S
  PROVE  Ids(Only(s, S)) \subseteq Ids(s)
<1>1. ToSet(Only(s, S)) \subseteq ToSet(s)
  BY OnlyRange
<1> QED BY <1>1 DEF Ids, ToSet

\* Filtering keeps the classes different.
LEMMA OnlyOneEach ==
  ASSUME NEW T, NEW s \in Seq(T), NEW S, OneEach(s)
  PROVE  OneEach(Only(s, S))
<1> DEFINE Z == {q \in Seq(T) : OneEach(q) => OneEach(Only(q, S))}
<1>1. <<>> \in Z
  BY OnlyOfNothing, EmptySeq DEF OneEach
<1>2. ASSUME NEW q \in Seq(T), NEW e \in T, q \in Z PROVE Append(q, e) \in Z
  <2> DEFINE k == Only(q, S)
  <2>1. /\ Append(q, e) \in Seq(T) /\ k \in Seq(T)
        /\ Only(Append(q, e), S) = IF e \in S THEN Append(k, e) ELSE k
        /\ Ids(k) \subseteq Ids(q)
    BY OnlyOfAppend, OnlyType, IdsOfOnly
  <2>2. OneEach(q) => OneEach(k)
    BY <1>2
  <2> HIDE DEF k
  <2>3. OneEach(Append(k, e)) <=> OneEach(k) /\ e.id \notin Ids(k)
    BY <2>1, OneMore
  <2>4. OneEach(Append(q, e)) <=> OneEach(q) /\ e.id \notin Ids(q)
    BY OneMore
  <2>5. OneEach(Append(q, e)) => OneEach(Only(Append(q, e), S))
    BY <2>1, <2>2, <2>3, <2>4
  <2> QED BY <2>1, <2>5
<1> HIDE DEF Z
<1>3. s \in Z
  BY <1>1, <1>2, ByAppending
<1> QED BY <1>3 DEF Z

\* So does cutting it off.
LEMMA FirstFew ==
  ASSUME NEW T, NEW s \in Seq(T), NEW k \in Int, k <= Len(s)
  PROVE  LET t == SubSeq(s, 1, k)
         IN  /\ t \in Seq(T) /\ DOMAIN t \subseteq DOMAIN s
             /\ \A i \in DOMAIN t : t[i] = s[i]
             /\ Ids(t) \subseteq Ids(s)
             /\ OneEach(s) => OneEach(t)
<1> DEFINE t == SubSeq(s, 1, k)
<1>1. t \in Seq(T) /\ DOMAIN t \subseteq DOMAIN s /\ \A i \in DOMAIN t : t[i] = s[i]
  <2>1. CASE k >= 1
    BY <2>1, SubSeqProperties, LenProperties
  <2>2. CASE k < 1
    <3>1. t = <<>>
      BY <2>2, SubSeqEmpty
    <3> QED BY <3>1, EmptySeq
  <2> QED BY <2>1, <2>2
<1> HIDE DEF t
<1>2. Ids(t) \subseteq Ids(s)
  BY <1>1 DEF Ids
<1>3. OneEach(s) => OneEach(t)
  BY <1>1 DEF OneEach
<1> QED BY <1>1, <1>2, <1>3 DEF t

\* A sequence of some of T is a sequence of T.
LEMMA WiderSeq ==
  ASSUME NEW S, NEW T, S \subseteq T, NEW s \in Seq(S)
  PROVE  s \in Seq(T)
<1>1. Len(s) \in Nat /\ s \in [1..Len(s) -> S]
  BY LenProperties
<1>2. s \in [1..Len(s) -> T]
  BY <1>1
<1> QED BY <1>1, <1>2

\* A sequence given place by place.
LEMMA MadeSeq ==
  ASSUME NEW T, NEW n \in Int, NEW f, DOMAIN f = 1..n, f = [k \in 1..n |-> f[k]],
         \A k \in 1..n : f[k] \in T
  PROVE  f \in Seq(T) /\ (n >= 0 => Len(f) = n)
<1>1. CASE n >= 0
  <2>1. f \in [1..n -> T]
    OBVIOUS
  <2> QED BY <1>1, <2>1
<1>2. CASE n < 0
  <2>1. 1..n = 1..0
    BY <1>2
  <2>2. f \in [1..0 -> T]
    BY <2>1
  <2> QED BY <1>2, <2>2
<1> QED BY <1>1, <1>2

-----------------------------------------------------------------------------
(* The search for combinations *)

\* The candidates strict matching works with.
Stocked(r) ==
  {c \in Known(r) : /\ c.id \in DOMAIN r.products
                    /\ r.products[c.id].weight > 0 /\ r.products[c.id].stock > 0}

\* Candidates that are known, weighed and in stock, each class once.
LEMMA ExtractedType ==
  ASSUME NEW r, IsRemoval(r), NEW cands \in Seq(Known(r)), OneEach(cands)
  PROVE  LET cps == ExtractCandidateProducts(cands, r.products)
         IN  cps \in Seq(Stocked(r)) /\ OneEach(cps)
<1> DEFINE S == {c \in ToSet(cands) : /\ c.id \in DOMAIN r.products
                                     /\ r.products[c.id].weight > 0
                                     /\ r.products[c.id].stock > 0}
<1>1. Known(r) \cap S \subseteq Stocked(r)
  BY DEF Stocked
<1>2. ExtractCandidateProducts(cands, r.products) = Only(cands, S)
  BY DEF ExtractCandidateProducts
<1> HIDE DEF S
<1>3. Only(cands, S) \in Seq(Known(r) \cap S) /\ OneEach(Only(cands, S))
  BY OnlyWithin, OnlyOneEach
<1>4. Only(cands, S) \in Seq(Stocked(r))
  BY <1>1, <1>3, WiderSeq
<1> QED BY <1>2, <1>3, <1>4

\* A node of the search combines candidates that come before the first that
\* may still join.
Nodes(r, cps) ==
  {v \in [combo : Combos(r), first : Nat \ {0}, new : BOOLEAN] :
     \A k \in DOMAIN v.combo :
       \E i \in 1..Len(cps) : i < v.first /\ v.combo[k].cand = cps[i]}

Grown(r, cps, node, i, n) ==
  [combo |-> Append(node.combo, [cand |-> cps[i], n |-> n,
                                 unit |-> r.products[cps[i].id].weight]),
   first |-> i + 1, new |-> TRUE]

\* One more product joins a combination.
LEMMA GrownType ==
  ASSUME NEW r, IsRemoval(r), NEW cps \in Seq(Stocked(r)), OneEach(cps),
         NEW node \in Nodes(r, cps), NEW i \in 1..Len(cps), i >= node.first,
         NEW n \in Nat \ {0}, n <= r.products[cps[i].id].stock
  PROVE  Grown(r, cps, node, i, n) \in Nodes(r, cps)
<1> DEFINE p == [cand |-> cps[i], n |-> n, unit |-> r.products[cps[i].id].weight]
           c == node.combo
           m == Len(c)
           t == Append(c, p)
<1>1. Len(cps) \in Nat /\ DOMAIN cps = 1..Len(cps) /\ \A j \in 1..Len(cps) : cps[j] \in Stocked(r)
  BY LenProperties, ElementOfSeq
<1>2. p \in Parts(r) /\ p.cand = cps[i]
  BY <1>1, RemovalTypes DEF Stocked, Known, Parts, Affordable
<1>3. c \in Combos(r) /\ node.first \in Nat \ {0}
      /\ \A k \in DOMAIN c : \E j \in 1..Len(cps) : j < node.first /\ c[k].cand = cps[j]
  BY DEF Nodes
<1>4. c \in Seq(Parts(r)) /\ m \in Nat /\ DOMAIN c = 1..m
  BY <1>3, PartTypes
<1> HIDE DEF p, c
<1>5. /\ t \in Seq(Parts(r)) /\ DOMAIN t = 1..(m + 1)
      /\ \A k \in 1..m : t[k] = c[k]
      /\ t[m + 1] = p
  BY <1>2, <1>4, AppendProperties, LenProperties
<1> HIDE DEF t, m
<1>6. \A k \in 1..(m + 1) : k \in 1..m \/ k = m + 1
  BY <1>4
<1>7. ASSUME NEW k \in 1..m PROVE c[k].cand.id # p.cand.id
  <2>1. PICK j \in 1..Len(cps) : j < node.first /\ c[k].cand = cps[j]
    BY <1>3, <1>4
  <2>2. j # i
    BY <1>1, <1>3, <2>1
  <2> QED BY <1>1, <1>2, <2>1, <2>2 DEF OneEach
<1>8. \A k, j \in DOMAIN t : t[k].cand.id = t[j].cand.id => k = j
  <2>1. \A k, j \in 1..m : c[k].cand.id = c[j].cand.id => k = j
    BY <1>3, <1>4 DEF Combos
  <2> QED BY <1>5, <1>6, <1>7, <2>1
<1>9. t \in Combos(r)
  BY <1>5, <1>8 DEF Combos
<1>10. \A k \in DOMAIN t : \E j \in 1..Len(cps) : j < i + 1 /\ t[k].cand = cps[j]
  <2> SUFFICES ASSUME NEW k \in DOMAIN t
               PROVE  \E j \in 1..Len(cps) : j < i + 1 /\ t[k].cand = cps[j]
    OBVIOUS
  <2>1. CASE k = m + 1
    BY <1>1, <1>2, <1>5, <2>1
  <2>2. CASE k \in 1..m
    <3>1. PICK j \in 1..Len(cps) : j < node.first /\ c[k].cand = cps[j]
      BY <1>3, <1>4, <2>2
    <3>2. j < i + 1
      BY <1>1, <1>3, <3>1
    <3> QED BY <1>5, <2>2, <3>1, <3>2
  <2> QED BY <1>5, <1>6, <2>1, <2>2
<1>11. Grown(r, cps, node, i, n) = [combo |-> t, first |-> i + 1, new |-> TRUE]
  BY DEF Grown, t, c, p
<1>12. i + 1 \in Nat \ {0}
  BY <1>1
<1> QED BY <1>9, <1>10, <1>11, <1>12 DEF Nodes

\* How many there may be of the candidate at a rank, how many may still join, and
\* the nodes below a node by that candidate.
Takeable(r, cps, i) == Least(r.products[cps[i].id].stock, MaxCountPerItem)
Joinable(r, cps, maxItems, node, i) == Least(Takeable(r, cps, i), Room(node.combo, maxItems))

ChildLists(r, cps, maxItems, node) ==
  [i \in 1..Len(cps) |->
     IF i < node.first THEN <<>>
     ELSE [n \in 1..Joinable(r, cps, maxItems, node, i) |-> Grown(r, cps, node, i, n)]]

LEMMA ChildListsType ==
  ASSUME NEW r, IsRemoval(r), NEW cps \in Seq(Stocked(r)), OneEach(cps),
         NEW maxItems \in Int, NEW node \in Nodes(r, cps)
  PROVE  /\ ChildLists(r, cps, maxItems, node) \in Seq(Seq(Nodes(r, cps)))
         /\ \A i \in 1..Len(cps) : Joinable(r, cps, maxItems, node, i) \in Int
<1> DEFINE cap(i) == Joinable(r, cps, maxItems, node, i)
           part(i) == [n \in 1..cap(i) |-> Grown(r, cps, node, i, n)]
           all == [i \in 1..Len(cps) |-> IF i < node.first THEN <<>> ELSE part(i)]
<1>1. Len(cps) \in Nat /\ \A i \in 1..Len(cps) : cps[i] \in Stocked(r)
  BY LenProperties, ElementOfSeq
<1>2. ASSUME NEW i \in 1..Len(cps)
      PROVE  cap(i) \in Int /\ cap(i) <= r.products[cps[i].id].stock
  <2>1. r.products[cps[i].id].stock \in Int
    BY <1>1, RemovalTypes DEF Stocked
  <2>2. Room(node.combo, maxItems) \in Int
    BY ComboSums DEF Room, Nodes
  <2> QED BY <2>1, <2>2, ConstantTypes DEF Joinable, Takeable, Least
<1>3. ASSUME NEW i \in 1..Len(cps), ~(i < node.first)
      PROVE  part(i) \in Seq(Nodes(r, cps))
  <2>1. node.first \in Nat /\ i \in Nat /\ i >= node.first
    BY <1>1, <1>3 DEF Nodes
  <2>2. r.products[cps[i].id].stock \in Int
    BY <1>1, RemovalTypes DEF Stocked
  <2>3. \A n \in 1..cap(i) : n \in Nat \ {0} /\ n <= r.products[cps[i].id].stock
    BY <1>2, <2>2
  <2>4. \A n \in 1..cap(i) : Grown(r, cps, node, i, n) \in Nodes(r, cps)
    BY <2>1, <2>3, GrownType
  <2>5. cap(i) \in Int
    BY <1>2
  <2> HIDE DEF cap
  <2> QED BY <2>4, <2>5, MadeSeq
<1>4. \A i \in 1..Len(cps) : all[i] \in Seq(Nodes(r, cps))
  BY <1>3, EmptySeq
<1>5. ChildLists(r, cps, maxItems, node) = all
  BY DEF ChildLists
<1> HIDE DEF part
<1>6. all \in Seq(Seq(Nodes(r, cps)))
  BY <1>1, <1>4, MadeSeq
<1> HIDE DEF all
<1> QED BY <1>2, <1>5, <1>6

\* The nodes below a node.
LEMMA ChildrenType ==
  ASSUME NEW r, IsRemoval(r), NEW cps \in Seq(Stocked(r)), OneEach(cps),
         NEW maxItems \in Int, NEW node \in Nodes(r, cps)
  PROVE  /\ Children(cps, r.products, maxItems, node) \in Seq(Nodes(r, cps))
         /\ Children(cps, r.products, maxItems, node) = Joined(ChildLists(r, cps, maxItems, node))
<1>1. Children(cps, r.products, maxItems, node) = Joined(ChildLists(r, cps, maxItems, node))
  BY DEF Children, ChildLists, Grown, Joinable, Takeable
<1> QED BY <1>1, ChildListsType, JoinedType

\* A node and the nodes below it.
LEMMA ExpandedType ==
  ASSUME NEW r, IsRemoval(r), NEW cps \in Seq(Stocked(r)), OneEach(cps),
         NEW maxItems \in Int, NEW target, NEW node \in Nodes(r, cps)
  PROVE  Expanded(cps, r.products, target, maxItems, node) \in Seq(Nodes(r, cps))
<1> DEFINE N == Nodes(r, cps)
           below == Children(cps, r.products, maxItems, node)
           light == Only(below, {c \in ToSet(below) : Light(c, target)})
<1>1. light \in Seq(N)
  BY ChildrenType, OnlyType
<1>2. node \in N /\ [node EXCEPT !.new = FALSE] \in N
  BY DEF Nodes
<1>3. Expanded(cps, r.products, target, maxItems, node) =
        IF ~node.new THEN <<node>>
        ELSE <<[node EXCEPT !.new = FALSE]>>
               \o (IF GoesOn(node, target, maxItems) THEN light ELSE <<>>)
  BY DEF Expanded
<1> HIDE DEF N, light
<1>4. \A v \in N : <<v>> \in Seq(N)
  OBVIOUS
<1>5. \A s, t \in Seq(N) : s \o t \in Seq(N)
  BY ConcatProperties
<1> QED BY <1>1, <1>2, <1>3, <1>4, <1>5, EmptySeq DEF N

\* One round of the search.
LEMMA DeepenedType ==
  ASSUME NEW r, IsRemoval(r), NEW cps \in Seq(Stocked(r)), OneEach(cps),
         NEW maxItems \in Int, NEW target, NEW nodes \in Seq(Nodes(r, cps))
  PROVE  Deepened(cps, r.products, target, maxItems, nodes) \in Seq(Nodes(r, cps))
<1> DEFINE all == [k \in DOMAIN nodes |-> Expanded(cps, r.products, target, maxItems, nodes[k])]
<1>1. Len(nodes) \in Nat /\ DOMAIN nodes = 1..Len(nodes)
      /\ \A k \in 1..Len(nodes) : nodes[k] \in Nodes(r, cps)
  BY LenProperties, ElementOfSeq
<1>2. \A k \in 1..Len(nodes) : all[k] \in Seq(Nodes(r, cps))
  BY <1>1, ExpandedType
<1>3. all \in Seq(Seq(Nodes(r, cps)))
  BY <1>1, <1>2, MadeSeq
<1> HIDE DEF all
<1>4. Joined(all) \in Seq(Nodes(r, cps))
  BY <1>3, JoinedType
<1> QED BY <1>4 DEF Deepened, all

Root == [combo |-> <<>>, first |-> 1, new |-> TRUE]

\* What the search has met after each round.
Rounds(r, cps, target, maxItems) ==
  {h \in [0..MaxCombinationKinds -> Seq(Nodes(r, cps))] :
     /\ h[0] = <<Root>>
     /\ \A k \in 1..MaxCombinationKinds :
          h[k] = Deepened(cps, r.products, target, maxItems, h[k - 1])}

LEMMA VisitedFold ==
  ASSUME NEW r, IsRemoval(r), NEW cps \in Seq(Stocked(r)), OneEach(cps),
         NEW maxItems \in Int, NEW target
  PROVE  \E h \in Rounds(r, cps, target, maxItems) :
           Visited(cps, r.products, target, maxItems) = h[MaxCombinationKinds]
<1> DEFINE n == MaxCombinationKinds
           V == Seq(Nodes(r, cps))
           b == <<Root>>
           Step(v) == Deepened(cps, r.products, target, maxItems, v)
           G == [p \in (1..n) \X V |-> Step(p[2])]
           Eq(F) == F = [X \in SUBSET (1..n) |->
                           IF X = {} THEN b ELSE Step(F[X \ {Max(X)}])]
           H == CHOOSE F : Eq(F)
<1>1. n \in Nat
  BY ConstantTypes
<1>2. Visited(cps, r.products, target, maxItems) = H[1..n]
  BY <1>1 DEF Visited, FoldLeft, MapThenFoldSet, Root
<1>3. b \in V
  <2>1. <<>> \in Combos(r) /\ DOMAIN <<>> = {}
    BY EmptySeq DEF Combos
  <2>2. Root \in Nodes(r, cps)
    BY <2>1 DEF Nodes, Root
  <2> QED BY <2>2
<1>4. \A v \in V : Step(v) \in V
  BY DeepenedType
<1> HIDE DEF V, Step, b
<1>5. \A k \in 1..n, v \in V : G[<<k, v>>] = Step(v) /\ Step(v) \in V
  BY <1>4
<1>6. Steps(n, V, G)
  BY <1>5 DEF Steps
<1>7. \A X \in SUBSET (1..n) : X # {} => Max(X) \in 1..n
  BY <1>1, MaxOfPlaces
<1> HIDE DEF G, n
<1>8. Eq(H)
  <2>1. PICK F : F \in Folds(n, V, b, G)
    BY <1>1, <1>3, <1>6, FoldExists
  <2>2. ASSUME NEW X \in SUBSET (1..n)
        PROVE  F[X] = IF X = {} THEN b ELSE Step(F[X \ {Max(X)}])
    <3>1. F[X] = IF X = {} THEN b ELSE G[<<Max(X), F[X \ {Max(X)}]>>]
      BY <2>1 DEF Folds
    <3>2. X # {} => Max(X) \in 1..n /\ F[X \ {Max(X)}] \in V
      BY <1>7, <2>1 DEF Folds
    <3> QED BY <1>5, <3>1, <3>2
  <2>3. Eq(F)
    BY <2>1, <2>2 DEF Folds
  <2> QED BY <2>3
<1>9. H[{}] = b
  BY <1>8
<1>10. ASSUME NEW X \in SUBSET (1..n), X # {}, H[X \ {Max(X)}] \in V
       PROVE  H[X] = G[<<Max(X), H[X \ {Max(X)}]>>]
  <2>1. H[X] = Step(H[X \ {Max(X)}])
    BY <1>8, <1>10
  <2>2. Max(X) \in 1..n
    BY <1>7, <1>10
  <2> HIDE DEF H
  <2> QED BY <1>5, <1>10, <2>1, <2>2
<1> HIDE DEF H
<1>11. PICK h : h \in States(n, V, b, G, H[1..n])
  <2>1. FollowsSteps(H, n, V, b, G)
    BY <1>9, <1>10 DEF FollowsSteps
  <2> QED BY <1>1, <1>3, <1>6, <2>1, FoldStates
<1>12. /\ h \in [0..n -> V] /\ h[0] = b /\ h[n] = H[1..n]
       /\ \A k \in 1..n : h[k] = G[<<k, h[k - 1]>>]
  BY <1>11 DEF States
<1>13. ASSUME NEW k \in 1..n PROVE h[k] = Step(h[k - 1])
  <2>1. h[k - 1] \in V
    BY <1>1, <1>12
  <2> QED BY <1>5, <1>12, <2>1
<1>14. h \in Rounds(r, cps, target, maxItems)
  BY <1>12, <1>13 DEF Rounds, V, b, n, Step
<1> QED BY <1>2, <1>12, <1>14 DEF n

\* All the nodes the search meets.
LEMMA VisitedType ==
  ASSUME NEW r, IsRemoval(r), NEW cps \in Seq(Stocked(r)), OneEach(cps),
         NEW maxItems \in Int, NEW target
  PROVE  Visited(cps, r.products, target, maxItems) \in Seq(Nodes(r, cps))
<1>1. PICK h \in Rounds(r, cps, target, maxItems) :
        Visited(cps, r.products, target, maxItems) = h[MaxCombinationKinds]
  BY VisitedFold
<1>2. MaxCombinationKinds \in 0..MaxCombinationKinds
  BY ConstantTypes
<1> QED BY <1>1, <1>2 DEF Rounds

\* What the search finds are combinations of different classes in stock.
LEMMA BacktrackType ==
  ASSUME NEW r, IsRemoval(r), NEW cps \in Seq(Stocked(r)), OneEach(cps),
         NEW maxItems \in Int, NEW target
  PROVE  Backtrack(cps, r.products, target, maxItems) \in Seq(Exact(r, target))
<1> DEFINE nodes == Visited(cps, r.products, target, maxItems)
           combos == [k \in DOMAIN nodes |-> nodes[k].combo]
           right == {c \in ToSet(combos) : c # <<>> /\ ErrorOf(c, target) <= ToleranceGrams}
           found == Only(combos, right)
           few == Least(MaxCombinations, Len(found))
<1>1. nodes \in Seq(Nodes(r, cps))
  BY VisitedType
<1> HIDE DEF nodes
<1>2. Len(nodes) \in Nat /\ DOMAIN nodes = 1..Len(nodes)
      /\ \A k \in 1..Len(nodes) : nodes[k] \in Nodes(r, cps)
  BY <1>1, LenProperties, ElementOfSeq
<1>3. \A k \in 1..Len(nodes) : combos[k] \in Combos(r)
  BY <1>2 DEF Nodes
<1>4. combos \in Seq(Combos(r))
  BY <1>2, <1>3, MadeSeq
<1>5. Backtrack(cps, r.products, target, maxItems) = SubSeq(found, 1, few)
  BY DEF Backtrack, Explaining, nodes
<1>6. Combos(r) \cap right \subseteq Exact(r, target)
  BY DEF Exact
<1> HIDE DEF combos, right
<1>7. found \in Seq(Combos(r) \cap right)
  BY <1>4, OnlyWithin
<1> HIDE DEF found
<1>8. found \in Seq(Exact(r, target))
  BY <1>6, <1>7, WiderSeq
<1>9. few \in Int /\ few <= Len(found)
  BY <1>8, LenProperties, ConstantTypes DEF Least
<1> HIDE DEF few
<1> QED BY <1>5, <1>8, <1>9, FirstFew

LEMMA FoundType ==
  ASSUME NEW r, IsRemoval(r), NEW cands \in Seq(Known(r)), OneEach(cands),
         NEW maxItems \in Int
  PROVE  /\ FindValidCombinations(cands, r.target, r.products, maxItems)
              \in Seq(Exact(r, r.target))
         /\ FindValidCombinations(cands, r.target, r.products, maxItems) \in Seq(Combos(r))
<1> DEFINE cps == ExtractCandidateProducts(cands, r.products)
           found == Backtrack(cps, r.products, r.target, maxItems)
           sure == Only(found, {combo \in ToSet(found) : ~RiskyCombination(combo)})
<1>1. cps \in Seq(Stocked(r)) /\ OneEach(cps)
  BY ExtractedType
<1> HIDE DEF cps
<1>2. r.target \in Nat /\ found \in Seq(Exact(r, r.target))
  BY <1>1, RemovalTypes, BacktrackType
<1>3. FindValidCombinations(cands, r.target, r.products, maxItems) =
        IF r.target < ToleranceGrams THEN <<>> ELSE sure
  BY DEF FindValidCombinations, cps
<1> HIDE DEF found
<1>4. sure \in Seq(Exact(r, r.target))
  BY <1>2, OnlyType
<1> HIDE DEF sure
<1>5. Exact(r, r.target) \subseteq Combos(r)
  BY DEF Exact
<1>6. FindValidCombinations(cands, r.target, r.products, maxItems) \in Seq(Exact(r, r.target))
  BY <1>3, <1>4, EmptySeq
<1> QED BY <1>5, <1>6, WiderSeq

-----------------------------------------------------------------------------
(* The best combination *)

\* Some candidate of a set of classes comes first.
LEMMA FirstRank ==
  ASSUME NEW r, IsRemoval(r), NEW R \in SUBSET Ids(r.cands), R # {}
  PROVE  \E i \in DOMAIN r.cands : /\ r.cands[i].id \in R
                                   /\ \A j \in 1..(i - 1) : r.cands[j].id \notin R
<1> DEFINE P == {i \in DOMAIN r.cands : r.cands[i].id \in R}
           n == Len(r.cands)
<1>1. DOMAIN r.cands = 1..n /\ n \in Nat
  BY RemovalTypes
<1>2. P # {}
  BY DEF Ids
<1> HIDE DEF n
<1>3. P \in SUBSET (0..n)
  BY <1>1
<1>4. PICK i \in P : \A j \in P : i <= j
  BY <1>1, <1>2, <1>3, LeastNumber
<1>5. i \in DOMAIN r.cands /\ r.cands[i].id \in R
      /\ \A j \in 1..(i - 1) : r.cands[j].id \notin R
  BY <1>1, <1>4
<1> QED BY <1>5

LEMMA SourceType ==
  ASSUME NEW source
  PROVE  SourcePriority(source) \in Int
BY DEF SourcePriority

\* A tuple of eleven numbers.
LEMMA Eleven ==
  ASSUME NEW a1 \in Int, NEW a2 \in Int, NEW a3 \in Int, NEW a4 \in Int, NEW a5 \in Int,
         NEW a6 \in Int, NEW a7 \in Int, NEW a8 \in Int, NEW a9 \in Int, NEW a10 \in Int,
         NEW a11 \in Int
  PROVE  /\ <<a1, a2, a3, a4, a5, a6, a7, a8, a9, a10, a11>> \in Seq(Int)
         /\ Len(<<a1, a2, a3, a4, a5, a6, a7, a8, a9, a10, a11>>) = 11
OBVIOUS

\* The key of a combination is a tuple of eleven numbers.
LEMMA PriorityKeyType ==
  ASSUME NEW r, IsRemoval(r), NEW combos, NEW c \in Combos(r)
  PROVE  PriorityKey(r, combos, c) \in Seq(Int) /\ Len(PriorityKey(r, combos, c)) = 11
<1> DEFINE own == CandidateUnits(r, c)
           ranked == Ids(r.cands) \cap {c[i].cand.id : i \in DOMAIN c}
           k == CHOOSE i \in DOMAIN r.cands :
                  /\ r.cands[i].id \in ranked
                  /\ \A j \in 1..(i - 1) : r.cands[j].id \notin ranked
           first == IF ranked = {} THEN <<2, 9999>>
                    ELSE <<k, SourcePriority(r.cands[k].source)>>
           single == UnitsOf(c) = 1
           head == MatcherKey(combos, c, r.target)[1]
<1>1. DOMAIN c = 1..Len(c) /\ Len(c) \in Nat /\ r.target \in Int
  BY PartTypes, RemovalTypes
<1>2. own \in Int /\ ReturnedOverlap(r, c) \in Int
  <2>1. /\ [i \in DOMAIN c |->
              IF c[i].cand.id \in Ids(r.cands) /\ c[i].cand.source # "stage_counts"
                THEN c[i].n ELSE 0] \in [1..Len(c) -> Int]
        /\ [i \in DOMAIN c |->
              IF \E hint \in r.returned : Gap(c[i].unit, hint) <= ToleranceGrams
                THEN c[i].n ELSE 0] \in [1..Len(c) -> Int]
    BY <1>1, PartTypes
  <2>2. own \in Int
    BY <1>1, <2>1, SumIsInt DEF CandidateUnits
  <2>3. ReturnedOverlap(r, c) \in Int
    BY <1>1, <2>1, SumIsInt DEF ReturnedOverlap
  <2> QED BY <2>2, <2>3
<1>3. /\ UnitsOf(c) \in Int /\ ErrorOf(c, r.target) \in Int
      /\ EvidenceOf(c) \in Int /\ ConfOf(c) \in Int
  BY <1>1, ComboSums
<1>4. head \in Int
  BY DEF MatcherKey
<1>5. first[1] \in Int /\ first[2] \in Int
  <2>1. CASE ranked = {}
    BY <2>1
  <2>2. CASE ranked # {}
    <3>1. k \in Int
      <4>1. ranked \in SUBSET Ids(r.cands)
        OBVIOUS
      <4> HIDE DEF ranked
      <4>2. \E i \in DOMAIN r.cands : /\ r.cands[i].id \in ranked
                                      /\ \A j \in 1..(i - 1) : r.cands[j].id \notin ranked
        BY <2>2, <4>1, FirstRank
      <4>3. k \in DOMAIN r.cands
        BY <4>2
      <4> HIDE DEF k
      <4> QED BY <4>3, RemovalTypes
    <3>2. SourcePriority(r.cands[k].source) \in Int
      BY SourceType
    <3> HIDE DEF k, ranked
    <3> QED BY <2>2, <3>1, <3>2
  <2> HIDE DEF first, ranked
  <2> QED BY <2>1, <2>2
<1> DEFINE a2 == IF own = 0 THEN 1 ELSE 0
           a5 == IF single THEN first[1] ELSE 0
           a6 == IF single THEN first[2] ELSE 0
<1>6. PriorityKey(r, combos, c) =
        <<head, a2, ReturnedOverlap(r, c), UnitsOf(c), a5, a6, ErrorOf(c, r.target),
          UnitsOf(c) - own, -EvidenceOf(c), -ConfOf(c), Len(c)>>
  BY DEF PriorityKey
<1> HIDE DEF own, first, single, head
<1>7. a2 \in Int /\ a5 \in Int /\ a6 \in Int
  BY <1>5
<1>8. UnitsOf(c) - own \in Int /\ -EvidenceOf(c) \in Int /\ -ConfOf(c) \in Int /\ Len(c) \in Int
  BY <1>1, <1>2, <1>3
<1> HIDE DEF a2, a5, a6
<1> QED BY <1>2, <1>3, <1>4, <1>6, <1>7, <1>8, Eleven

\* The best combination is one of them.
LEMMA FromBestSound ==
  ASSUME NEW r, IsRemoval(r), NEW combos \in Seq(Combos(r))
  PROVE  /\ combos # <<>> => /\ BestCombination(r, combos) \in Combos(r)
                             /\ \E i \in DOMAIN combos : BestCombination(r, combos) = combos[i]
         /\ Sound(r, FromBest(r, combos))
<1> DEFINE keys == [i \in DOMAIN combos |-> PriorityKey(r, combos, combos[i])]
<1>1. \A i \in DOMAIN combos : combos[i] \in Combos(r)
  BY LenProperties, ElementOfSeq
<1>2. Tuples(keys, DOMAIN combos, 11)
  BY <1>1, PriorityKeyType DEF Tuples
<1>3. BestCombination(r, combos) = FirstBy(combos, keys)
  BY DEF BestCombination
<1> HIDE DEF keys
<1>4. combos # <<>> => \E i \in DOMAIN combos : BestCombination(r, combos) = combos[i]
  BY <1>1, <1>2, <1>3, FirstByOneOf
<1>5. combos # <<>> => BestCombination(r, combos) \in Combos(r)
  BY <1>1, <1>4
<1>6. combos = <<>> => Sound(r, FromBest(r, combos))
  BY NoneSound DEF FromBest
<1>7. combos # <<>> => Sound(r, FromBest(r, combos))
  BY <1>5, FromComboSound DEF FromBest
<1> QED BY <1>4, <1>5, <1>6, <1>7

\* How many units a combination may have.
LEMMA LimitTypes ==
  ASSUME NEW r, IsRemoval(r)
  PROVE  SegmentGripLimit(r) \in Nat \ {0} /\ StrictMaxItems(r) \in Nat
<1>1. r.segments \in Nat /\ MaxItemsPerSegment \in Nat \ {0} /\ MaxCombinationItems \in Nat
  BY RemovalTypes, ConstantTypes
<1>2. r.segments # 0 => r.segments * MaxItemsPerSegment \in Nat \ {0}
  BY <1>1
<1>3. SegmentGripLimit(r) \in Nat \ {0}
  BY <1>1, <1>2 DEF SegmentGripLimit, NoLimit
<1> QED BY <1>1, <1>3 DEF StrictMaxItems

\* The best combination of two units or more.
LEMMA SeveralSound ==
  ASSUME NEW r, IsRemoval(r), NEW cands \in Seq(Known(r)), OneEach(cands)
  PROVE  Sound(r, BestOfSeveral(r, cands))
<1> DEFINE combos == FindValidCombinations(cands, r.target, r.products, StrictMaxItems(r))
           several == Only(combos, {combo \in ToSet(combos) : UnitsOf(combo) >= 2})
<1>1. combos \in Seq(Combos(r))
  <2>1. StrictMaxItems(r) \in Int
    BY LimitTypes
  <2> QED BY <2>1, FoundType
<1>2. BestOfSeveral(r, cands) = FromBest(r, several)
  BY DEF BestOfSeveral
<1> HIDE DEF combos
<1>3. several \in Seq(Combos(r))
  BY <1>1, OnlyType
<1> HIDE DEF several
<1> QED BY <1>2, <1>3, FromBestSound

-----------------------------------------------------------------------------
(* Stage evidence *)

\* A stage entry is a candidate of its class.
LEMMA AsCandidateType ==
  ASSUME NEW r, IsRemoval(r), NEW e \in StageEntry, e.id \in Named(r),
         NEW source \in Sources, NEW gate \in BOOLEAN
  PROVE  AsCandidate(e, source, gate) \in Known(r) /\ AsCandidate(e, source, gate).id = e.id
<1>1. Most(1, e.votes) \in Nat
  BY DEF StageEntry, Most
<1> QED BY <1>1 DEF AsCandidate, StageEntry, Candidate, Known

\* Sorting keeps the classes different.
LEMMA SortedOneEach ==
  ASSUME NEW T, NEW s \in Seq(T), NEW n \in Nat, NEW keys, Tuples(keys, DOMAIN s, n),
         OneEach(s)
  PROVE  OneEach(SortedOn(s, keys))
<1>1. PICK order : /\ Permutes(order, Len(s))
                   /\ SortedOn(s, keys) = [k \in 1..Len(s) |-> s[order[k]]]
  BY SortedOnPermutes
<1>2. DOMAIN s = 1..Len(s)
  BY LenProperties
<1> QED BY <1>1, <1>2 DEF OneEach, Permutes

\* Two sequences of different classes one after the other.
LEMMA BothOneEach ==
  ASSUME NEW T, NEW s \in Seq(T), NEW t \in Seq(T), OneEach(s), OneEach(t),
         Ids(s) \cap Ids(t) = {}
  PROVE  OneEach(s \o t)
<1> DEFINE n == Len(s)
           m == Len(t)
           u == s \o t
<1>1. /\ n \in Nat /\ m \in Nat /\ DOMAIN s = 1..n /\ DOMAIN t = 1..m
      /\ DOMAIN u = 1..(n + m)
      /\ \A i \in 1..n : u[i] = s[i]
      /\ \A i \in (n + 1)..(n + m) : u[i] = t[i - n]
  BY LenProperties, ConcatProperties
<1> HIDE DEF u, n, m
<1> SUFFICES ASSUME NEW i \in 1..(n + m), NEW j \in 1..(n + m), u[i].id = u[j].id
             PROVE  i = j
  BY <1>1 DEF OneEach, u
<1>2. /\ \A k \in 1..n : s[k].id \in Ids(s)
      /\ \A k \in 1..m : t[k].id \in Ids(t)
  BY <1>1 DEF Ids
<1>3. CASE i <= n /\ j <= n
  <2>1. i \in 1..n /\ j \in 1..n
    BY <1>1, <1>3
  <2> QED BY <1>1, <2>1 DEF OneEach
<1>4. CASE i <= n /\ j > n
  <2>1. i \in 1..n /\ j \in (n + 1)..(n + m) /\ j - n \in 1..m
    BY <1>1, <1>4
  <2> QED BY <1>1, <1>2, <2>1
<1>5. CASE i > n /\ j <= n
  <2>1. j \in 1..n /\ i \in (n + 1)..(n + m) /\ i - n \in 1..m
    BY <1>1, <1>5
  <2> QED BY <1>1, <1>2, <2>1
<1>6. CASE i > n /\ j > n
  <2>1. /\ i \in (n + 1)..(n + m) /\ i - n \in 1..m
        /\ j \in (n + 1)..(n + m) /\ j - n \in 1..m
    BY <1>1, <1>6
  <2>2. i - n = j - n
    BY <1>1, <2>1 DEF OneEach
  <2> QED BY <1>1, <2>1, <2>2
<1> QED BY <1>1, <1>3, <1>4, <1>5, <1>6

\* The stage entries that join are of classes that are not candidates.
LEMMA StageAddedType ==
  ASSUME NEW r, IsRemoval(r)
  PROVE  /\ StageAdded(r) \in Seq(Known(r)) /\ OneEach(StageAdded(r))
         /\ Ids(StageAdded(r)) \cap Ids(r.cands) = {}
<1> DEFINE S == {e \in ToSet(r.stage) : /\ e.id \notin Ids(r.cands)
                                        /\ e.votes > 0 \/ e.conf > 0}
           new == Only(r.stage, S)
           keys == [i \in DOMAIN new |->
                      <<-new[i].score, -new[i].sideConf, -new[i].conf,
                        -new[i].sideVotes, -new[i].votes>>]
           sorted == SortedOn(new, keys)
           gate(e) == e.motion \/ e.ranked \/ e.fits
           shown == [i \in DOMAIN sorted |->
                       AsCandidate(sorted[i], "stage_counts", gate(sorted[i]))]
           room == Most(0, StageCombinationLimit - Len(r.cands))
           T == {e \in StageEntry : e.id \in Named(r) /\ e.id \notin Ids(r.cands)}
<1>1. StageAdded(r) = SubSeq(shown, 1, Least(room, Len(sorted)))
  BY DEF StageAdded
<1>2. r.stage \in Seq(StageEntry) /\ OneEach(r.stage)
  BY DEF IsRemoval
<1>3. StageEntry \cap S \subseteq T
  BY RemovalTypes DEF ToSet
<1>4. OneEach(new) /\ new \in Seq(StageEntry \cap S)
  <2> HIDE DEF S
  <2> QED BY <1>2, OnlyOneEach, OnlyWithin
<1>5. new \in Seq(T)
  <2> HIDE DEF new, T, S
  <2> QED BY <1>3, <1>4, WiderSeq
<1> HIDE DEF S, new
<1>6. Tuples(keys, DOMAIN new, 5)
  <2>1. ASSUME NEW i \in DOMAIN new
        PROVE  keys[i] \in Seq(Int) /\ Len(keys[i]) = 5
    <3>1. new[i] \in StageEntry
      BY <1>5, LenProperties, ElementOfSeq
    <3> QED BY <3>1 DEF StageEntry
  <2> QED BY <2>1 DEF Tuples
<1> HIDE DEF keys
<1>7. sorted \in Seq(T) /\ OneEach(sorted)
  <2> HIDE DEF T
  <2> QED BY <1>4, <1>5, <1>6, SortedOnType, SortedOneEach
<1> HIDE DEF sorted
<1>8. /\ DOMAIN sorted = 1..Len(sorted) /\ Len(sorted) \in Nat
      /\ \A i \in 1..Len(sorted) : sorted[i] \in T
  <2> HIDE DEF T
  <2> QED BY <1>7, LenProperties, ElementOfSeq
<1>9. ASSUME NEW i \in 1..Len(sorted)
      PROVE  shown[i] \in Known(r) /\ shown[i].id = sorted[i].id
  <2>1. sorted[i] \in StageEntry /\ sorted[i].id \in Named(r)
    BY <1>8
  <2>2. gate(sorted[i]) \in BOOLEAN
    OBVIOUS
  <2>3. shown[i] = AsCandidate(sorted[i], "stage_counts", gate(sorted[i]))
    BY <1>8
  <2> DEFINE e == sorted[i]
             g == gate(e)
  <2>4. e \in StageEntry /\ e.id \in Named(r)
    BY <2>1
  <2>7. "stage_counts" \in Sources
    BY DEF Sources
  <2>5. shown[i] = AsCandidate(e, "stage_counts", g)
    BY <2>3
  <2> HIDE DEF e, g, shown
  <2>6. AsCandidate(e, "stage_counts", g) \in Known(r) /\ AsCandidate(e, "stage_counts", g).id = e.id
    BY <2>2, <2>4, <2>7, AsCandidateType, Zenon DEF e, g
  <2> QED BY <2>5, <2>6 DEF e
<1>10. DOMAIN shown = 1..Len(sorted) /\ shown = [i \in 1..Len(sorted) |-> shown[i]]
  BY <1>8
<1> HIDE DEF shown
<1>11. shown \in Seq(Known(r)) /\ Len(shown) = Len(sorted)
  BY <1>8, <1>9, <1>10, MadeSeq
<1>12. OneEach(shown)
  BY <1>7, <1>8, <1>9, <1>10 DEF OneEach
<1>13. Ids(shown) \cap Ids(r.cands) = {}
  BY <1>8, <1>9, <1>10 DEF Ids
<1>14. Least(room, Len(sorted)) \in Int /\ Least(room, Len(sorted)) <= Len(shown)
  BY <1>8, <1>11, RemovalTypes DEF Least, Most, StageCombinationLimit
<1> HIDE DEF room
<1> DEFINE k == Least(room, Len(sorted))
<1>15. k \in Int /\ k <= Len(shown)
  BY <1>14
<1> HIDE DEF k
<1>16. /\ SubSeq(shown, 1, k) \in Seq(Known(r)) /\ OneEach(SubSeq(shown, 1, k))
       /\ Ids(SubSeq(shown, 1, k)) \subseteq Ids(shown)
  BY <1>11, <1>12, <1>15, FirstFew
<1> QED BY <1>1, <1>13, <1>16 DEF k

\* Candidates and stage entries together have each class once.
LEMMA StageMergedType ==
  ASSUME NEW r, IsRemoval(r)
  PROVE  StageMerged(r) \in Seq(Known(r)) /\ OneEach(StageMerged(r))
<1> DEFINE k == Least(StageCombinationLimit, Len(r.cands))
           few == SubSeq(r.cands, 1, k)
<1>1. r.cands \in Seq(Known(r)) /\ OneEach(r.cands) /\ k \in Int /\ k <= Len(r.cands)
  BY RemovalTypes DEF IsRemoval, Least, StageCombinationLimit
<1>2. StageMerged(r) = few \o StageAdded(r)
  BY DEF StageMerged
<1> HIDE DEF k
<1>3. few \in Seq(Known(r)) /\ OneEach(few) /\ Ids(few) \subseteq Ids(r.cands)
  BY <1>1, FirstFew
<1> HIDE DEF few
<1>4. /\ StageAdded(r) \in Seq(Known(r)) /\ OneEach(StageAdded(r))
      /\ Ids(few) \cap Ids(StageAdded(r)) = {}
  BY <1>3, StageAddedType
<1>5. few \o StageAdded(r) \in Seq(Known(r))
  BY <1>3, <1>4, ConcatProperties
<1>6. OneEach(few \o StageAdded(r))
  BY <1>3, <1>4, BothOneEach
<1> QED BY <1>2, <1>5, <1>6

LEMMA StageCombinationSound ==
  ASSUME NEW r, IsRemoval(r)
  PROVE  Sound(r, StageCountCombination(r))
<1>1. Sound(r, BestOfSeveral(r, StageMerged(r)))
  BY StageMergedType, SeveralSound
<1> QED BY <1>1, NoneSound DEF StageCountCombination

-----------------------------------------------------------------------------
(* One product *)

\* One unit is in stock if any is.
LEMMA OneUnit ==
  ASSUME NEW r, IsRemoval(r), NEW id \in DOMAIN r.products
  PROVE  r.products[id].weight \in Nat /\ Affordable(r, id, 1)
<1>1. r.products[id].weight \in Nat /\ r.products[id].stock \in Int
  BY RemovalTypes
<1> QED BY <1>1 DEF Affordable

\* A class on sale can be billed once.
LEMMA OneUnitSound ==
  ASSUME NEW r, IsRemoval(r), NEW id \in Named(r) \cap DOMAIN r.products, NEW status
  PROVE  Sound(r, Single(status, id, 1, r.products[id].weight))
BY OneUnit, SingleSound

\* The candidates of the first ranks.
LEMMA TopPlaces ==
  ASSUME NEW r, IsRemoval(r)
  PROVE  /\ DOMAIN Top(r.cands) \subseteq DOMAIN r.cands
         /\ \A i \in DOMAIN Top(r.cands) : Top(r.cands)[i] = r.cands[i]
         /\ Ids(Top(r.cands)) \subseteq Ids(r.cands)
<1> DEFINE k == Least(TopK, Len(r.cands))
<1>1. r.cands \in Seq(Candidate) /\ k \in Int /\ k <= Len(r.cands)
  BY RemovalTypes, ConstantTypes DEF Least
<1> HIDE DEF k
<1>2. LET t == SubSeq(r.cands, 1, k)
      IN  /\ DOMAIN t \subseteq DOMAIN r.cands /\ \A i \in DOMAIN t : t[i] = r.cands[i]
          /\ Ids(t) \subseteq Ids(r.cands)
  BY <1>1, FirstFew
<1> QED BY <1>2 DEF Top, k

\* A number of units the checks allow is in stock.
LEMMA AllowedInStock ==
  ASSUME NEW r, IsRemoval(r), NEW id \in DOMAIN r.products, NEW n \in Int,
         CountAllowed(r, id, n)
  PROVE  n <= r.products[id].stock
<1>1. r.products[id].stock \in Int /\ SegmentGripLimit(r) \in Int
  BY RemovalTypes, LimitTypes
<1> QED BY <1>1, ConstantTypes DEF CountAllowed, Least, Most

\* What a sellable candidate is billed as, in any number that is allowed.
LEMMA RepeatSound ==
  ASSUME NEW r, IsRemoval(r), NEW i \in DOMAIN r.cands, Sellable(r, r.cands[i].id),
         NEW n \in Nat \ {0}, CountAllowed(r, r.cands[i].id, n), NEW status
  PROVE  Sound(r, Single(status, r.cands[i].id, n, r.products[r.cands[i].id].weight))
<1> DEFINE id == r.cands[i].id
<1>1. id \in Named(r) \cap DOMAIN r.products
  BY RemovalTypes DEF Sellable, Known
<1>2. r.products[id].weight \in Nat /\ n \in Int
  BY <1>1, RemovalTypes
<1>3. Affordable(r, id, n)
  BY <1>1, <1>2, AllowedInStock DEF Affordable
<1> HIDE DEF id
<1> QED BY <1>1, <1>2, <1>3, SingleSound DEF id

\* A set of ranks has a first one.
LEMMA FirstOfRanks ==
  ASSUME NEW r, IsRemoval(r), NEW P \in SUBSET DOMAIN r.cands, P # {}
  PROVE  (CHOOSE i \in P : \A j \in P : i <= j) \in P
<1>1. P \in SUBSET (0..Len(r.cands)) /\ Len(r.cands) \in Nat
  BY RemovalTypes
<1>2. \E i \in P : \A j \in P : i <= j
  BY <1>1, LeastNumber
<1> QED BY <1>2

\* The candidate vision saw, among products of its weight
\* (_same_weight_collision_guard).
LEMMA CollisionSound ==
  ASSUME NEW r, IsRemoval(r)
  PROVE  Sound(r, SameWeightCollisionGuard(r))
<1> DEFINE wins == {i \in DOMAIN Top(r.cands) : CollisionWins(r, i)}
           m == CHOOSE i \in wins : \A j \in wins : i <= j
           c == r.cands[m]
<1>1. CASE wins = {}
  BY <1>1, NoneSound DEF SameWeightCollisionGuard
<1>2. CASE wins # {}
  <2>1. wins \in SUBSET DOMAIN r.cands
    BY TopPlaces
  <2>2. SameWeightCollisionGuard(r) =
          Single("complete", c.id, CollisionCount(r, c), r.products[c.id].weight)
    BY <1>2 DEF SameWeightCollisionGuard
  <2> HIDE DEF wins
  <2>3. m \in wins
    BY <1>2, <2>1, FirstOfRanks
  <2> HIDE DEF m
  <2>4. /\ m \in DOMAIN r.cands /\ Sellable(r, c.id)
        /\ CountAllowed(r, c.id, CollisionCount(r, c))
    BY <2>1, <2>3 DEF wins, CollisionWins
  <2>5. CollisionCount(r, c) \in Nat \ {0}
    <3>1. r.target \in Nat /\ r.products[c.id].weight \in Nat \ {0}
      BY <2>4, RemovalTypes DEF Sellable
    <3> QED BY <3>1, RoundType DEF CollisionCount
  <2> QED BY <2>2, <2>4, <2>5, RepeatSound
<1> QED BY <1>1, <1>2

\* Multiplying keeps an order of numbers.
LEMMA Scaled ==
  ASSUME NEW p \in Int, NEW q \in Int, NEW z \in Nat \ {0}
  PROVE  /\ p < q <=> p * z < q * z
         /\ p = q <=> p * z = q * z
OBVIOUS

\* A fraction a/x before b/y and b/y before c/z.
LEMMA Fractions ==
  ASSUME NEW a \in Nat, NEW b \in Nat, NEW c \in Nat,
         NEW x \in Nat \ {0}, NEW y \in Nat \ {0}, NEW z \in Nat \ {0},
         a * y <= b * x, b * z <= c * y
  PROVE  /\ a * z <= c * x
         /\ a * y < b * x \/ b * z < c * y => a * z < c * x
<1> DEFINE p == a * y
           q == b * x
           s == b * z
           t == c * y
           u == a * z
           v == c * x
<1>1. p \in Int /\ q \in Int /\ s \in Int /\ t \in Int /\ u \in Int /\ v \in Int
  OBVIOUS
<1>2. p * z = u * y /\ q * z = s * x /\ t * x = v * y
  OBVIOUS
<1>3. p <= q /\ s <= t
  OBVIOUS
<1> HIDE DEF p, q, s, t, u, v
<1>4. p * z <= q * z /\ (p < q => p * z < q * z)
  BY <1>1, <1>3, Scaled
<1>5. s * x <= t * x /\ (s < t => s * x < t * x)
  BY <1>1, <1>3, Scaled
<1> DEFINE uy == u * y
           vy == v * y
           qz == q * z
<1>6. uy \in Int /\ vy \in Int /\ qz \in Int
  BY <1>1
<1>7. uy <= qz /\ qz <= vy /\ (p < q => uy < qz) /\ (s < t => qz < vy)
  BY <1>2, <1>4, <1>5
<1>8. (u < v <=> uy < vy) /\ (u = v <=> uy = vy)
  BY <1>1, Scaled
<1> HIDE DEF uy, vy, qz
<1>9. uy <= vy /\ (p < q \/ s < t => uy < vy)
  BY <1>6, <1>7
<1>10. u <= v /\ (p < q \/ s < t => u < v)
  BY <1>1, <1>6, <1>8, <1>9
<1> QED BY <1>10 DEF p, q, s, t, u, v

\* Of the places of fractions one is not after another.
LEMMA Closest ==
  ASSUME NEW n \in Nat, NEW F \in SUBSET (1..n), F # {}, NEW off, NEW slack,
         \A i \in F : off[i] \in Nat /\ slack[i] \in Nat \ {0}
  PROVE  \E i \in F : \A j \in F :
           \/ off[i] * slack[j] < off[j] * slack[i]
           \/ off[i] * slack[j] = off[j] * slack[i] /\ i <= j
<1> DEFINE le(i, j) == off[i] * slack[j]
           R == {p \in F \X F : \/ le(p[1], p[2]) < le(p[2], p[1])
                                \/ le(p[1], p[2]) = le(p[2], p[1]) /\ p[1] < p[2]}
<1>1. \A i, j \in F : le(i, j) \in Int /\ i \in Int
  OBVIOUS
<1>2. ASSUME NEW i \in F, NEW j \in F, NEW k \in F,
             le(i, j) <= le(j, i), le(j, k) <= le(k, j)
      PROVE  /\ le(i, k) <= le(k, i)
             /\ le(i, j) < le(j, i) \/ le(j, k) < le(k, j) => le(i, k) < le(k, i)
  BY <1>2, Fractions
<1> HIDE DEF le
<1>3. StrictOrder(R, F)
  <2>1. \A i \in F : <<i, i>> \notin R
    BY <1>1
  <2>2. ASSUME NEW i \in F, NEW j \in F, NEW k \in F, <<i, j>> \in R, <<j, k>> \in R
        PROVE  <<i, k>> \in R
    <3>1. /\ le(i, j) < le(j, i) \/ (le(i, j) = le(j, i) /\ i < j)
          /\ le(j, k) < le(k, j) \/ (le(j, k) = le(k, j) /\ j < k)
      BY <2>2
    <3>2. le(i, j) <= le(j, i) /\ le(j, k) <= le(k, j)
      BY <1>1, <3>1
    <3>3. /\ le(i, k) <= le(k, i)
          /\ le(i, j) < le(j, i) \/ le(j, k) < le(k, j) => le(i, k) < le(k, i)
      BY <1>2, <3>2
    <3>4. le(i, k) < le(k, i) \/ (le(i, k) = le(k, i) /\ i < k)
      BY <1>1, <3>1, <3>2, <3>3
    <3> QED BY <3>4
  <2> QED BY <2>1, <2>2 DEF StrictOrder
<1>4. IsFiniteSet(F)
  <2>1. IsFiniteSet(1..n)
    BY FS_Interval
  <2> QED BY <2>1, FS_Subset
<1>5. PICK m \in F : \A o \in F : <<o, m>> \notin R
  <2> HIDE DEF R
  <2> QED BY <1>3, <1>4, Minimal
<1>6. ASSUME NEW j \in F
      PROVE  le(m, j) < le(j, m) \/ (le(m, j) = le(j, m) /\ m <= j)
  <2>1. <<j, m>> \in F \X F /\ <<j, m>> \notin R
    BY <1>5
  <2>2. ~(le(j, m) < le(m, j)) /\ ~(le(j, m) = le(m, j) /\ j < m)
    BY <2>1
  <2>3. le(j, m) \in Int /\ le(m, j) \in Int /\ j \in Int /\ m \in Int
    BY <1>1
  <2> HIDE DEF R
  <2> QED BY <2>2, <2>3
<1> QED BY <1>6 DEF le

\* Several units of one candidate (_same_product_count_match).
LEMMA RepeatMatchSound ==
  ASSUME NEW r, IsRemoval(r)
  PROVE  Sound(r, SameProductCountMatch(r))
<1> DEFINE fits == {i \in DOMAIN Top(r.cands) : RepeatFits(r, i)}
           off == [i \in fits |-> RepeatOff(r, r.cands[i])]
           slack == [i \in fits |-> CountScaledTolerance(RepeatCount(r, r.cands[i]))]
           Slack(i) == CountScaledTolerance(RepeatCount(r, r.cands[i]))
           Closer(i, j) ==
             LET a == RepeatOff(r, r.cands[i]) * Slack(j)
                 b == RepeatOff(r, r.cands[j]) * Slack(i)
             IN  a < b \/ (a = b /\ i <= j)
           m == CHOOSE i \in fits : \A j \in fits : Closer(i, j)
           c == r.cands[m]
<1>1. CASE fits = {}
  BY <1>1, NoneSound DEF SameProductCountMatch
<1>2. CASE fits # {}
  <2>1. fits \in SUBSET (1..Len(r.cands)) /\ Len(r.cands) \in Nat /\ DOMAIN r.cands = 1..Len(r.cands)
    BY TopPlaces, RemovalTypes
  <2>2. SameProductCountMatch(r) =
          Single("complete", c.id, RepeatCount(r, c), r.products[c.id].weight)
    BY <1>2 DEF SameProductCountMatch
  <2>3. ASSUME NEW i \in fits
        PROVE  /\ Sellable(r, r.cands[i].id)
               /\ CountAllowed(r, r.cands[i].id, RepeatCount(r, r.cands[i]))
               /\ RepeatCount(r, r.cands[i]) \in Nat \ {0}
               /\ off[i] \in Nat /\ slack[i] \in Nat \ {0}
    <3> DEFINE d == r.cands[i]
               k == RepeatCount(r, d)
    <3>1. Sellable(r, d.id) /\ k >= 2 /\ CountAllowed(r, d.id, k)
      BY DEF RepeatFits
    <3>2. r.target \in Nat /\ r.products[d.id].weight \in Nat \ {0}
      BY <3>1, RemovalTypes DEF Sellable
    <3> HIDE DEF d, fits
    <3>3. k \in Int
      BY <3>2, RoundType DEF RepeatCount
    <3>4. k \in Nat \ {0}
      BY <3>1, <3>3
    <3> HIDE DEF k
    <3>5. CountScaledTolerance(k) \in Nat \ {0}
      BY <3>4, ConstantTypes DEF CountScaledTolerance
    <3>6. RepeatOff(r, d) \in Nat
      <4>1. r.products[d.id].weight * k \in Int
        BY <3>2, <3>4
      <4> QED BY <3>2, <4>1 DEF RepeatOff, Gap, k
    <3> QED BY <3>1, <3>4, <3>5, <3>6 DEF d, k
  <2> HIDE DEF fits
  <2>4. \A i \in fits : off[i] \in Nat /\ slack[i] \in Nat \ {0}
    BY <2>3
  <2>5. \A i \in fits : off[i] = RepeatOff(r, r.cands[i]) /\ slack[i] = Slack(i)
    OBVIOUS
  <2> HIDE DEF off, slack, Slack
  <2>6. \E i \in fits : \A j \in fits :
          \/ off[i] * slack[j] < off[j] * slack[i]
          \/ off[i] * slack[j] = off[j] * slack[i] /\ i <= j
    BY <1>2, <2>1, <2>4, Closest
  <2>7. \E i \in fits : \A j \in fits : Closer(i, j)
    BY <2>5, <2>6
  <2> HIDE DEF Closer
  <2>8. m \in fits
    BY <2>7
  <2> HIDE DEF m
  <2>9. m \in DOMAIN r.cands
    BY <2>1, <2>8
  <2> QED BY <2>2, <2>3, <2>8, <2>9, RepeatSound
<1> QED BY <1>1, <1>2

\* One of some candidates on sale, the first by some key.
LEMMA ChosenSound ==
  ASSUME NEW r, IsRemoval(r), NEW found \in Seq(Known(r)), found # <<>>,
         \A i \in DOMAIN found : Sellable(r, found[i].id),
         NEW n \in Nat, NEW keys, Tuples(keys, DOMAIN found, n), NEW status
  PROVE  Sound(r, Single(status, FirstBy(found, keys).id, 1,
                         r.products[FirstBy(found, keys).id].weight))
<1>1. PICK i \in DOMAIN found : FirstBy(found, keys) = found[i]
  BY FirstByOneOf
<1>2. found[i] \in Known(r)
  BY <1>1, LenProperties, ElementOfSeq
<1>3. found[i].id \in Named(r) \cap DOMAIN r.products
  BY <1>2 DEF Sellable, Known
<1> QED BY <1>1, <1>3, OneUnitSound

\* Three numbers.
LEMMA Three ==
  ASSUME NEW a \in Int, NEW b \in Int, NEW c \in Int
  PROVE  <<a, b, c>> \in Seq(Int) /\ Len(<<a, b, c>>) = 3
OBVIOUS

\* A candidate that the weight rescued (_rescue_single).
LEMMA RescueSound ==
  ASSUME NEW r, IsRemoval(r)
  PROVE  Sound(r, RescueSingle(r))
<1> DEFINE Residual(c) == Gap(r.target, r.products[c.id].weight)
           Moved(c) == c.moved \/ (c.source # "threshold_rescue" /\ c.gate)
           S == {c \in ToSet(r.cands) :
                   /\ c.source \in RescueSources
                   /\ Sellable(r, c.id)
                   /\ Residual(c) <= RescueTolerance
                   /\ \/ c.source # "threshold_rescue" \/ Moved(c)
                      \/ c.raw >= NoMotionMinRawVotes /\ Residual(c) <= NoMotionMaxResidual}
           viable == Only(r.cands, S)
           votes(c) == IF c.raw > 0 THEN c.raw ELSE c.votes
           keys == [i \in DOMAIN viable |->
                      <<Residual(viable[i]), -viable[i].conf, -votes(viable[i])>>]
           best == FirstBy(viable, keys)
<1>1. RescueSingle(r) =
        IF viable = <<>> THEN None
        ELSE Single("complete", best.id, 1, r.products[best.id].weight)
  BY DEF RescueSingle
<1>2. \A c \in S : Sellable(r, c.id)
  OBVIOUS
<1>3. viable \in Seq(Known(r) \cap S)
  <2> HIDE DEF S
  <2> QED BY RemovalTypes, OnlyWithin
<1> HIDE DEF viable, S
<1>4. viable \in Seq(Known(r)) /\ \A i \in DOMAIN viable : viable[i] \in Known(r) \cap S
  <2> DEFINE T == Known(r) \cap S
  <2>1. T \subseteq Known(r) /\ viable \in Seq(T)
    BY <1>3
  <2> HIDE DEF T
  <2>2. viable \in Seq(Known(r)) /\ \A i \in DOMAIN viable : viable[i] \in T
    BY <2>1, WiderSeq, LenProperties, ElementOfSeq
  <2> QED BY <2>2 DEF T
<1>5. Tuples(keys, DOMAIN viable, 3)
  <2>1. ASSUME NEW i \in DOMAIN viable
        PROVE  keys[i] \in Seq(Int) /\ Len(keys[i]) = 3
    <3> DEFINE c == viable[i]
    <3>1. c \in Candidate /\ Sellable(r, c.id)
      BY <1>2, <1>4 DEF Known
    <3>2. c.conf \in Nat /\ c.raw \in Nat /\ c.votes \in Nat
      BY <3>1 DEF Candidate
    <3>3. r.products[c.id].weight \in Int /\ r.target \in Int
      BY <3>1, RemovalTypes DEF Sellable
    <3>4. Residual(c) \in Int
      BY <3>3 DEF Gap
    <3>5. -c.conf \in Int /\ -votes(c) \in Int
      BY <3>2
    <3>6. keys[i] = <<Residual(c), -c.conf, -votes(c)>>
      OBVIOUS
    <3> HIDE DEF keys, Residual, votes, c
    <3> QED BY <3>4, <3>5, <3>6, Three
  <2> QED BY <2>1 DEF Tuples
<1> HIDE DEF keys
<1>6. CASE viable = <<>>
  BY <1>1, <1>6, NoneSound
<1>7. CASE viable # <<>>
  <2>1. \A i \in DOMAIN viable : Sellable(r, viable[i].id)
    BY <1>2, <1>4
  <2>2. Sound(r, Single("complete", best.id, 1, r.products[best.id].weight))
    BY <1>4, <1>5, <1>7, <2>1, ChosenSound
  <2> QED BY <1>1, <1>7, <2>2
<1> QED BY <1>6, <1>7

-----------------------------------------------------------------------------
(* The first candidate in place of a product of its weight *)

InRankOrder(S) == InOrderOf(S, {p \in S \X S : p[1] < p[2]})

\* A set of ranks in order lists each rank once.
LEMMA RanksListed ==
  ASSUME NEW n \in Nat, NEW S \in SUBSET (1..n)
  PROVE  /\ InRankOrder(S) \in Seq(S) /\ Len(InRankOrder(S)) = Cardinality(S)
         /\ DOMAIN InRankOrder(S) = 1..Cardinality(S) /\ Cardinality(S) \in Nat
         /\ \A k \in 1..Cardinality(S) : InRankOrder(S)[k] \in S
         /\ \A k, j \in 1..Cardinality(S) : InRankOrder(S)[k] = InRankOrder(S)[j] => k = j
<1> DEFINE R == {p \in S \X S : p[1] < p[2]}
<1>1. IsFiniteSet(S)
  <2>1. IsFiniteSet(1..n)
    BY FS_Interval
  <2> QED BY <2>1, FS_Subset
<1>2. \A x \in S : x \in Int
  OBVIOUS
<1>3. StrictOrder(R, S)
  BY <1>2 DEF StrictOrder
<1>4. \A x, y \in S : x = y \/ <<x, y>> \in R \/ <<y, x>> \in R
  BY <1>2
<1>5. InRankOrder(S) = InOrderOf(S, R)
  BY DEF InRankOrder
<1> HIDE DEF R
<1>6. /\ InOrderOf(S, R) \in Seq(S) /\ Len(InOrderOf(S, R)) = Cardinality(S)
      /\ \A k, j \in 1..Cardinality(S) : InOrderOf(S, R)[k] = InOrderOf(S, R)[j] => k = j
  BY <1>1, <1>3, <1>4, ListedInOrder
<1>7. /\ DOMAIN InOrderOf(S, R) = 1..Cardinality(S) /\ Cardinality(S) \in Nat
      /\ \A k \in 1..Cardinality(S) : InOrderOf(S, R)[k] \in S
  BY <1>1, <1>6, LenProperties, ElementOfSeq, FS_CardinalityType
<1> QED BY <1>5, <1>6, <1>7

\* One unit each of the candidates of different ranks, off by no more than so
\* many units may be.
GraceUnits(r, ranks) == [k \in DOMAIN ranks |-> r.products[r.cands[ranks[k]].id].weight]

GraceOf(r, best, ranks) ==
  /\ Len(best) >= 2 /\ DOMAIN ranks = 1..Len(best)
  /\ \A k \in 1..Len(best) : ranks[k] \in RegularRanks(r)
  /\ \A k, j \in 1..Len(best) : ranks[k] = ranks[j] => k = j
  /\ Gap(r.target, SumOf(GraceUnits(r, ranks))) <= CountScaledTolerance(Len(best))
  /\ PriorityGrace(r, best) =
       [status |-> "complete", explained |-> SumOf(GraceUnits(r, ranks)),
        items |-> [k \in DOMAIN ranks |->
                     Item(r.cands[ranks[k]].id, 1, r.products[r.cands[ranks[k]].id].weight)]]

\* What the first candidate joins, if anything (_priority_grace).
LEMMA GraceChosen ==
  ASSUME NEW r, IsRemoval(r), NEW best \in Combos(r)
  PROVE  PriorityGrace(r, best) = None \/ \E ranks : GraceOf(r, best, ranks)
<1> DEFINE Unit(i) == r.products[r.cands[i].id].weight
           Sorted(S) == InOrderOf(S, {p \in S \X S : p[1] < p[2]})
           Off(S) == Gap(r.target, SumOf([k \in DOMAIN Sorted(S) |-> Unit(Sorted(S)[k])]))
           options == {S \in SUBSET RegularRanks(r) :
                         /\ GraceReplaces(r, best, S)
                         /\ Off(S) > ToleranceGrams
                         /\ Off(S) <= CountScaledTolerance(Len(best))}
           ranks == CHOOSE m \in {Sorted(S) : S \in options} :
                      \A S \in options : ~LexLess(Sorted(S), m)
           items == [k \in DOMAIN ranks |->
                       Item(r.cands[ranks[k]].id, 1, Unit(ranks[k]))]
           n == Len(r.cands)
           keys == [S \in options |-> Sorted(S)]
<1>1. n \in Nat /\ DOMAIN r.cands = 1..n /\ Len(best) \in Nat
  BY RemovalTypes, PartTypes
<1>2. RegularRanks(r) \in SUBSET (1..n)
  <2> HIDE DEF options, ranks, items, keys
  <2> QED BY <1>1, TopPlaces DEF RegularRanks
<1>3. \A S \in options : S \in SUBSET RegularRanks(r) /\ Cardinality(S) = Len(best)
  <2> HIDE DEF ranks, items, keys
  <2>1. \A S \in options : S \in SUBSET RegularRanks(r) /\ GraceReplaces(r, best, S)
    OBVIOUS
  <2> HIDE DEF options
  <2> QED BY <2>1 DEF GraceReplaces
<1>4. CASE Len(best) < 2 \/ options = {}
  BY <1>4 DEF PriorityGrace
<1>5. CASE ~(Len(best) < 2 \/ options = {})
  <2>1. PriorityGrace(r, best) =
          [status |-> "complete", items |-> items,
           explained |-> SumOf([k \in DOMAIN ranks |-> Unit(ranks[k])])]
    BY <1>5, ZenonT(60) DEF PriorityGrace
  <2>0. \A S \in options : Off(S) <= CountScaledTolerance(Len(best))
    OBVIOUS
  <2>2. \A S \in options : Sorted(S) = InRankOrder(S)
    BY DEF InRankOrder
  <2>3. IsFiniteSet(options)
    <3>1. options \in SUBSET SUBSET RegularRanks(r)
      OBVIOUS
    <3> HIDE DEF options, ranks, items, keys
    <3>2. IsFiniteSet(RegularRanks(r))
      <4>1. IsFiniteSet(1..n)
        BY <1>1, FS_Interval
      <4> QED BY <1>2, <4>1, FS_Subset
    <3> QED BY <3>1, <3>2, FS_SUBSET, FS_Subset
  <2>4. options # {}
    BY <1>5
  <2> HIDE DEF options, items, n, Sorted
  <2>5. ASSUME NEW S \in options
        PROVE  /\ DOMAIN Sorted(S) = 1..Len(best)
               /\ \A k \in 1..Len(best) : Sorted(S)[k] \in RegularRanks(r) /\ Sorted(S)[k] \in Int
               /\ \A k, j \in 1..Len(best) : Sorted(S)[k] = Sorted(S)[j] => k = j
    <3>1. S \in SUBSET (1..n) /\ Cardinality(S) = Len(best) /\ Sorted(S) = InRankOrder(S)
      BY <1>2, <1>3, <2>2
    <3>2. /\ DOMAIN InRankOrder(S) = 1..Cardinality(S)
          /\ \A k \in 1..Cardinality(S) : InRankOrder(S)[k] \in S
          /\ \A k, j \in 1..Cardinality(S) : InRankOrder(S)[k] = InRankOrder(S)[j] => k = j
      BY <1>1, <3>1, RanksListed
    <3> DEFINE f == InRankOrder(S)
               q == Cardinality(S)
    <3>3. /\ Sorted(S) = f /\ Len(best) = q
          /\ \A i \in S : i \in RegularRanks(r) /\ i \in Int
      BY <1>1, <1>3, <3>1
    <3>4. /\ DOMAIN f = 1..q /\ \A k \in 1..q : f[k] \in S
          /\ \A k, j \in 1..q : f[k] = f[j] => k = j
      BY <3>2
    <3> HIDE DEF f, q
    <3> QED BY <3>3, <3>4
  <2>6. Keyed(keys, options, Len(best))
    BY <2>5 DEF Keyed
  <2>7. \A S \in options : keys[S] = Sorted(S)
    OBVIOUS
  <2> HIDE DEF keys
  <2>8. \E m \in options : \A S \in options : ~LexLess(keys[S], keys[m])
    BY <1>1, <2>3, <2>4, <2>6, LexLeast
  <2>9. \E m \in {Sorted(S) : S \in options} : \A S \in options : ~LexLess(Sorted(S), m)
    BY <2>7, <2>8
  <2>10. ranks \in {Sorted(S) : S \in options}
    BY <2>9
  <2> HIDE DEF ranks
  <2>11. PICK S \in options : ranks = Sorted(S)
    BY <2>10
  <2>12. /\ DOMAIN ranks = 1..Len(best)
         /\ \A k \in 1..Len(best) : ranks[k] \in RegularRanks(r)
         /\ \A k, j \in 1..Len(best) : ranks[k] = ranks[j] => k = j
    BY <2>5, <2>11
  <2>13. Gap(r.target, SumOf(GraceUnits(r, ranks))) <= CountScaledTolerance(Len(best))
    <3>1. Off(S) = Gap(r.target, SumOf([k \in DOMAIN ranks |-> Unit(ranks[k])]))
      BY <2>11
    <3>2. GraceUnits(r, ranks) = [k \in DOMAIN ranks |-> Unit(ranks[k])]
      BY DEF GraceUnits
    <3>3. Off(S) <= CountScaledTolerance(Len(best))
      BY <2>0
    <3> HIDE DEF Off, Unit
    <3> QED BY <3>1, <3>2, <3>3
  <2>14. PriorityGrace(r, best) =
           [status |-> "complete", explained |-> SumOf(GraceUnits(r, ranks)),
            items |-> [k \in DOMAIN ranks |->
                         Item(r.cands[ranks[k]].id, 1, r.products[r.cands[ranks[k]].id].weight)]]
    BY <2>1 DEF items, GraceUnits
  <2>15. Len(best) >= 2
    BY <1>1, <1>5
  <2> QED BY <2>12, <2>13, <2>14, <2>15 DEF GraceOf
<1> QED BY <1>4, <1>5

\* Those are on sale, each a unit, and weigh right.
LEMMA GraceItems ==
  ASSUME NEW r, IsRemoval(r), NEW best \in Combos(r), NEW ranks, GraceOf(r, best, ranks)
  PROVE  /\ Sound(r, PriorityGrace(r, best)) /\ PriorityGrace(r, best).status = "complete"
         /\ PriorityGrace(r, best).items # <<>>
         /\ Len(best) >= 2 /\ UnitCount(PriorityGrace(r, best).items) >= Len(best)
         /\ Gap(r.target, ItemWeight(PriorityGrace(r, best).items))
              <= CountScaledTolerance(Len(best))
<1> DEFINE Unit(i) == r.products[r.cands[i].id].weight
           items == [k \in DOMAIN ranks |->
                       Item(r.cands[ranks[k]].id, 1, Unit(ranks[k]))]
           n == Len(best)
<1>1. /\ n \in Nat /\ n >= 2 /\ DOMAIN r.cands = 1..Len(r.cands)
      /\ RegularRanks(r) \subseteq DOMAIN r.cands
  BY RemovalTypes, PartTypes, TopPlaces DEF GraceOf, RegularRanks
<1>2. /\ DOMAIN ranks = 1..n
      /\ \A k \in 1..n : ranks[k] \in RegularRanks(r)
      /\ \A k, j \in 1..n : ranks[k] = ranks[j] => k = j
  BY DEF GraceOf
<1>3. /\ PriorityGrace(r, best).items = items /\ PriorityGrace(r, best).status = "complete"
      /\ PriorityGrace(r, best).explained = SumOf(GraceUnits(r, ranks))
      /\ Gap(r.target, SumOf(GraceUnits(r, ranks))) <= CountScaledTolerance(n)
  BY DEF GraceOf
<1> HIDE DEF n
<1>4. ASSUME NEW k \in 1..n
      PROVE  /\ items[k] \in Billable(r) /\ items[k].id = r.cands[ranks[k]].id
             /\ items[k].n = 1 /\ items[k].n * items[k].unit = Unit(ranks[k])
  <2> DEFINE i == ranks[k]
             id == r.cands[i].id
  <2>1. i \in RegularRanks(r) /\ i \in DOMAIN r.cands
    BY <1>1, <1>2
  <2>2. r.cands[i] \in Known(r) /\ Sellable(r, id)
    BY <2>1, RemovalTypes, TopPlaces DEF RegularRanks
  <2>3. id \in Named(r) \cap DOMAIN r.products
    BY <2>2 DEF Known, Sellable
  <2>4. r.products[id].weight \in Nat /\ Affordable(r, id, 1)
    BY <2>3, OneUnit
  <2>5. items[k] = Item(id, 1, r.products[id].weight)
    BY <1>2
  <2> HIDE DEF id, i, items
  <2>6. /\ items[k] \in Billable(r) /\ items[k].id = id /\ items[k].n = 1
        /\ items[k].n * items[k].unit = r.products[id].weight
    BY <2>3, <2>4, <2>5 DEF Item, Billable
  <2> QED BY <2>6 DEF id, i
<1>5. DOMAIN items = 1..n /\ items = [k \in 1..n |-> items[k]]
  BY <1>2
<1> HIDE DEF items
<1>6. items \in Seq(Billable(r))
  BY <1>1, <1>4, <1>5, MadeSeq
<1>7. OneEach(items)
  <2>1. \A k \in 1..n : ranks[k] \in DOMAIN r.cands
    BY <1>1, <1>2
  <2>2. OneEach(r.cands)
    BY DEF IsRemoval
  <2> QED BY <1>2, <1>4, <1>5, <2>1, <2>2 DEF OneEach
<1>8. SumOf(GraceUnits(r, ranks)) = ItemWeight(items)
  <2>1. GraceUnits(r, ranks) = [k \in DOMAIN items |-> items[k].n * items[k].unit]
    BY <1>2, <1>4, <1>5 DEF GraceUnits
  <2> QED BY <2>1 DEF ItemWeight
<1>9. UnitCount(items) >= n
  <2> DEFINE counts == [k \in DOMAIN items |-> items[k].n]
  <2>1. DOMAIN counts = 1..n /\ counts = [k \in 1..n |-> counts[k]]
        /\ \A k \in 1..n : counts[k] \in Nat /\ counts[k] >= 1
    BY <1>4, <1>5
  <2>2. UnitCount(items) = SumOf(counts)
    BY DEF UnitCount
  <2> HIDE DEF counts
  <2>3. counts \in Seq(Nat) /\ Len(counts) = n
    BY <1>1, <2>1, MadeSeq
  <2>4. SumOf(counts) >= n
    BY <2>1, <2>3, SumOfOnes
  <2> QED BY <2>2, <2>4
<1>10. items # <<>>
  <2>1. 1 \in DOMAIN items /\ DOMAIN <<>> = {}
    BY <1>1, <1>5
  <2> QED BY <2>1
<1> QED BY <1>1, <1>3, <1>6, <1>7, <1>8, <1>9, <1>10 DEF Sound, n

\* One unit each of different candidates (_priority_grace).
LEMMA GraceSound ==
  ASSUME NEW r, IsRemoval(r), NEW best \in Combos(r)
  PROVE  Sound(r, PriorityGrace(r, best))
BY GraceChosen, GraceItems, NoneSound

\* The strict strategies (_judge_strict).
LEMMA StrictSound ==
  ASSUME NEW r, IsRemoval(r)
  PROVE  Sound(r, JudgeStrict(r))
<1> DEFINE combos == FindValidCombinations(r.cands, r.target, r.products, StrictMaxItems(r))
           best == BestCombination(r, combos)
           rest == SameProductCountMatch(r) ?? StageCountCombination(r) ?? RescueSingle(r)
<1>1. combos \in Seq(Combos(r))
  <2>1. StrictMaxItems(r) \in Int
    BY LimitTypes
  <2> QED BY <2>1, RemovalTypes, FoundType DEF IsRemoval
<1>2. Sound(r, rest)
  BY RepeatMatchSound, StageCombinationSound, RescueSound, OrElseSound
<1>3. JudgeStrict(r) = IF combos = <<>> THEN rest ELSE SelectStrict(r, best)
  BY DEF JudgeStrict
<1> HIDE DEF combos, rest
<1>4. combos # <<>> => best \in Combos(r)
  BY <1>1, FromBestSound
<1>5. combos # <<>> => Sound(r, SelectStrict(r, best))
  BY <1>4, GraceSound, FromComboSound, OrElseSound DEF SelectStrict
<1> QED BY <1>2, <1>3, <1>5

-----------------------------------------------------------------------------
(* Estimates *)

\* Estimates of classes on sale, no more than is in stock.
Estimated(r) ==
  {e \in [id : Named(r) \cap DOMAIN r.products, n : Nat \ {0}, unit : Nat,
          expected : Int, conf : Nat, score : Int] : Affordable(r, e.id, e.n)}

LEMMA MatchScoreType ==
  ASSUME NEW error \in Int, NEW conf \in Nat
  PROVE  CalculateMatchScore(error, conf) \in Int
<1> DEFINE a == 500 * Most(0, 2 * ToleranceGrams - error)
           b == 2 * ToleranceGrams
<1>1. a \in Int /\ b \in Nat \ {0}
  BY ConstantTypes DEF Most
<1>2. CalculateMatchScore(error, conf) = Least(1000, (a \div b) + 4 * conf + 100)
  BY DEF CalculateMatchScore
<1> HIDE DEF a, b
<1>3. a \div b \in Int
  BY <1>1
<1> QED BY <1>2, <1>3 DEF Least

\* The estimate of one candidate (_estimate_single).
LEMMA EstimateType ==
  ASSUME NEW r, IsRemoval(r), NEW c \in Stocked(r),
         Round(r.target, r.products[c.id].weight) >= 1
  PROVE  Estimate(c, r.target, r.products[c.id]) \in Estimated(r)
<1> DEFINE w == r.products[c.id].weight
           s == r.products[c.id].stock
           n == EstimateCount(r.target, w, s)
<1>1. /\ c.id \in Named(r) \cap DOMAIN r.products /\ c.conf \in Nat
      /\ w \in Nat \ {0} /\ s \in Nat \ {0} /\ r.target \in Nat
  <2>1. /\ c.id \in Named(r) /\ c.id \in DOMAIN r.products /\ c.conf \in Nat
        /\ r.products[c.id].weight > 0 /\ r.products[c.id].stock > 0
    BY DEF Stocked, Known, Candidate
  <2>2. r.products[c.id].weight \in Nat /\ r.products[c.id].stock \in Int /\ r.target \in Nat
    BY <2>1, RemovalTypes
  <2> QED BY <2>1, <2>2
<1>2. Round(r.target, w) \in Int /\ Round(r.target, w) >= 1
  BY <1>1, RoundType
<1>3. n \in Nat \ {0} /\ n <= s
  BY <1>1, <1>2, ConstantTypes DEF EstimateCount, Least
<1>4. Estimate(c, r.target, r.products[c.id]) =
        [id |-> c.id, n |-> n, unit |-> w, expected |-> w * n, conf |-> c.conf,
         score |-> CalculateMatchScore(Gap(r.target, w * n), c.conf)]
  BY DEF Estimate
<1>5. Affordable(r, c.id, n)
  BY <1>3 DEF Affordable
<1> HIDE DEF n, w, s
<1>6. w * n \in Int
  BY <1>1, <1>3
<1>7. Gap(r.target, w * n) \in Int
  BY <1>1, <1>6 DEF Gap
<1>8. CalculateMatchScore(Gap(r.target, w * n), c.conf) \in Int
  BY <1>1, <1>7, MatchScoreType
<1> QED BY <1>1, <1>3, <1>4, <1>5, <1>6, <1>8 DEF Estimated

\* The calculator's estimates are of candidates on sale (calculate_estimates).
LEMMA EstimatesType ==
  ASSUME NEW r, IsRemoval(r)
  PROVE  CalculateEstimates(r.cands, r.target, InScope(r)) \in Seq(Estimated(r))
<1> DEFINE p == InScope(r)
           S == {c \in ToSet(r.cands) : /\ c.id \in DOMAIN p
                                       /\ p[c.id].weight > 0 /\ p[c.id].stock > 0}
           known == Only(r.cands, S)
           R == {c \in ToSet(known) : Round(r.target, p[c.id].weight) >= 1}
           usable == Only(known, R)
           T == {c \in Stocked(r) : Round(r.target, r.products[c.id].weight) >= 1}
           estimates == [i \in DOMAIN usable |->
                           Estimate(usable[i], r.target, p[usable[i].id])]
           keys == [i \in DOMAIN estimates |-> <<-estimates[i].score>>]
<1>1. \A id \in Scope(r) : id \in DOMAIN p /\ p[id] = r.products[id]
  BY DEF InScope
<1>2. DOMAIN p = Scope(r) /\ Scope(r) = DOMAIN r.products \cap Ids(r.cands)
  BY DEF InScope, Scope
<1>3. CalculateEstimates(r.cands, r.target, p) =
        IF r.target < MinWeightChange THEN <<>> ELSE SortedOn(estimates, keys)
  BY DEF CalculateEstimates, ExtractCandidateProducts
<1> HIDE DEF p
<1>4. \A c \in Stocked(r) : c.id \in DOMAIN r.products
  BY DEF Stocked
<1>5. Known(r) \cap S \subseteq Stocked(r)
  BY <1>1, <1>2 DEF Stocked
<1> HIDE DEF S
<1>6. known \in Seq(Known(r) \cap S)
  BY RemovalTypes, OnlyWithin
<1> HIDE DEF known
<1>7. known \in Seq(Stocked(r)) /\ \A c \in ToSet(known) : c \in Known(r) \cap S
  <2> DEFINE K == Known(r) \cap S
  <2>1. K \subseteq Stocked(r) /\ known \in Seq(K)
    BY <1>5, <1>6
  <2> HIDE DEF K
  <2>2. known \in Seq(Stocked(r)) /\ \A c \in ToSet(known) : c \in K
    BY <2>1, WiderSeq, LenProperties, ElementOfSeq DEF ToSet
  <2> QED BY <2>2 DEF K
<1>8. \A c \in S : c.id \in Scope(r)
  BY <1>2 DEF S
<1>9. Stocked(r) \cap R \subseteq T
  BY <1>1, <1>7, <1>8
<1> HIDE DEF R, T
<1>10. usable \in Seq(Stocked(r) \cap R) /\ \A c \in R : c.id \in Scope(r)
  BY <1>7, <1>8, OnlyWithin DEF R
<1> HIDE DEF usable
<1>11. /\ DOMAIN usable = 1..Len(usable) /\ Len(usable) \in Nat
       /\ \A i \in 1..Len(usable) : usable[i] \in T /\ usable[i].id \in Scope(r)
  <2> DEFINE K == Stocked(r) \cap R
  <2>1. usable \in Seq(K)
    BY <1>10
  <2> HIDE DEF K
  <2>2. /\ DOMAIN usable = 1..Len(usable) /\ Len(usable) \in Nat
        /\ \A i \in 1..Len(usable) : usable[i] \in K
    BY <2>1, LenProperties, ElementOfSeq
  <2> QED BY <1>9, <1>10, <2>2 DEF K
<1>12. \A i \in 1..Len(usable) : estimates[i] \in Estimated(r)
  BY <1>1, <1>11, EstimateType DEF T
<1>13. estimates \in Seq(Estimated(r)) /\ DOMAIN estimates = 1..Len(usable)
  BY <1>11, <1>12, MadeSeq
<1> HIDE DEF estimates
<1>14. Tuples(keys, DOMAIN estimates, 1)
  <2>1. ASSUME NEW i \in DOMAIN estimates
        PROVE  keys[i] \in Seq(Int) /\ Len(keys[i]) = 1
    <3>1. -estimates[i].score \in Int
      BY <1>12, <1>13 DEF Estimated
    <3> QED BY <3>1
  <2> QED BY <2>1 DEF Tuples
<1> HIDE DEF keys
<1>15. SortedOn(estimates, keys) \in Seq(Estimated(r))
  BY <1>13, <1>14, SortedOnType
<1> QED BY <1>3, <1>15, EmptySeq DEF p

\* An estimate can be billed.
LEMMA EstimateSound ==
  ASSUME NEW r, NEW e \in Estimated(r), NEW status
  PROVE  Sound(r, Single(status, e.id, e.n, e.unit))
BY SingleSound DEF Estimated

\* So can the first of some estimates, whether or not it is believed
\* (_single_product_match, and the partial result at the end).
LEMMA SomeEstimateSound ==
  ASSUME NEW r, NEW estimates \in Seq(Estimated(r))
  PROVE  /\ Sound(r, SingleProductMatch(r, estimates))
         /\ estimates # <<>> => Sound(r, Partial(estimates))
<1> DEFINE valid == Only(estimates, {e \in ToSet(estimates) : Validated(e, r.target)})
<1>1. ASSUME NEW s \in Seq(Estimated(r)), s # <<>> PROVE s[1] \in Estimated(r)
  <2>1. Len(s) \in Nat \ {0}
    BY <1>1, EmptySeq, LenProperties
  <2> QED BY <2>1, ElementOfSeq
<1>2. valid \in Seq(Estimated(r))
  BY OnlyType
<1>3. Sound(r, SingleProductMatch(r, estimates))
  <2> DEFINE e == valid[1]
  <2>1. \/ SingleProductMatch(r, estimates) = None
        \/ /\ valid # <<>>
           /\ SingleProductMatch(r, estimates) = Single("complete", e.id, e.n, e.unit)
    BY DEF SingleProductMatch
  <2> HIDE DEF valid
  <2>2. valid # <<>> => e \in Estimated(r)
    BY <1>1, <1>2
  <2> HIDE DEF e
  <2> QED BY <2>1, <2>2, EstimateSound, NoneSound
<1>4. estimates # <<>> => Sound(r, Partial(estimates))
  BY <1>1, EstimateSound DEF Partial
<1> QED BY <1>3, <1>4

\* The product that weighs nearest, and weight alone (_nearest_single_fallback,
\* _weight_only_judge).
LEMMA NearestSound ==
  ASSUME NEW r, IsRemoval(r)
  PROVE  /\ \A unique \in BOOLEAN : Sound(r, NearestSingle(r, unique))
         /\ Sound(r, WeightOnly(r))
<1> DEFINE pool == {id \in Scope(r) : Sellable(r, id)}
           Off(id) == Gap(r.target, r.products[id].weight)
           best == CHOOSE id \in pool : \A d \in pool :
                     Off(id) < Off(d) \/ (Off(id) = Off(d) /\ id <= d)
           off == [id \in pool |-> Off(id)]
<1>1. pool \subseteq Named(r) \cap DOMAIN r.products
  BY DEF Scope, Named
<1>2. IsFiniteSet(pool)
  <2> DEFINE D == DOMAIN r.cands
             f == [i \in D |-> r.cands[i].id]
  <2>1. IsFiniteSet(D)
    <3> DEFINE m == Len(r.cands)
    <3>1. m \in Nat /\ D = 1..m
      BY RemovalTypes
    <3> HIDE DEF m, D
    <3>2. IsFiniteSet(1..m)
      BY <3>1, FS_Interval
    <3> QED BY <3>1, <3>2
  <2> HIDE DEF D
  <2>2. IsFiniteSet({f[i] : i \in D})
    BY <2>1, FiniteImage
  <2>3. {f[i] : i \in D} = Ids(r.cands)
    BY DEF Ids, D
  <2>4. pool \subseteq Ids(r.cands)
    BY DEF Scope
  <2> QED BY <2>2, <2>3, <2>4, FS_Subset
<1>3. \A id \in pool : id \in Int /\ off[id] \in Int
  <2>1. r.target \in Int /\ \A id \in pool : id \in Int /\ r.products[id].weight \in Int
    BY <1>1, RemovalTypes
  <2> QED BY <2>1 DEF Gap
<1>4. ASSUME pool # {}
      PROVE  best \in Named(r) \cap DOMAIN r.products
  <2> HIDE DEF pool
  <2>1. PICK m \in pool : \A d \in pool : off[m] <= off[d]
    BY <1>2, <1>3, <1>4, Bottommost
  <2> DEFINE P == {d \in pool : off[d] = off[m]}
             g == [d \in P |-> d]
  <2>2. IsFiniteSet(P) /\ P # {} /\ \A d \in P : g[d] \in Int
    BY <1>2, <1>3, FS_Subset
  <2>3. PICK b \in P : \A d \in P : g[b] <= g[d]
    BY <2>2, Bottommost
  <2>4. \A d \in pool : off[b] < off[d] \/ (off[b] = off[d] /\ b <= d)
    BY <1>3, <2>1, <2>3
  <2>5. \A d \in pool : off[d] = Off(d)
    OBVIOUS
  <2> HIDE DEF Off, off
  <2>6. \E id \in pool : \A d \in pool : Off(id) < Off(d) \/ (Off(id) = Off(d) /\ id <= d)
    BY <2>3, <2>4, <2>5
  <2> QED BY <1>1, <2>6
<1>5. ASSUME NEW unique \in BOOLEAN PROVE Sound(r, NearestSingle(r, unique))
  <2>1. \/ NearestSingle(r, unique) = None
        \/ /\ pool # {}
           /\ NearestSingle(r, unique) = Single("partial", best, 1, r.products[best].weight)
    BY DEF NearestSingle
  <2> HIDE DEF best, pool
  <2> QED BY <1>4, <2>1, OneUnitSound, NoneSound
<1>6. Sound(r, WeightOnly(r))
  BY <1>5, OrElseSound, NoneSound DEF WeightOnly
<1> QED BY <1>5, <1>6

-----------------------------------------------------------------------------
(* Pairs *)

\* Candidates a pair may be made of, and the pairs.
Pooled(r) == {c \in Known(r) : c.id \in DOMAIN r.products}
Duos(r) == {c \in Combos(r) : Len(c) = 2}

\* Two parts of different classes.
LEMMA DuoType ==
  ASSUME NEW r, NEW a \in Parts(r), NEW b \in Parts(r), a.cand.id # b.cand.id
  PROVE  <<a, b>> \in Duos(r)
<1> DEFINE c == <<a, b>>
<1>1. c \in Seq(Parts(r)) /\ Len(c) = 2 /\ DOMAIN c = 1..2 /\ c[1] = a /\ c[2] = b
  OBVIOUS
<1> HIDE DEF c
<1>2. ASSUME NEW i \in 1..2, NEW j \in 1..2, c[i].cand.id = c[j].cand.id
      PROVE  i = j
  <2>1. (i = 1 \/ i = 2) /\ (j = 1 \/ j = 2)
    OBVIOUS
  <2> QED BY <1>1, <1>2, <2>1
<1>3. c \in Combos(r)
  BY <1>1, <1>2 DEF Combos
<1> QED BY <1>1, <1>3 DEF Duos, c

\* Up to three units of each, and no more than there are.
LEMMA PairsType ==
  ASSUME NEW r, IsRemoval(r), NEW c \in Pooled(r), NEW d \in Pooled(r), c.id # d.id
  PROVE  Pairs(c, d, r.products) \in Seq(Duos(r))
<1> DEFINE Of(x, n) == [cand |-> x, unit |-> r.products[x.id].weight, n |-> n]
           row(n) == [m \in 1..PairCap(d, r.products) |-> <<Of(c, n), Of(d, m)>>]
           all == [n \in 1..PairCap(c, r.products) |-> row(n)]
<1>1. ASSUME NEW x \in Pooled(r)
      PROVE  /\ PairCap(x, r.products) \in Nat
             /\ \A n \in 1..PairCap(x, r.products) : Of(x, n) \in Parts(r) /\ Of(x, n).cand = x
  <2>1. /\ x \in Candidate /\ x.id \in Named(r) \cap DOMAIN r.products
        /\ r.products[x.id].weight \in Nat /\ r.products[x.id].stock \in Int
    BY RemovalTypes DEF Pooled, Known
  <2>2. /\ PairCap(x, r.products) \in Nat
        /\ r.products[x.id].stock > 0 => PairCap(x, r.products) <= r.products[x.id].stock
    BY <2>1 DEF PairCap, Least
  <2>3. ASSUME NEW n \in 1..PairCap(x, r.products)
        PROVE  Of(x, n) \in Parts(r) /\ Of(x, n).cand = x
    <3>1. n \in Nat \ {0} /\ Affordable(r, x.id, n)
      BY <2>1, <2>2 DEF Affordable
    <3> QED BY <2>1, <3>1 DEF Parts
  <2> QED BY <2>2, <2>3
<1> HIDE DEF Of
<1>2. ASSUME NEW n \in 1..PairCap(c, r.products)
      PROVE  row(n) \in Seq(Duos(r))
  <2>1. \A m \in 1..PairCap(d, r.products) : row(n)[m] \in Duos(r)
    BY <1>1, DuoType
  <2>2. PairCap(d, r.products) \in Int
    BY <1>1
  <2> QED BY <2>1, <2>2, MadeSeq
<1>3. Pairs(c, d, r.products) = Joined(all)
  BY DEF Pairs, Of
<1>4. PairCap(c, r.products) \in Int
  BY <1>1
<1> HIDE DEF row
<1>5. all \in Seq(Seq(Duos(r)))
  BY <1>2, <1>4, MadeSeq
<1> HIDE DEF all
<1> QED BY <1>3, <1>5, JoinedType

\* Pairs are of different classes.
LEMMA AllPairsType ==
  ASSUME NEW r, IsRemoval(r), NEW pool \in Seq(Pooled(r)), OneEach(pool)
  PROVE  AllPairs(pool, r.products) \in Seq(Duos(r))
<1> DEFINE n == Len(pool)
           cell(i, j) == IF i < j THEN Pairs(pool[i], pool[j], r.products) ELSE <<>>
           row(i) == [j \in DOMAIN pool |-> cell(i, j)]
           all == [i \in DOMAIN pool |-> Joined(row(i))]
<1>1. DOMAIN pool = 1..n /\ n \in Int /\ \A i \in 1..n : pool[i] \in Pooled(r)
  BY LenProperties, ElementOfSeq
<1>2. AllPairs(pool, r.products) = Joined(all)
  BY DEF AllPairs
<1> HIDE DEF n
<1>3. ASSUME NEW i \in 1..n, NEW j \in 1..n PROVE cell(i, j) \in Seq(Duos(r))
  <2>1. CASE i < j
    <3>1. pool[i].id # pool[j].id
      BY <1>1, <2>1 DEF OneEach
    <3> QED BY <1>1, <2>1, <3>1, PairsType
  <2>2. CASE ~(i < j)
    BY <2>2, EmptySeq
  <2> QED BY <2>1, <2>2
<1> HIDE DEF cell
<1>4. ASSUME NEW i \in 1..n PROVE Joined(row(i)) \in Seq(Duos(r))
  <2>1. row(i) \in Seq(Seq(Duos(r)))
    BY <1>1, <1>3, MadeSeq
  <2> HIDE DEF row
  <2> QED BY <2>1, JoinedType
<1> HIDE DEF row
<1>5. all \in Seq(Seq(Duos(r)))
  BY <1>1, <1>4, MadeSeq
<1> HIDE DEF all
<1> QED BY <1>2, <1>5, JoinedType

LEMMA Four ==
  ASSUME NEW a \in Int, NEW b \in Int, NEW c \in Int, NEW d \in Int
  PROVE  <<a, b, c, d>> \in Seq(Int) /\ Len(<<a, b, c, d>>) = 4
OBVIOUS

\* The best pair (calculate_combination).
LEMMA PairSound ==
  ASSUME NEW r, IsRemoval(r), NEW cands \in Seq(Known(r)), OneEach(cands)
  PROVE  Sound(r, FromPair(CalculateCombination(cands, r.target, r.products)))
<1> DEFINE few == Least(TopK, Len(cands))
           top == SubSeq(cands, 1, few)
           S == {c \in ToSet(top) : /\ c.conf >= MultiKindMinConf
                                   /\ c.id \in DOMAIN r.products
                                   /\ r.products[c.id].weight > 0}
           pool == Only(top, S)
           all == AllPairs(pool, r.products)
           R == {p \in ToSet(all) :
                   /\ UnitsOf(p) <= MaxCombinationSize
                   /\ \A k \in 1..2 : ~UnsupportedSmallRepeat(p[k].cand, p[k].unit, p[k].n)
                   /\ ErrorOf(p, r.target) <= ToleranceGrams}
           fits == Only(all, R)
           keys == [i \in DOMAIN fits |->
                      <<UnitsOf(fits[i]), ErrorOf(fits[i], r.target),
                        -(fits[i][1].cand.conf + fits[i][2].cand.conf),
                        -WeightOf(fits[i])>>]
           pair == CalculateCombination(cands, r.target, r.products)
<1>1. few \in Int /\ few <= Len(cands)
  BY LenProperties, ConstantTypes DEF Least
<1>2. pair = IF r.target < MinWeightChange \/ fits = <<>> THEN <<>> ELSE FirstBy(fits, keys)
  BY DEF CalculateCombination, PairPool
<1> HIDE DEF few, pair
<1>3. top \in Seq(Known(r)) /\ OneEach(top)
  BY <1>1, FirstFew
<1> HIDE DEF top
<1>4. Known(r) \cap S \subseteq Pooled(r)
  BY DEF Pooled
<1> HIDE DEF S
<1>5. pool \in Seq(Known(r) \cap S) /\ OneEach(pool)
  BY <1>3, OnlyWithin, OnlyOneEach
<1> HIDE DEF pool
<1>6. pool \in Seq(Pooled(r))
  BY <1>4, <1>5, WiderSeq
<1>7. all \in Seq(Duos(r))
  BY <1>5, <1>6, AllPairsType
<1> HIDE DEF all, R
<1>8. fits \in Seq(Duos(r))
  BY <1>7, OnlyType
<1> HIDE DEF fits
<1>9. \A i \in DOMAIN fits : fits[i] \in Duos(r)
  BY <1>8, LenProperties, ElementOfSeq
<1>10. Tuples(keys, DOMAIN fits, 4)
  <2>1. ASSUME NEW i \in DOMAIN fits
        PROVE  keys[i] \in Seq(Int) /\ Len(keys[i]) = 4
    <3> DEFINE c == fits[i]
               cc == -(c[1].cand.conf + c[2].cand.conf)
               ww == -WeightOf(c)
    <3>1. c \in Combos(r) /\ Len(c) = 2 /\ r.target \in Int
      BY <1>9, RemovalTypes DEF Duos
    <3>2. keys[i] = <<UnitsOf(c), ErrorOf(c, r.target), cc, ww>>
      OBVIOUS
    <3> HIDE DEF c, keys
    <3>3. \A k \in 1..Len(c) : c[k].cand.conf \in Int
      BY <3>1, PartTypes
    <3>4. UnitsOf(c) \in Int /\ ErrorOf(c, r.target) \in Int /\ WeightOf(c) \in Int
      BY <3>1, ComboSums
    <3>5. cc \in Int /\ ww \in Int
      BY <3>1, <3>3, <3>4
    <3> HIDE DEF cc, ww
    <3> QED BY <3>2, <3>4, <3>5, Four
  <2> QED BY <2>1 DEF Tuples
<1> HIDE DEF keys
<1>11. pair # <<>> => pair \in Combos(r)
  <2>1. ASSUME fits # <<>> PROVE FirstBy(fits, keys) \in Combos(r)
    BY <1>8, <1>9, <1>10, <2>1, FirstByOneOf DEF Duos
  <2> QED BY <1>2, <2>1
<1>12. Sound(r, FromPair(pair))
  BY <1>11, FromComboSound, NoneSound DEF FromPair
<1> QED BY <1>12 DEF pair

-----------------------------------------------------------------------------
(* The relaxed strategies *)

\* The strategies that combine two products or several units.
LEMMA CombinationMatchSound ==
  ASSUME NEW r, IsRemoval(r)
  PROVE  Sound(r, CombinationMatch(r))
<1> DEFINE a == FromPair(CalculateCombination(r.cands, r.target, r.products))
           b == BestOfSeveral(r, r.cands)
           c == StageCountCombination(r)
           d == FromPair(CalculateCombination(StageMerged(r), r.target, r.products))
           e == IF StageAdded(r) = <<>> THEN None ELSE d
<1>1. r.cands \in Seq(Known(r)) /\ OneEach(r.cands)
  BY RemovalTypes DEF IsRemoval
<1>2. Sound(r, a) /\ Sound(r, b) /\ Sound(r, c)
  BY <1>1, PairSound, SeveralSound, StageCombinationSound
<1>3. Sound(r, d)
  BY StageMergedType, PairSound
<1>4. Sound(r, e)
  BY <1>3, NoneSound
<1>5. CombinationMatch(r) = a ?? b ?? c ?? e
  BY DEF CombinationMatch
<1> HIDE DEF a, b, c, d, e
<1>6. Sound(r, a ?? b ?? c ?? e)
  BY <1>2, <1>4, OrElseSound
<1> QED BY <1>5, <1>6

\* The relaxed strategies (_judge_relaxed).
LEMMA RelaxedSound ==
  ASSUME NEW r, IsRemoval(r)
  PROVE  Sound(r, JudgeRelaxed(r))
<1> DEFINE all == CalculateEstimates(r.cands, r.target, InScope(r))
           some == Only(all, {e \in ToSet(all) : e.n <= SegmentGripLimit(r)})
           one == Only(some, {e \in ToSet(some) : e.n = 1})
           more == Only(some, {e \in ToSet(some) : e.n > 1})
           a == SingleProductMatch(r, one)
           b == CombinationMatch(r)
           c == SingleProductMatch(r, more)
           d == NearestSingle(r, FALSE)
           e == Partial(some)
           f == WeightOnly(r)
<1>1. all \in Seq(Estimated(r))
  BY EstimatesType
<1>2. JudgeRelaxed(r) = IF some = <<>> THEN d ?? f ELSE a ?? b ?? c ?? d ?? e
  BY DEF JudgeRelaxed, RelaxedMatch
<1> HIDE DEF all
<1>3. some \in Seq(Estimated(r))
  BY <1>1, OnlyType
<1> HIDE DEF some
<1>4. one \in Seq(Estimated(r)) /\ more \in Seq(Estimated(r))
  BY <1>3, OnlyType
<1> HIDE DEF one, more
<1>5. Sound(r, a) /\ Sound(r, b) /\ Sound(r, c) /\ Sound(r, d) /\ Sound(r, f)
  BY <1>4, SomeEstimateSound, CombinationMatchSound, NearestSound
<1>6. some # <<>> => Sound(r, e)
  BY <1>3, SomeEstimateSound
<1> HIDE DEF a, b, c, d, e, f
<1>7. Sound(r, d ?? f)
  BY <1>5, OrElseSound
<1>8. some # <<>> => Sound(r, a ?? b ?? c ?? d ?? e)
  BY <1>5, <1>6, OrElseSound
<1> QED BY <1>2, <1>7, <1>8

-----------------------------------------------------------------------------
(* Identity over weight *)

\* The first candidate whose identity is believed (_vision_first_partial).
LEMMA VisionFirstSound ==
  ASSUME NEW r, IsRemoval(r)
  PROVE  Sound(r, VisionFirstPartial(r))
<1> DEFINE m == CHOOSE i \in Believed(r) : \A j \in Believed(r) : i <= j
           c == r.cands[m]
           unit == r.products[c.id].weight
           stock == r.products[c.id].stock
           cap == Least(Most(1, Least(Least(stock, MaxCountPerItem), Most(2, SameProductMax))),
                        SegmentGripLimit(r))
           n == Least(NearestCount(r.target, unit), cap)
           weighs == /\ NearestCount(r.target, unit) <= cap
                     /\ Gap(r.target, unit * n)
                          <= FullDeltaTolerance(<<Item(c.id, n, unit)>>, "vision_first")
           status == IF weighs THEN "complete" ELSE "partial"
           count == IdentityCount(n, weighs)
<1>1. \/ VisionFirstPartial(r) = None
      \/ /\ Believed(r) # {} /\ unit <= 0
         /\ VisionFirstPartial(r) = Single("partial", c.id, 1, unit)
      \/ /\ Believed(r) # {} /\ ~(unit <= 0)
         /\ VisionFirstPartial(r) = Single(status, c.id, count, unit)
  BY DEF VisionFirstPartial
<1>2. ASSUME Believed(r) # {}
      PROVE  c.id \in Named(r) \cap DOMAIN r.products /\ stock > 0
  <2>1. Believed(r) \in SUBSET DOMAIN r.cands
    BY DEF Believed
  <2>2. m \in Believed(r)
    BY <1>2, <2>1, FirstOfRanks
  <2> HIDE DEF m
  <2>3. c.id \in DOMAIN r.products /\ stock > 0 /\ m \in DOMAIN r.cands
    BY <2>2 DEF Believed
  <2> QED BY <2>3, RemovalTypes DEF Known
<1> DEFINE id == c.id
<1> HIDE DEF m
<1>3. count = n \/ count = 1
  BY DEF IdentityCount
<1>4. ASSUME Believed(r) # {}, ~(unit <= 0)
      PROVE  n \in Nat \ {0} /\ n <= stock
  <2>1. unit \in Nat \ {0} /\ stock \in Nat \ {0} /\ r.target \in Nat
    <3>1. unit \in Nat /\ stock \in Int /\ r.target \in Nat
      BY <1>2, <1>4, RemovalTypes
    <3> QED BY <1>2, <1>4, <3>1
  <2>2. NearestCount(r.target, unit) \in Nat \ {0}
    BY <2>1, RoundType
  <2>3. SegmentGripLimit(r) \in Nat \ {0}
    BY LimitTypes
  <2> HIDE DEF unit, stock
  <2>4. cap \in Nat \ {0} /\ cap <= stock
    BY <2>1, <2>3, ConstantTypes DEF Least, Most
  <2> HIDE DEF cap
  <2> QED BY <2>1, <2>2, <2>4 DEF Least
<1> HIDE DEF n, count, weighs, status
<1>5. ASSUME Believed(r) # {}, ~(unit <= 0)
      PROVE  Sound(r, Single(status, c.id, count, unit))
  <2>1. unit \in Nat /\ stock \in Int
    BY <1>2, <1>5, RemovalTypes
  <2>2. count \in Nat \ {0} /\ Affordable(r, c.id, count)
    BY <1>2, <1>3, <1>4, <1>5, <2>1 DEF Affordable
  <2>3. c.id \in Named(r) \cap DOMAIN r.products
    BY <1>2, <1>5
  <2> QED BY <2>1, <2>2, <2>3, SingleSound
<1>6. ASSUME Believed(r) # {}
      PROVE  Sound(r, Single("partial", c.id, 1, unit))
  BY <1>2, <1>6, OneUnitSound
<1> QED BY <1>1, <1>5, <1>6, NoneSound

-----------------------------------------------------------------------------
(* Detected classes *)

\* What is known of a class by name.
Sighted(r) ==
  [id : Named(r), staged : BOOLEAN, source : Sources \cup {"none"}, votes : Nat, conf : Nat,
   trusted : BOOLEAN, motion : BOOLEAN, fits : BOOLEAN, strong : BOOLEAN,
   sideVotes : Nat, sideConf : Nat, score : Nat]

OnSale(r) == {e \in Sighted(r) : e.id \in DOMAIN r.products}

LEMMA EvidenceType ==
  ASSUME NEW r, NEW id \in Named(r), NEW c \in Candidate \cup {NoCandidate},
         NEW e \in StageEntry \cup {NoStage}
  PROVE  Evidence(id, c, e) \in Sighted(r)
<1>1. /\ c.conf \in Nat /\ c.votes \in Nat /\ c.raw \in Nat
      /\ c.source \in Sources \cup {"none"}
  BY DEF Candidate, NoCandidate
<1>2. /\ e.conf \in Nat /\ e.votes \in Nat /\ e.sideConf \in Nat
      /\ e.sideVotes \in Nat /\ e.score \in Nat
  BY DEF StageEntry, NoStage
<1>3. Most(Most(c.raw, c.votes), e.votes) \in Nat /\ Most(c.conf, e.conf) \in Nat
  BY <1>1, <1>2 DEF Most
<1> QED BY <1>1, <1>2, <1>3 DEF Evidence, Sighted

\* The place of a class.
LEMMA RankType ==
  ASSUME NEW s, NEW id \in Ids(s)
  PROVE  Rank(s, id) \in DOMAIN s /\ s[Rank(s, id)].id = id
<1>1. \E i \in DOMAIN s : s[i].id = id
  BY DEF Ids
<1> QED BY <1>1 DEF Rank

\* Evidence is of classes that a candidate or a stage named.
LEMMA DetectedType ==
  ASSUME NEW r, IsRemoval(r)
  PROVE  DetectedEvidence(r) \in Seq(Sighted(r))
<1> DEFINE T == {e \in StageEntry : e.id \in Named(r)}
           S == {e \in ToSet(r.stage) : e.votes > 0 \/ e.ranked \/ e.fits}
           staged == Only(r.stage, S)
           StageOf(id) == IF id \in Ids(staged) THEN staged[Rank(staged, id)] ELSE NoStage
           R == {e \in ToSet(staged) : e.id \notin Ids(r.cands)}
           later == Only(staged, R)
           a == [i \in DOMAIN r.cands |->
                   Evidence(r.cands[i].id, r.cands[i], StageOf(r.cands[i].id))]
           b == [i \in DOMAIN later |-> Evidence(later[i].id, NoCandidate, later[i])]
<1>1. DetectedEvidence(r) = a \o b
  BY DEF DetectedEvidence
<1> HIDE DEF S
<1>2. r.stage \in Seq(T)
  <2>1. \A i \in 1..Len(r.stage) : r.stage[i] \in T
    BY RemovalTypes
  <2>2. r.stage \in Seq(StageEntry) /\ Len(r.stage) \in Nat
    BY RemovalTypes DEF IsRemoval
  <2>3. r.stage = [i \in 1..Len(r.stage) |-> r.stage[i]] /\ DOMAIN r.stage = 1..Len(r.stage)
    BY <2>2, LenProperties
  <2> HIDE DEF T
  <2> QED BY <2>1, <2>2, <2>3, MadeSeq
<1> HIDE DEF T, R
<1>3. staged \in Seq(T)
  BY <1>2, OnlyType
<1> HIDE DEF staged
<1>4. later \in Seq(T)
  BY <1>3, OnlyType
<1> HIDE DEF later
<1>5. \A e \in T : e \in StageEntry /\ e.id \in Named(r)
  BY DEF T
<1>6. ASSUME NEW id PROVE StageOf(id) \in StageEntry \cup {NoStage}
  <2>1. id \in Ids(staged) => staged[Rank(staged, id)] \in T
    BY <1>3, RankType, LenProperties, ElementOfSeq
  <2> QED BY <1>5, <2>1
<1> HIDE DEF StageOf
<1>7. /\ DOMAIN r.cands = 1..Len(r.cands) /\ Len(r.cands) \in Nat
      /\ \A i \in 1..Len(r.cands) : r.cands[i] \in Candidate /\ r.cands[i].id \in Named(r)
  BY RemovalTypes DEF Known
<1>8. \A i \in 1..Len(r.cands) : a[i] \in Sighted(r)
  BY <1>6, <1>7, EvidenceType
<1>9. a \in Seq(Sighted(r))
  <2>1. DOMAIN a = 1..Len(r.cands) /\ a = [i \in 1..Len(r.cands) |-> a[i]]
    BY <1>7
  <2> HIDE DEF a
  <2> QED BY <1>7, <1>8, <2>1, MadeSeq
<1>10. /\ DOMAIN later = 1..Len(later) /\ Len(later) \in Nat
       /\ \A i \in 1..Len(later) : later[i] \in StageEntry /\ later[i].id \in Named(r)
  BY <1>4, <1>5, LenProperties, ElementOfSeq
<1>11. \A i \in 1..Len(later) : b[i] \in Sighted(r)
  BY <1>10, EvidenceType
<1>12. b \in Seq(Sighted(r))
  BY <1>10, <1>11, MadeSeq
<1> HIDE DEF a, b
<1> QED BY <1>1, <1>9, <1>12, ConcatProperties

\* How far one unit is off.
LEMMA OffType ==
  ASSUME NEW r, IsRemoval(r), NEW e \in OnSale(r)
  PROVE  /\ DetectedOff(r, e) \in Int
         /\ e.votes \in Int /\ e.conf \in Int /\ e.sideConf \in Int
         /\ e.sideVotes \in Int /\ e.score \in Int
<1>1. e \in Sighted(r) /\ e.id \in DOMAIN r.products
  BY DEF OnSale
<1>2. r.products[e.id].weight \in Int /\ r.target \in Int
  BY <1>1, RemovalTypes
<1>3. DetectedOff(r, e) \in Int
  BY <1>2 DEF DetectedOff, DetectedUnit, Gap
<1> QED BY <1>1, <1>3 DEF Sighted

LEMMA NearestDetectedType ==
  ASSUME NEW r, IsRemoval(r), NEW found \in Seq(OnSale(r))
  PROVE  NearestDetected(r, found) \in OnSale(r) \cup {None}
<1> DEFINE keys == [i \in DOMAIN found |->
                      <<DetectedOff(r, found[i]), -found[i].votes, -found[i].conf>>]
<1>1. \A i \in DOMAIN found : found[i] \in OnSale(r)
  BY LenProperties, ElementOfSeq
<1>2. Tuples(keys, DOMAIN found, 3)
  <2>1. ASSUME NEW i \in DOMAIN found
        PROVE  keys[i] \in Seq(Int) /\ Len(keys[i]) = 3
    <3> DEFINE x == DetectedOff(r, found[i])
               y == -found[i].votes
               z == -found[i].conf
    <3>1. x \in Int /\ y \in Int /\ z \in Int
      BY <1>1, OffType
    <3>2. keys[i] = <<x, y, z>>
      OBVIOUS
    <3> HIDE DEF x, y, z, keys
    <3> QED BY <3>1, <3>2, Three
  <2> QED BY <2>1 DEF Tuples
<1>3. NearestDetected(r, found) = IF found = <<>> THEN None ELSE FirstBy(found, keys)
  BY DEF NearestDetected
<1> HIDE DEF keys
<1>4. found # <<>> => FirstBy(found, keys) \in OnSale(r)
  BY <1>1, <1>2, FirstByOneOf
<1> QED BY <1>3, <1>4

LEMMA BestBottleType ==
  ASSUME NEW r, IsRemoval(r), NEW found \in Seq(OnSale(r))
  PROVE  BestBottle(r, found) \in OnSale(r) \cup {None}
<1> DEFINE keys == [i \in DOMAIN found |->
                      <<-found[i].sideConf, -found[i].sideVotes, -found[i].score,
                        DetectedOff(r, found[i])>>]
<1>1. \A i \in DOMAIN found : found[i] \in OnSale(r)
  BY LenProperties, ElementOfSeq
<1>2. Tuples(keys, DOMAIN found, 4)
  <2>1. ASSUME NEW i \in DOMAIN found
        PROVE  keys[i] \in Seq(Int) /\ Len(keys[i]) = 4
    <3> DEFINE x == -found[i].sideConf
               y == -found[i].sideVotes
               z == -found[i].score
               w == DetectedOff(r, found[i])
    <3>1. x \in Int /\ y \in Int /\ z \in Int /\ w \in Int
      BY <1>1, OffType
    <3>2. keys[i] = <<x, y, z, w>>
      OBVIOUS
    <3> HIDE DEF x, y, z, w, keys
    <3> QED BY <3>1, <3>2, Four
  <2> QED BY <2>1 DEF Tuples
<1>3. BestBottle(r, found) = IF found = <<>> THEN None ELSE FirstBy(found, keys)
  BY DEF BestBottle
<1> HIDE DEF keys
<1>4. found # <<>> => FirstBy(found, keys) \in OnSale(r)
  BY <1>1, <1>2, FirstByOneOf
<1> QED BY <1>3, <1>4

\* One unit of a class with evidence (_detected_single_fallback).
LEMMA DetectedSound ==
  ASSUME NEW r, IsRemoval(r)
  PROVE  Sound(r, DetectedSingle(r))
<1> DEFINE all == DetectedEvidence(r)
           S == {e \in ToSet(all) : e.id \in DOMAIN r.products /\ r.products[e.id].loadcell}
           found == Only(all, S)
           P == {e \in ToSet(found) :
                   /\ Sellable(r, e.id)
                   /\ e.source = "threshold_rescue" /\ ~e.staged => e.motion \/ e.fits
                   /\ e.trusted \/ e.votes >= DetectedSingleMinVotes
                   /\ DetectedOff(r, e) <= DetectedSingleTolerance}
           Q == {e \in ToSet(found) : /\ StrongBottle(e, DetectedUnit(r, e))
                                     /\ DetectedOff(r, e) <= IdentitySlack}
           normal == NearestDetected(r, Only(found, P))
           bottle == BestBottle(r, Only(found, Q))
           chosen == SelectDetected(r, normal, bottle)
<1>1. DetectedSingle(r) = IF r.target < MinWeightChange THEN None ELSE SingleOf(r, chosen)
  BY DEF DetectedSingle, DetectedAmong
<1>2. all \in Seq(Sighted(r))
  BY DetectedType
<1> HIDE DEF all
<1>3. Sighted(r) \cap S \subseteq OnSale(r)
  BY DEF OnSale
<1> HIDE DEF S
<1>4. found \in Seq(Sighted(r) \cap S)
  BY <1>2, OnlyWithin
<1> HIDE DEF found, P, Q
<1>5. found \in Seq(OnSale(r))
  BY <1>3, <1>4, WiderSeq
<1>6. Only(found, P) \in Seq(OnSale(r)) /\ Only(found, Q) \in Seq(OnSale(r))
  BY <1>5, OnlyType
<1>7. normal \in OnSale(r) \cup {None} /\ bottle \in OnSale(r) \cup {None}
  BY <1>6, NearestDetectedType, BestBottleType
<1>8. chosen = normal \/ chosen = bottle
  BY DEF SelectDetected
<1> HIDE DEF normal, bottle, chosen
<1>9. chosen \in OnSale(r) \cup {None}
  BY <1>7, <1>8
<1>10. Sound(r, SingleOf(r, chosen))
  <2>1. CASE chosen = None
    BY <2>1, NoneSound DEF SingleOf
  <2>2. CASE chosen # None
    <3>1. chosen.id \in Named(r) \cap DOMAIN r.products
      BY <1>9, <2>2 DEF OnSale, Sighted
    <3>2. SingleOf(r, chosen) =
            Single("complete", chosen.id, 1, r.products[chosen.id].weight)
      BY <2>2 DEF SingleOf, DetectedUnit
    <3> QED BY <3>1, <3>2, OneUnitSound
  <2> QED BY <2>1, <2>2
<1> QED BY <1>1, <1>10, NoneSound

-----------------------------------------------------------------------------
(* Stage evidence among the candidates *)

\* Another candidate of the same class in a place.
LEMMA Replaced ==
  ASSUME NEW T, NEW s \in Seq(T), OneEach(s), NEW k \in DOMAIN s, NEW w \in T,
         w.id = s[k].id
  PROVE  [s EXCEPT ![k] = w] \in Seq(T) /\ OneEach([s EXCEPT ![k] = w])
<1> DEFINE t == [s EXCEPT ![k] = w]
<1>1. /\ Len(s) \in Nat /\ DOMAIN s = 1..Len(s)
      /\ \A i \in 1..Len(s) : s[i] \in T
  BY LenProperties, ElementOfSeq
<1>2. \A i \in 1..Len(s) : t[i] = IF i = k THEN w ELSE s[i]
  BY <1>1
<1>3. DOMAIN t = 1..Len(s) /\ t = [i \in 1..Len(s) |-> t[i]]
  BY <1>1
<1> HIDE DEF t
<1>4. t \in Seq(T)
  BY <1>1, <1>2, <1>3, MadeSeq
<1>5. \A i \in 1..Len(s) : t[i].id = s[i].id
  BY <1>2
<1>6. OneEach(t)
  BY <1>1, <1>3, <1>5 DEF OneEach
<1> QED BY <1>4, <1>6 DEF t

\* Different candidates of classes that were named.
Lists(r) == {s \in Seq(Known(r)) : OneEach(s)}

\* An entry the weight supports joins the candidates.
LEMMA JoiningType ==
  ASSUME NEW r, IsRemoval(r), NEW cands \in Lists(r), NEW e \in StageEntry, e.id \in Named(r)
  PROVE  Joining(r, cands, e) \in Lists(r)
<1> DEFINE w == AsCandidate(e, "stage_weight_gate", e.motion)
           k == Rank(cands, e.id)
<1>1. w \in Known(r) /\ w.id = e.id
  <2>1. "stage_weight_gate" \in Sources /\ e.motion \in BOOLEAN
    BY DEF Sources, StageEntry
  <2> QED BY <2>1, AsCandidateType
<1>2. cands \in Seq(Known(r)) /\ OneEach(cands)
  BY DEF Lists
<1>3. \/ Joining(r, cands, e) = cands
      \/ e.id \notin Ids(cands) /\ Joining(r, cands, e) = Append(cands, w)
      \/ e.id \in Ids(cands) /\ Joining(r, cands, e) = [cands EXCEPT ![k] = w]
  BY DEF Joining
<1> HIDE DEF w, k
<1>4. ASSUME e.id \notin Ids(cands) PROVE Append(cands, w) \in Lists(r)
  <2>1. OneEach(Append(cands, w))
    BY <1>1, <1>2, <1>4, OneMore
  <2> QED BY <1>1, <1>2, <2>1, AppendProperties DEF Lists
<1>5. ASSUME e.id \in Ids(cands) PROVE [cands EXCEPT ![k] = w] \in Lists(r)
  <2>1. k \in DOMAIN cands /\ cands[k].id = e.id
    BY <1>5, RankType DEF k
  <2>2. [cands EXCEPT ![k] = w] \in Seq(Known(r)) /\ OneEach([cands EXCEPT ![k] = w])
    BY <1>1, <1>2, <2>1, Replaced
  <2> QED BY <2>2 DEF Lists
<1> QED BY <1>3, <1>4, <1>5

\* So do they all, one after the other (_augment_stage_weight_gate).
LEMMA AugmentedCands ==
  ASSUME NEW r, IsRemoval(r)
  PROVE  FoldLeft(LAMBDA cands, e : Joining(r, cands, e), r.cands, r.stage) \in Lists(r)
<1> DEFINE n == Len(r.stage)
           V == Lists(r)
           b == r.cands
           Step(i, v) == Joining(r, v, r.stage[i])
           G == [p \in (1..n) \X V |-> Step(p[1], p[2])]
           Eq(F) == F = [X \in SUBSET (1..n) |->
                           IF X = {} THEN b ELSE Step(Max(X), F[X \ {Max(X)}])]
           H == CHOOSE F : Eq(F)
<1>1. n \in Nat /\ DOMAIN r.stage = 1..n
  BY RemovalTypes
<1>2. FoldLeft(LAMBDA cands, e : Joining(r, cands, e), r.cands, r.stage) = H[1..n]
  BY <1>1 DEF FoldLeft, MapThenFoldSet
<1>3. b \in V
  BY RemovalTypes DEF IsRemoval, Lists
<1>4. \A i \in 1..n, v \in V : Step(i, v) \in V
  BY <1>1, RemovalTypes, JoiningType
<1> HIDE DEF V, Step, b
<1>5. \A k \in 1..n, v \in V : G[<<k, v>>] = Step(k, v) /\ Step(k, v) \in V
  BY <1>4
<1>6. Steps(n, V, G)
  BY <1>5 DEF Steps
<1>7. \A X \in SUBSET (1..n) : X # {} => Max(X) \in 1..n
  BY <1>1, MaxOfPlaces
<1> HIDE DEF G, n
<1>8. Eq(H)
  <2>1. PICK F : F \in Folds(n, V, b, G)
    BY <1>1, <1>3, <1>6, FoldExists
  <2>2. ASSUME NEW X \in SUBSET (1..n)
        PROVE  F[X] = IF X = {} THEN b ELSE Step(Max(X), F[X \ {Max(X)}])
    <3>1. F[X] = IF X = {} THEN b ELSE G[<<Max(X), F[X \ {Max(X)}]>>]
      BY <2>1 DEF Folds
    <3>2. X # {} => Max(X) \in 1..n /\ F[X \ {Max(X)}] \in V
      BY <1>7, <2>1 DEF Folds
    <3> QED BY <1>5, <3>1, <3>2
  <2>3. Eq(F)
    BY <2>1, <2>2 DEF Folds
  <2> QED BY <2>3
<1>9. H[{}] = b
  BY <1>8
<1>10. ASSUME NEW X \in SUBSET (1..n), X # {}, H[X \ {Max(X)}] \in V
       PROVE  H[X] = G[<<Max(X), H[X \ {Max(X)}]>>]
  <2>1. H[X] = Step(Max(X), H[X \ {Max(X)}])
    BY <1>8, <1>10
  <2>2. Max(X) \in 1..n
    BY <1>7, <1>10
  <2> HIDE DEF H
  <2> QED BY <1>5, <1>10, <2>1, <2>2
<1> HIDE DEF H
<1>11. PICK h : h \in States(n, V, b, G, H[1..n])
  <2>1. FollowsSteps(H, n, V, b, G)
    BY <1>9, <1>10 DEF FollowsSteps
  <2> QED BY <1>1, <1>3, <1>6, <2>1, FoldStates
<1>12. H[1..n] \in V
  <2>1. n \in 0..n /\ h \in [0..n -> V] /\ h[n] = H[1..n]
    BY <1>1, <1>11 DEF States
  <2> QED BY <2>1
<1> QED BY <1>2, <1>12 DEF V

\* The removal as the engine matches it names nothing new.
LEMMA AugmentedType ==
  ASSUME NEW r, IsRemoval(r)
  PROVE  LET a == AugmentStageWeightGate(r)
         IN  /\ IsRemoval(a) /\ Named(a) \subseteq Named(r)
             /\ a.products = r.products /\ a.target = r.target
<1> DEFINE cands == FoldLeft(LAMBDA cs, e : Joining(r, cs, e), r.cands, r.stage)
           a == [r EXCEPT !.cands = cands]
<1>1. AugmentStageWeightGate(r) = a
  BY DEF AugmentStageWeightGate
<1>2. cands \in Seq(Known(r)) /\ OneEach(cands)
  BY AugmentedCands DEF Lists
<1> HIDE DEF cands
<1>3. cands \in Seq(Candidate)
  <2>1. Known(r) \subseteq Candidate
    BY DEF Known
  <2> QED BY <1>2, <2>1, WiderSeq
<1>4. DOMAIN r = {"target", "cands", "products", "stage", "segments", "returned"}
  BY DEF IsRemoval
<1>5. /\ DOMAIN a = DOMAIN r /\ a.cands = cands /\ a.target = r.target
      /\ a.products = r.products /\ a.stage = r.stage /\ a.segments = r.segments
      /\ a.returned = r.returned
  BY <1>4
<1> HIDE DEF a
<1>6. IsRemoval(a)
  BY <1>2, <1>3, <1>5 DEF IsRemoval
<1>7. Ids(cands) \subseteq Named(r)
  BY <1>2, LenProperties, ElementOfSeq DEF Ids, Known
<1>8. Named(a) \subseteq Named(r)
  BY <1>5, <1>7 DEF Named
<1> QED BY <1>1, <1>5, <1>6, <1>8

-----------------------------------------------------------------------------
(* The cascade *)

\* Without candidates.
LEMMA WithoutSound ==
  ASSUME NEW r, IsRemoval(r)
  PROVE  Sound(r, JudgeWithoutCandidates(r))
<1> DEFINE a == EnforceFullDelta(r, StageCountCombination(r), "stage_combination")
           b == EnforceFullDelta(r, DetectedSingle(r), "detected_single")
           c == Nothing("no_detection")
<1>1. Sound(r, a) /\ Sound(r, b) /\ Sound(r, c)
  BY StageCombinationSound, DetectedSound, EnforcedSound, NoneSound
<1>2. JudgeWithoutCandidates(r) = a ?? b ?? c
  BY DEF JudgeWithoutCandidates
<1> HIDE DEF a, b, c
<1> QED BY <1>1, <1>2, OrElseSound

\* The end of the cascade.
LEMMA SettledSound ==
  ASSUME NEW r, IsRemoval(r), NEW relaxed, Sound(r, relaxed)
  PROVE  Sound(r, Settle(r, relaxed))
<1> DEFINE a == IF relaxed.status = "complete" THEN None ELSE VisionFirstPartial(r)
           b == IF IsSuccess(relaxed) THEN None
                ELSE EnforceFullDelta(r, DetectedSingle(r), "detected_single")
           c == EnforceFullDelta(r, Suppress(relaxed), "relaxed")
<1>1. Sound(r, a)
  BY VisionFirstSound, NoneSound
<1>2. Sound(r, b)
  BY DetectedSound, EnforcedSound, NoneSound
<1>3. Sound(r, Suppress(relaxed))
  BY NoneSound DEF Suppress
<1>4. Sound(r, c)
  BY <1>3, EnforcedSound
<1>5. Settle(r, relaxed) = a ?? b ?? c
  BY DEF Settle
<1> HIDE DEF a, b, c
<1> QED BY <1>1, <1>2, <1>4, <1>5, OrElseSound

\* Whatever branch decides (judge).
LEMMA CascadeSound ==
  ASSUME NEW r, IsRemoval(r)
  PROVE  Sound(r, JudgeCascade(r))
<1> DEFINE a == EnforceFullDelta(r, SameWeightCollisionGuard(r), "same_weight")
           b == EnforceFullDelta(r, JudgeStrict(r), "strict_match")
           c == EnforceFullDelta(r, SameProductCountMatch(r), "same_product")
           d == Settle(r, JudgeRelaxed(r))
<1>1. Sound(r, a) /\ Sound(r, b) /\ Sound(r, c)
  BY CollisionSound, StrictSound, RepeatMatchSound, EnforcedSound
<1>2. Sound(r, d)
  BY RelaxedSound, SettledSound
<1>3. JudgeCascade(r) = IF r.cands = <<>> THEN JudgeWithoutCandidates(r)
                        ELSE IF r.target < MinWeightChange THEN Nothing("no_detection")
                        ELSE a ?? b ?? c ?? d
  BY DEF JudgeCascade
<1> HIDE DEF a, b, c, d
<1>4. Sound(r, a ?? b ?? c ?? d)
  BY <1>1, <1>2, OrElseSound
<1> QED BY <1>3, <1>4, WithoutSound, NoneSound

LEMMA JudgeSound ==
  ASSUME NEW r, IsRemoval(r)
  PROVE  Sound(r, Judge(r))
<1> DEFINE a == AugmentStageWeightGate(r)
<1>1. IsRemoval(a) /\ Named(a) \subseteq Named(r) /\ a.products = r.products
  BY AugmentedType
<1>2. Judge(r) = JudgeCascade(a)
  BY DEF Judge
<1> HIDE DEF a
<1>3. Sound(a, Judge(r))
  BY <1>1, <1>2, CascadeSound
<1>4. Billable(a) \subseteq Billable(r)
  BY <1>1 DEF Billable, Affordable
<1> QED BY <1>3, <1>4, WiderSeq DEF Sound

\* What is stored names products in stock, each once.
LEMMA StoredSound ==
  ASSUME NEW r, NEW res, Sound(r, res)
  PROVE  LET items == ProductsForStorage(r, res)
         IN  /\ OneEach(items)
             /\ \A i \in DOMAIN items : /\ items[i].id \in Named(r)
                                        /\ items[i].id \in DOMAIN r.products
                                        /\ items[i].n \in Nat \ {0}
                                        /\ items[i].n <= r.products[items[i].id].stock
<1> DEFINE S == {item \in ToSet(res.items) :
                   DOMAIN r.products = {} \/ (/\ item.id \in DOMAIN r.products
                                              /\ r.products[item.id].stock > 0)}
           items == ProductsForStorage(r, res)
           T == Billable(r) \cap S
<1>1. items = IF ~IsSuccess(res) THEN <<>> ELSE Only(res.items, S)
  BY DEF ProductsForStorage
<1>2. \A e \in T : /\ e.id \in Named(r) /\ e.id \in DOMAIN r.products
                   /\ e.n \in Nat \ {0} /\ e.n <= r.products[e.id].stock
  BY DEF Billable, Affordable
<1> HIDE DEF S, items
<1>3. Only(res.items, S) \in Seq(T) /\ OneEach(Only(res.items, S))
  BY OnlyWithin, OnlyOneEach DEF Sound
<1> HIDE DEF T
<1>4. items \in Seq(T) /\ OneEach(items)
  BY <1>1, <1>3, EmptySeq DEF OneEach
<1>5. \A i \in DOMAIN items : items[i] \in T
  BY <1>4, LenProperties, ElementOfSeq
<1> QED BY <1>2, <1>4, <1>5 DEF items

-----------------------------------------------------------------------------
(* What a bill weighs *)

\* As Weighs and the rest of BillWeighsOrIsOneSeen, of a result.
WeighsFor(r, items) ==
  Gap(r.target, ItemWeight(items)) <= CountScaledTolerance(UnitCount(items) + 1)

OneSeen(r, res) ==
  /\ res.status = "partial" /\ UnitCount(res.items) = 1
  /\ \E i \in DOMAIN r.cands : r.cands[i].id = res.items[1].id /\ VisionIdentity(r.cands[i])

Fair(r, res) ==
  IsSuccess(res) /\ res.items # <<>> => WeighsFor(r, res.items) \/ OneSeen(r, res)

\* The units and the weight of what is billed.
LEMMA ItemTypes ==
  ASSUME NEW r, NEW items \in Seq(Billable(r))
  PROVE  /\ UnitCount(items) \in Nat /\ ItemWeight(items) \in Nat
         /\ items # <<>> => UnitCount(items) >= 1
<1> DEFINE n == Len(items)
           counts == [i \in DOMAIN items |-> items[i].n]
           weights == [i \in DOMAIN items |-> items[i].n * items[i].unit]
<1>1. n \in Nat /\ DOMAIN items = 1..n /\ \A i \in 1..n : items[i] \in Billable(r)
  BY LenProperties, ElementOfSeq
<1>2. \A i \in 1..n : items[i].n \in Nat \ {0} /\ items[i].unit \in Nat
  BY <1>1 DEF Billable
<1>3. \A i \in 1..n : items[i].n * items[i].unit \in Nat
  BY <1>2
<1>4. counts \in Seq(Nat) /\ Len(counts) = n /\ \A i \in 1..n : counts[i] = items[i].n
  <2>1. counts \in [1..n -> Nat] /\ DOMAIN counts = 1..n
    BY <1>1, <1>2
  <2>2. \A i \in 1..n : counts[i] = items[i].n
    BY <1>1
  <2> HIDE DEF counts, n
  <2> QED BY <1>1, <2>1, <2>2
<1>5. weights \in Seq(Nat)
  BY <1>1, <1>3
<1>6. items # <<>> => n >= 1
  BY <1>1, EmptySeq
<1>7. UnitCount(items) = SumOf(counts) /\ ItemWeight(items) = SumOf(weights)
  BY DEF UnitCount, ItemWeight
<1> HIDE DEF counts, weights, n
<1>8. SumOf(counts) \in Nat /\ \A k \in 1..n : counts[k] <= SumOf(counts)
  BY <1>4, SumOfNaturals
<1>9. SumOf(weights) \in Nat
  BY <1>5, SumOfNaturals
<1>10. ASSUME n >= 1 PROVE SumOf(counts) >= 1
  <2>1. 1 \in 1..n /\ counts[1] \in Nat \ {0}
    BY <1>1, <1>2, <1>4, <1>10
  <2> QED BY <1>8, <2>1
<1> QED BY <1>6, <1>7, <1>8, <1>9, <1>10

\* One more unit is allowed so many grams more.
LEMMA SlackGrows ==
  ASSUME NEW n \in Nat
  PROVE  /\ CountScaledTolerance(n) \in Nat /\ ToleranceGrams <= CountScaledTolerance(n)
         /\ CountScaledTolerance(n) <= CountScaledTolerance(n + 1)
         /\ n >= 1 => CountScaledTolerance(2) <= CountScaledTolerance(n + 1)
<1> DEFINE a == SameProductTolerance
<1>1. a \in Nat /\ ToleranceGrams \in Nat
  BY ConstantTypes
<1>2. \A k \in Nat : CountScaledTolerance(k) = ToleranceGrams + a * k
  BY DEF CountScaledTolerance
<1> HIDE DEF a
<1>3. a * n \in Nat /\ a * (n + 1) = a * n + a
  BY <1>1
<1>4. ASSUME n >= 1 PROVE a * 2 <= a * (n + 1)
  <2>1. n - 1 \in Nat /\ a * (n - 1) \in Nat /\ a * (n + 1) = a * 2 + a * (n - 1)
    BY <1>1, <1>4
  <2> QED BY <1>1, <2>1
<1> QED BY <1>1, <1>2, <1>3, <1>4

\* No branch is allowed more than that.
LEMMA SlackBounds ==
  ASSUME NEW r, NEW items \in Seq(Billable(r)), items # <<>>, NEW branch
  PROVE  /\ FullDeltaTolerance(items, branch) \in Nat
         /\ FullDeltaTolerance(items, branch) <= CountScaledTolerance(UnitCount(items) + 1)
<1> DEFINE n == UnitCount(items)
<1>1. n \in Nat /\ n >= 1
  BY ItemTypes
<1>2. FullDeltaTolerance(items, branch) \in
        {CountScaledTolerance(n), CountScaledTolerance(n + 1), ToleranceGrams,
         Most(ToleranceGrams, Most(DetectedSingleTolerance, RescueTolerance))}
  <2>1. n + 0 = n
    BY <1>1
  <2> HIDE DEF n
  <2> QED BY <2>1 DEF FullDeltaTolerance, n
<1> HIDE DEF n
<1>3. /\ CountScaledTolerance(n) \in Nat /\ CountScaledTolerance(n + 1) \in Nat
      /\ CountScaledTolerance(n) <= CountScaledTolerance(n + 1)
      /\ CountScaledTolerance(2) <= CountScaledTolerance(n + 1)
      /\ ToleranceGrams \in Nat /\ ToleranceGrams <= CountScaledTolerance(n + 1)
  <2>1. n + 1 \in Nat
    BY <1>1
  <2> QED BY <1>1, <2>1, SlackGrows, ConstantTypes
<1>4. CountScaledTolerance(2) \in Nat
  BY SlackGrows
<1>5. Most(ToleranceGrams, Most(DetectedSingleTolerance, RescueTolerance)) \in Nat
      /\ Most(ToleranceGrams, Most(DetectedSingleTolerance, RescueTolerance))
           <= CountScaledTolerance(n + 1)
  BY <1>3, <1>4, SlackAssumption DEF Most
<1> QED BY <1>2, <1>3, <1>5 DEF n

\* What passes the last guard weighs what is gone (_enforce_full_delta_match).
LEMMA EnforcedFair ==
  ASSUME NEW r, IsRemoval(r), NEW res, Sound(r, res), NEW branch,
         r.target < MinWeightChange => Fair(r, res)
  PROVE  Fair(r, EnforceFullDelta(r, res, branch))
<1> DEFINE w == ItemWeight(res.items)
           explained == IF w > 0 THEN w ELSE Most(0, res.explained)
           given == EnforceFullDelta(r, res, branch)
<1>1. \/ given.items = <<>>
      \/ given = res /\ ~IsSuccess(res)
      \/ given = res /\ r.target < MinWeightChange
      \/ given = res /\ Gap(r.target, explained) <= FullDeltaTolerance(res.items, branch)
  BY DEF EnforceFullDelta
<1>2. ASSUME IsSuccess(res), res.items # <<>>,
             Gap(r.target, explained) <= FullDeltaTolerance(res.items, branch)
      PROVE  WeighsFor(r, res.items)
  <2>1. res.items \in Seq(Billable(r)) /\ res.explained = w
    BY <1>2 DEF Sound
  <2>2. w \in Nat /\ UnitCount(res.items) \in Nat
    BY <2>1, ItemTypes
  <2> HIDE DEF w
  <2>3. explained = w
    BY <2>1, <2>2 DEF Most
  <2>4. r.target \in Nat
    BY RemovalTypes
  <2>5. Gap(r.target, w) \in Int
    BY <2>2, <2>4 DEF Gap
  <2>6. CountScaledTolerance(UnitCount(res.items) + 1) \in Nat
    BY <2>2, SlackGrows
  <2>7. /\ FullDeltaTolerance(res.items, branch) \in Nat
        /\ FullDeltaTolerance(res.items, branch)
             <= CountScaledTolerance(UnitCount(res.items) + 1)
    BY <1>2, <2>1, SlackBounds
  <2>8. Gap(r.target, w) <= FullDeltaTolerance(res.items, branch)
    BY <1>2, <2>3
  <2> HIDE DEF explained
  <2>9. Gap(r.target, w) <= CountScaledTolerance(UnitCount(res.items) + 1)
    BY <2>5, <2>6, <2>7, <2>8
  <2> QED BY <2>9 DEF WeighsFor, w
<1> HIDE DEF given, explained, w
<1>3. Fair(r, given)
  BY <1>1, <1>2 DEF Fair
<1> QED BY <1>3 DEF given

\* Several units are found by their weight.
LEMMA SeveralFair ==
  ASSUME NEW r, IsRemoval(r), NEW cands \in Seq(Known(r)), OneEach(cands)
  PROVE  Fair(r, BestOfSeveral(r, cands))
<1> DEFINE combos == FindValidCombinations(cands, r.target, r.products, StrictMaxItems(r))
           several == Only(combos, {combo \in ToSet(combos) : UnitsOf(combo) >= 2})
           best == BestCombination(r, several)
           res == BestOfSeveral(r, cands)
<1>1. combos \in Seq(Exact(r, r.target))
  <2>1. StrictMaxItems(r) \in Int
    BY LimitTypes
  <2> QED BY <2>1, FoundType
<1>2. res = IF several = <<>> THEN None ELSE FromCombo(best)
  BY DEF BestOfSeveral, FromBest
<1> HIDE DEF combos
<1>3. several \in Seq(Exact(r, r.target))
  BY <1>1, OnlyType
<1> HIDE DEF several
<1>4. ASSUME several # <<>> PROVE best \in Exact(r, r.target)
  <2>1. several \in Seq(Combos(r))
    <3>1. Exact(r, r.target) \subseteq Combos(r)
      BY DEF Exact
    <3> QED BY <1>3, <3>1, WiderSeq
  <2>2. PICK i \in DOMAIN several : best = several[i]
    BY <1>4, <2>1, FromBestSound
  <2> HIDE DEF best
  <2> QED BY <1>3, <2>2, LenProperties, ElementOfSeq
<1> HIDE DEF best
<1>5. ASSUME several # <<>> PROVE WeighsFor(r, FromCombo(best).items)
  <2> DEFINE items == FromCombo(best).items
  <2>1. best \in Combos(r) /\ ErrorOf(best, r.target) <= ToleranceGrams
    BY <1>4, <1>5 DEF Exact
  <2>2. IsSuccess(FromCombo(best)) /\ FromCombo(best).explained = WeightOf(best)
    BY DEF FromCombo, IsSuccess
  <2>3. items \in Seq(Billable(r)) /\ ItemWeight(items) = WeightOf(best)
    BY <2>1, <2>2, FromComboSound DEF Sound
  <2> HIDE DEF items
  <2>4. ItemWeight(items) \in Nat /\ UnitCount(items) + 1 \in Nat /\ r.target \in Nat
    BY <2>3, ItemTypes, RemovalTypes
  <2>5. Gap(r.target, ItemWeight(items)) <= ToleranceGrams
    BY <2>1, <2>3, <2>4 DEF ErrorOf, Gap
  <2>6. /\ CountScaledTolerance(UnitCount(items) + 1) \in Nat
        /\ ToleranceGrams <= CountScaledTolerance(UnitCount(items) + 1)
    BY <2>4, SlackGrows
  <2>7. Gap(r.target, ItemWeight(items)) \in Int /\ ToleranceGrams \in Nat
    BY <2>4, ConstantTypes DEF Gap
  <2> QED BY <2>5, <2>6, <2>7 DEF WeighsFor, items
<1>6. Fair(r, res)
  BY <1>2, <1>5 DEF Fair, None
<1> QED BY <1>6

\* A result of nothing.
LEMMA NothingFair ==
  ASSUME NEW r
  PROVE  Fair(r, None) /\ \A status : Fair(r, Nothing(status))
BY DEF Fair, None, Nothing

\* The first of two attempts.
LEMMA OrElseFair ==
  ASSUME NEW r, NEW a, NEW b, Fair(r, a), Fair(r, b)
  PROVE  Fair(r, a ?? b)
BY DEF ??

LEMMA StageCombinationFair ==
  ASSUME NEW r, IsRemoval(r)
  PROVE  Fair(r, StageCountCombination(r))
<1>1. Fair(r, BestOfSeveral(r, StageMerged(r)))
  BY StageMergedType, SeveralFair
<1> QED BY <1>1, NothingFair DEF StageCountCombination

\* What one item counts and weighs.
LEMMA OneItem ==
  ASSUME NEW id, NEW n \in Int, NEW unit
  PROVE  UnitCount(<<Item(id, n, unit)>>) = n
<1> DEFINE one == <<Item(id, n, unit)>>
<1>1. [i \in DOMAIN one |-> one[i].n] = <<n>>
  BY DEF Item
<1> HIDE DEF one
<1>2. UnitCount(one) = n
  BY <1>1, SumOfOne DEF UnitCount
<1> QED BY <1>2 DEF one

\* Identity decides: as many as weigh right, or one (_vision_first_partial).
LEMMA VisionFirstFair ==
  ASSUME NEW r, IsRemoval(r)
  PROVE  Fair(r, VisionFirstPartial(r))
<1> DEFINE m == CHOOSE i \in Believed(r) : \A j \in Believed(r) : i <= j
           c == r.cands[m]
           id == c.id
           unit == r.products[c.id].weight
           cap == Least(Most(1, Least(Least(r.products[c.id].stock, MaxCountPerItem),
                                      Most(2, SameProductMax))), SegmentGripLimit(r))
           n == Least(NearestCount(r.target, unit), cap)
           weighs == /\ NearestCount(r.target, unit) <= cap
                     /\ Gap(r.target, unit * n)
                          <= FullDeltaTolerance(<<Item(c.id, n, unit)>>, "vision_first")
           res == VisionFirstPartial(r)
<1>1. \/ res = None
      \/ Believed(r) # {} /\ res = Single("partial", id, 1, unit)
      \/ Believed(r) # {} /\ weighs /\ res = Single("complete", id, n, unit)
  BY DEF VisionFirstPartial, IdentityCount
<1>2. Sound(r, res)
  BY VisionFirstSound
<1>3. ASSUME Believed(r) # {}
      PROVE  m \in DOMAIN r.cands /\ VisionIdentity(r.cands[m])
  <2>1. Believed(r) \in SUBSET DOMAIN r.cands
    BY DEF Believed
  <2>2. m \in Believed(r)
    BY <1>3, <2>1, FirstOfRanks
  <2> HIDE DEF m
  <2> QED BY <2>2 DEF Believed
<1>4. weighs => Gap(r.target, unit * n)
                  <= FullDeltaTolerance(<<Item(id, n, unit)>>, "vision_first")
  OBVIOUS
<1>5. id = r.cands[m].id
  OBVIOUS
<1> HIDE DEF m, id, unit, n, weighs, res
<1>6. ASSUME Believed(r) # {}, res = Single("partial", id, 1, unit)
      PROVE  OneSeen(r, res)
  <2>1. /\ res.status = "partial" /\ res.items = <<Item(id, 1, unit)>>
        /\ res.items[1].id = id
    BY <1>6 DEF Single, Item
  <2>2. UnitCount(res.items) = 1
    BY <2>1, OneItem
  <2> QED BY <1>3, <1>5, <1>6, <2>1, <2>2 DEF OneSeen
<1>7. ASSUME weighs, res = Single("complete", id, n, unit)
      PROVE  WeighsFor(r, res.items)
  <2> DEFINE items == <<Item(id, n, unit)>>
  <2>1. /\ IsSuccess(res) /\ res.items = items /\ res.explained = unit * n
    BY <1>7 DEF Single, IsSuccess
  <2>2. items # <<>>
    OBVIOUS
  <2>3. Gap(r.target, unit * n) <= FullDeltaTolerance(items, "vision_first")
    BY <1>4, <1>7
  <2> HIDE DEF items
  <2>4. items \in Seq(Billable(r)) /\ ItemWeight(items) = unit * n
    BY <1>2, <2>1 DEF Sound
  <2>5. ItemWeight(items) \in Nat /\ UnitCount(items) + 1 \in Nat /\ r.target \in Nat
    BY <2>4, ItemTypes, RemovalTypes
  <2>6. /\ FullDeltaTolerance(items, "vision_first") \in Nat
        /\ FullDeltaTolerance(items, "vision_first")
             <= CountScaledTolerance(UnitCount(items) + 1)
        /\ CountScaledTolerance(UnitCount(items) + 1) \in Nat
    BY <2>2, <2>4, <2>5, SlackBounds, SlackGrows
  <2>7. Gap(r.target, ItemWeight(items)) \in Int
    BY <2>5 DEF Gap
  <2>8. Gap(r.target, ItemWeight(items)) <= FullDeltaTolerance(items, "vision_first")
    BY <2>3, <2>4
  <2>9. Gap(r.target, ItemWeight(items)) <= CountScaledTolerance(UnitCount(items) + 1)
    BY <2>6, <2>7, <2>8
  <2> QED BY <2>1, <2>9 DEF WeighsFor
<1>8. Fair(r, res)
  BY <1>1, <1>6, <1>7, NothingFair DEF Fair
<1> QED BY <1>8 DEF res

\* The cascade, branch by branch (judge).
LEMMA CascadeFair ==
  ASSUME NEW r, IsRemoval(r)
  PROVE  Fair(r, JudgeCascade(r))
<1> DEFINE relaxed == JudgeRelaxed(r)
           single == DetectedSingle(r)
           a == EnforceFullDelta(r, SameWeightCollisionGuard(r), "same_weight")
           b == EnforceFullDelta(r, JudgeStrict(r), "strict_match")
           c == EnforceFullDelta(r, SameProductCountMatch(r), "same_product")
           d == Settle(r, relaxed)
           e == EnforceFullDelta(r, StageCountCombination(r), "stage_combination")
           f == EnforceFullDelta(r, single, "detected_single")
<1>1. r.target < MinWeightChange => Fair(r, single)
  BY NothingFair DEF DetectedSingle
<1>2. Fair(r, f)
  BY <1>1, DetectedSound, EnforcedFair
<1>3. Fair(r, JudgeWithoutCandidates(r))
  <2>1. Fair(r, e)
    BY StageCombinationSound, StageCombinationFair, EnforcedFair
  <2>2. JudgeWithoutCandidates(r) = e ?? f ?? Nothing("no_detection")
    BY DEF JudgeWithoutCandidates
  <2> HIDE DEF e, f
  <2> QED BY <1>2, <2>1, <2>2, OrElseFair, NothingFair
<1>4. ASSUME ~(r.target < MinWeightChange) PROVE Fair(r, a ?? b ?? c ?? d)
  <2>1. Fair(r, a)
    BY <1>4, CollisionSound, EnforcedFair
  <2>2. Fair(r, b)
    BY <1>4, StrictSound, EnforcedFair
  <2>3. Fair(r, c)
    BY <1>4, RepeatMatchSound, EnforcedFair
  <2>4. Fair(r, d)
    <3> DEFINE g == IF relaxed.status = "complete" THEN None ELSE VisionFirstPartial(r)
               h == IF IsSuccess(relaxed) THEN None ELSE f
               k == EnforceFullDelta(r, Suppress(relaxed), "relaxed")
    <3>1. Fair(r, g)
      BY VisionFirstFair, NothingFair
    <3>2. Fair(r, h)
      BY <1>2, NothingFair
    <3>3. Fair(r, k)
      <4>1. Sound(r, Suppress(relaxed))
        BY RelaxedSound, NoneSound DEF Suppress
      <4> QED BY <1>4, <4>1, EnforcedFair
    <3>4. d = g ?? h ?? k
      BY DEF Settle
    <3> HIDE DEF d, g, h, k
    <3> QED BY <3>1, <3>2, <3>3, <3>4, OrElseFair
  <2> HIDE DEF a, b, c, d
  <2> QED BY <2>1, <2>2, <2>3, <2>4, OrElseFair
<1>5. JudgeCascade(r) = IF r.cands = <<>> THEN JudgeWithoutCandidates(r)
                        ELSE IF r.target < MinWeightChange THEN Nothing("no_detection")
                        ELSE a ?? b ?? c ?? d
  BY DEF JudgeCascade
<1> HIDE DEF a, b, c, d
<1> QED BY <1>3, <1>4, <1>5, NothingFair

\* Nothing is dropped of what is in stock.
LEMMA AllStored ==
  ASSUME NEW r, NamedInStock(r), NEW res, Sound(r, res), IsSuccess(res)
  PROVE  ProductsForStorage(r, res) = res.items
<1> DEFINE S == {item \in ToSet(res.items) :
                   DOMAIN r.products = {} \/ (/\ item.id \in DOMAIN r.products
                                              /\ r.products[item.id].stock > 0)}
           T == Billable(r) \cap S
<1>1. ProductsForStorage(r, res) = Only(res.items, S)
  BY DEF ProductsForStorage
<1>2. res.items \in Seq(Billable(r)) /\ Len(res.items) \in Nat
      /\ DOMAIN res.items = 1..Len(res.items)
      /\ \A i \in 1..Len(res.items) : res.items[i] \in Billable(r)
  BY LenProperties, ElementOfSeq DEF Sound
<1>3. \A e \in Billable(r) : e.id \in DOMAIN r.products /\ r.products[e.id].stock > 0
  BY DEF Billable, NamedInStock, Named
<1>4. \A i \in 1..Len(res.items) : res.items[i] \in T
  BY <1>2, <1>3 DEF ToSet
<1> HIDE DEF S
<1>5. res.items \in Seq(T)
  <2> DEFINE s == res.items
  <2>1. s = [i \in 1..Len(s) |-> s[i]] /\ DOMAIN s = 1..Len(s)
    BY <1>2
  <2> HIDE DEF T, s
  <2> QED BY <1>2, <1>4, <2>1, MadeSeq DEF s
<1> QED BY <1>1, <1>5, OnlyOfAll

-----------------------------------------------------------------------------
(* The search misses nothing *)

\* So many of the candidate at a rank.
Taken(r, cps, i, n) == [cand |-> cps[i], n |-> n, unit |-> r.products[cps[i].id].weight]

\* c combines the candidates at the ranks p.
Chooses(r, cps, p, c) ==
  /\ p \in [1..Len(c) -> 1..Len(cps)]
  /\ \A i, j \in 1..Len(c) : i < j => p[i] < p[j]
  /\ \A k \in 1..Len(c) : /\ c[k] = Taken(r, cps, p[k], c[k].n)
                          /\ c[k].n \in 1..Takeable(r, cps, p[k])

\* The first candidate that may still join.
After(p, c) == IF Len(c) = 0 THEN 1 ELSE p[Len(c)] + 1

Within(c, target, maxItems) ==
  Len(c) > 0 => WeightOf(c) <= target + ToleranceGrams /\ UnitsOf(c) <= maxItems

\* A node that combines some of the candidates before the first that may join.
Picked(r, cps, v) == \E p : Chooses(r, cps, p, v.combo) /\ v.first = After(p, v.combo)

\* By definition: the nodes that k rounds of the search should have met.
Reached(r, cps, target, maxItems, k) ==
  {v \in Nodes(r, cps) :
     /\ Picked(r, cps, v)
     /\ Len(v.combo) <= k /\ (v.new <=> Len(v.combo) = k)
     /\ Within(v.combo, target, maxItems)}

\* The candidates of the search, and what may be taken of them.
LEMMA StockedTypes ==
  ASSUME NEW r, IsRemoval(r), NEW cps \in Seq(Stocked(r)), OneEach(cps)
  PROVE  /\ Len(cps) \in Nat /\ DOMAIN cps = 1..Len(cps)
         /\ \A i, j \in 1..Len(cps) : cps[i].id = cps[j].id => i = j
         /\ \A i \in 1..Len(cps) :
              /\ r.products[cps[i].id].stock \in Nat /\ Takeable(r, cps, i) \in Nat
              /\ \A n \in 1..Takeable(r, cps, i) : Taken(r, cps, i, n) \in Parts(r)
<1>1. Len(cps) \in Nat /\ DOMAIN cps = 1..Len(cps) /\ \A i \in 1..Len(cps) : cps[i] \in Stocked(r)
  BY LenProperties, ElementOfSeq
<1>2. ASSUME NEW i \in 1..Len(cps)
      PROVE  /\ r.products[cps[i].id].stock \in Nat /\ Takeable(r, cps, i) \in Nat
             /\ Takeable(r, cps, i) <= r.products[cps[i].id].stock
  <2>1. r.products[cps[i].id].stock \in Int /\ r.products[cps[i].id].stock > 0
    BY <1>1, RemovalTypes DEF Stocked
  <2> QED BY <2>1, ConstantTypes DEF Takeable, Least
<1>3. ASSUME NEW i \in 1..Len(cps), NEW n \in 1..Takeable(r, cps, i)
      PROVE  Taken(r, cps, i, n) \in Parts(r)
  <2>1. n \in Nat \ {0} /\ n <= r.products[cps[i].id].stock
    BY <1>2
  <2> QED BY <1>1, <2>1, RemovalTypes DEF Stocked, Known, Parts, Affordable, Taken
<1> QED BY <1>1, <1>2, <1>3 DEF OneEach

\* t is s with one more entry, place by place.
Extends(t, s, e) ==
  /\ \A i \in 1..Len(s) : t[i] = s[i]
  /\ t[Len(s) + 1] = e
  /\ t = [i \in 1..(Len(s) + 1) |-> t[i]]

LEMMA AppendPlaces ==
  ASSUME NEW T, NEW s \in Seq(T), NEW e \in T
  PROVE  Extends(Append(s, e), s, e)
<1> DEFINE t == Append(s, e)
<1>1. /\ t \in Seq(T) /\ Len(t) = Len(s) + 1
      /\ \A i \in 1..Len(s) : t[i] = s[i]
      /\ t[Len(s) + 1] = e
  BY AppendProperties
<1> HIDE DEF t
<1>2. t \in [1..Len(t) -> T]
  BY <1>1, LenProperties
<1>3. t = [i \in 1..(Len(s) + 1) |-> t[i]]
  BY <1>1, <1>2
<1> QED BY <1>1, <1>3 DEF t, Extends

\* What is added up over a combination and over one with one more part.
LEMMA PartSums ==
  ASSUME NEW r, IsRemoval(r), NEW d \in Seq(Parts(r))
  PROVE  /\ WeightOf(d) \in Nat /\ UnitsOf(d) \in Nat
         /\ \A k \in 1..Len(d) : d[k].n <= UnitsOf(d)
         /\ Len(d) = 0 => WeightOf(d) = 0 /\ UnitsOf(d) = 0
         /\ \A e \in Parts(r) : /\ WeightOf(Append(d, e)) = WeightOf(d) + e.unit * e.n
                                /\ UnitsOf(Append(d, e)) = UnitsOf(d) + e.n
<1> DEFINE m == Len(d)
           ws == [i \in DOMAIN d |-> d[i].unit * d[i].n]
           ns == [i \in DOMAIN d |-> d[i].n]
<1>1. m \in Nat /\ DOMAIN d = 1..m /\ \A i \in 1..m : d[i] \in Parts(r)
  BY LenProperties, ElementOfSeq
<1>2. \A e \in Parts(r) : e.n \in Nat /\ e.unit \in Nat /\ e.unit * e.n \in Nat
  <2>1. \A e \in Parts(r) : e.n \in Nat /\ e.unit \in Nat
    BY DEF Parts
  <2>2. \A a, b \in Nat : a * b \in Nat
    OBVIOUS
  <2> QED BY <2>1, <2>2
<1>3. /\ DOMAIN ws = 1..m /\ DOMAIN ns = 1..m
      /\ \A i \in 1..m : ws[i] = d[i].unit * d[i].n /\ ns[i] = d[i].n
      /\ \A i \in 1..m : ws[i] \in Nat /\ ns[i] \in Nat
      /\ ws = [i \in 1..m |-> ws[i]] /\ ns = [i \in 1..m |-> ns[i]]
  BY <1>1, <1>2
<1>4. WeightOf(d) = SumOf(ws) /\ UnitsOf(d) = SumOf(ns)
  BY DEF WeightOf, UnitsOf
<1> HIDE DEF ws, ns, m
<1>5. ws \in Seq(Nat) /\ Len(ws) = m /\ ns \in Seq(Nat) /\ Len(ns) = m
  <2>1. m \in Int /\ m >= 0
    BY <1>1
  <2>2. ws \in Seq(Nat) /\ Len(ws) = m
    BY <1>3, <2>1, MadeSeq
  <2>3. ns \in Seq(Nat) /\ Len(ns) = m
    BY <1>3, <2>1, MadeSeq
  <2> QED BY <2>2, <2>3
<1>6. /\ SumOf(ws) \in Nat /\ SumOf(ns) \in Nat
      /\ \A k \in 1..m : ns[k] <= SumOf(ns)
  BY <1>5, SumOfNaturals
<1>7. m = 0 => SumOf(ws) = 0 /\ SumOf(ns) = 0
  <2>1. m = 0 => ws = <<>> /\ ns = <<>>
    BY <1>5, EmptySeq
  <2> QED BY <2>1, SumOfNothing
<1>8. ASSUME NEW e \in Parts(r)
      PROVE  /\ WeightOf(Append(d, e)) = WeightOf(d) + e.unit * e.n
             /\ UnitsOf(Append(d, e)) = UnitsOf(d) + e.n
  <2> DEFINE t == Append(d, e)
             w == e.unit * e.n
             n == e.n
  <2>1. /\ t \in Seq(Parts(r)) /\ DOMAIN t = 1..(m + 1) /\ t[m + 1] = e
        /\ \A i \in 1..m : t[i] = d[i]
    BY AppendProperties, LenProperties DEF m
  <2>2. w \in Int /\ n \in Int /\ ws \in Seq(Int) /\ ns \in Seq(Int)
    <3>1. Nat \subseteq Int
      OBVIOUS
    <3> QED BY <1>2, <1>5, <3>1, WiderSeq
  <2>3. w = e.unit * e.n /\ n = e.n
    OBVIOUS
  <2> HIDE DEF t, w, n
  <2>4. /\ \A i \in 1..m : Append(ws, w)[i] = ws[i] /\ Append(ns, n)[i] = ns[i]
        /\ Append(ws, w)[m + 1] = w /\ Append(ns, n)[m + 1] = n
        /\ Append(ws, w) = [i \in 1..(m + 1) |-> Append(ws, w)[i]]
        /\ Append(ns, n) = [i \in 1..(m + 1) |-> Append(ns, n)[i]]
    <3>1. Extends(Append(ws, w), ws, w)
      BY <2>2, AppendPlaces
    <3>2. Extends(Append(ns, n), ns, n)
      BY <2>2, AppendPlaces
    <3> QED BY <1>5, <3>1, <3>2 DEF Extends
  <2>5. \A i \in 1..(m + 1) : i \in 1..m \/ i = m + 1
    BY <1>1
  <2>6. \A i \in 1..(m + 1) : /\ Append(ws, w)[i] = t[i].unit * t[i].n
                              /\ Append(ns, n)[i] = t[i].n
    <3>1. ASSUME NEW i \in 1..m PROVE /\ Append(ws, w)[i] = t[i].unit * t[i].n
                                      /\ Append(ns, n)[i] = t[i].n
      <4>1. Append(ws, w)[i] = ws[i] /\ Append(ns, n)[i] = ns[i] /\ t[i] = d[i]
        BY <2>1, <2>4
      <4>2. ws[i] = d[i].unit * d[i].n /\ ns[i] = d[i].n
        BY <1>3
      <4> QED BY <4>1, <4>2
    <3>2. Append(ws, w)[m + 1] = t[m + 1].unit * t[m + 1].n /\ Append(ns, n)[m + 1] = t[m + 1].n
      BY <2>1, <2>3, <2>4
    <3> QED BY <2>5, <3>1, <3>2
  <2>7. /\ [i \in DOMAIN t |-> t[i].unit * t[i].n] = Append(ws, w)
        /\ [i \in DOMAIN t |-> t[i].n] = Append(ns, n)
    BY <2>1, <2>4, <2>6
  <2>8. SumOf(Append(ws, w)) = SumOf(ws) + w /\ SumOf(Append(ns, n)) = SumOf(ns) + n
    BY <2>2, SumOfAppend
  <2>9. WeightOf(t) = SumOf(ws) + w /\ UnitsOf(t) = SumOf(ns) + n
    BY <2>7, <2>8 DEF WeightOf, UnitsOf
  <2> QED BY <1>4, <2>3, <2>9 DEF t
<1> QED BY <1>3, <1>4, <1>6, <1>7, <1>8 DEF m

\* What is chosen is a combination of different classes, and a node of the search.
LEMMA ChosenNode ==
  ASSUME NEW r, IsRemoval(r), NEW cps \in Seq(Stocked(r)), OneEach(cps),
         NEW c \in Seq(Parts(r)), NEW p, Chooses(r, cps, p, c), NEW new \in BOOLEAN
  PROVE  /\ c \in Combos(r) /\ After(p, c) \in Nat \ {0}
         /\ [combo |-> c, first |-> After(p, c), new |-> new] \in Nodes(r, cps)
<1> DEFINE m == Len(c)
<1>1. m \in Nat /\ DOMAIN c = 1..m
  BY LenProperties
<1> HIDE DEF m
<1>2. /\ \A k \in 1..m : p[k] \in 1..Len(cps) /\ c[k].cand = cps[p[k]]
      /\ \A i, j \in 1..m : i < j => p[i] < p[j]
  <2>1. /\ p \in [1..m -> 1..Len(cps)] /\ \A i, j \in 1..m : i < j => p[i] < p[j]
        /\ \A k \in 1..m : c[k] = Taken(r, cps, p[k], c[k].n)
    BY DEF Chooses, m
  <2>2. \A k, n : Taken(r, cps, k, n).cand = cps[k]
    BY DEF Taken
  <2>3. \A k \in 1..m : c[k].cand = cps[p[k]]
    <3> SUFFICES ASSUME NEW k \in 1..m PROVE c[k].cand = cps[p[k]]
      OBVIOUS
    <3> DEFINE n == c[k].n
    <3>1. c[k] = Taken(r, cps, p[k], n)
      BY <2>1
    <3> HIDE DEF n
    <3> QED BY <2>2, <3>1
  <2> QED BY <2>1, <2>3
<1>3. Len(cps) \in Nat /\ \A i, j \in 1..Len(cps) : cps[i].id = cps[j].id => i = j
  BY StockedTypes
<1>4. After(p, c) \in Nat \ {0} /\ \A k \in 1..m : p[k] < After(p, c)
  <2>1. CASE m = 0
    BY <1>1, <2>1 DEF After, m
  <2>2. CASE m # 0
    <3>1. m \in 1..m /\ \A k \in 1..m : k = m \/ k < m
      BY <1>1, <2>2
    <3>2. p[m] \in Nat /\ After(p, c) = p[m] + 1 /\ \A k \in 1..m : p[k] \in Nat
      BY <1>2, <1>3, <2>2, <3>1 DEF After, m
    <3>3. \A k \in 1..m : p[k] = p[m] \/ p[k] < p[m]
      BY <1>2, <3>1
    <3> QED BY <3>2, <3>3
  <2> QED BY <2>1, <2>2
<1>5. \A i, j \in 1..m : c[i].cand.id = c[j].cand.id => i = j
  <2> SUFFICES ASSUME NEW i \in 1..m, NEW j \in 1..m, c[i].cand.id = c[j].cand.id
               PROVE  i = j
    OBVIOUS
  <2>1. p[i] = p[j] /\ p[i] \in Nat
    <3>1. p[i] \in 1..Len(cps) /\ p[j] \in 1..Len(cps) /\ cps[p[i]].id = cps[p[j]].id
      BY <1>2
    <3> QED BY <1>3, <3>1
  <2>2. (i < j => p[i] < p[j]) /\ (j < i => p[j] < p[i])
    BY <1>2
  <2>3. ~(i < j) /\ ~(j < i)
    BY <2>1, <2>2
  <2> QED BY <1>1, <2>3
<1>6. c \in Combos(r)
  BY <1>1, <1>5 DEF Combos
<1>7. \A k \in DOMAIN c : \E i \in 1..Len(cps) : i < After(p, c) /\ c[k].cand = cps[i]
  BY <1>1, <1>2, <1>4
<1> QED BY <1>4, <1>6, <1>7 DEF Nodes

\* A choice without its last part.
LEMMA ChosenBefore ==
  ASSUME NEW r, IsRemoval(r), NEW cps \in Seq(Stocked(r)), OneEach(cps),
         NEW d \in Seq(Parts(r)), NEW e \in Parts(r), NEW p, Chooses(r, cps, p, Append(d, e))
  PROVE  LET i == p[Len(d) + 1]
         IN  /\ i \in 1..Len(cps) /\ After(p, Append(d, e)) = i + 1
             /\ e.n \in 1..Takeable(r, cps, i) /\ e = Taken(r, cps, i, e.n)
             /\ \E q : Chooses(r, cps, q, d) /\ After(q, d) <= i
<1> DEFINE m == Len(d)
           c == Append(d, e)
           i == p[m + 1]
           q == [k \in 1..m |-> p[k]]
<1>1. m \in Nat /\ DOMAIN d = 1..m
  BY LenProperties
<1>2. c \in Seq(Parts(r)) /\ Len(c) = m + 1 /\ c[m + 1] = e /\ \A k \in 1..m : c[k] = d[k]
  BY AppendProperties
<1> HIDE DEF m, c
<1>3. /\ p \in [1..(m + 1) -> 1..Len(cps)]
      /\ \A k, j \in 1..(m + 1) : k < j => p[k] < p[j]
      /\ \A k \in 1..(m + 1) : /\ c[k] = Taken(r, cps, p[k], c[k].n)
                                /\ c[k].n \in 1..Takeable(r, cps, p[k])
  BY <1>2 DEF Chooses, c
<1>4. Len(cps) \in Nat
  BY LenProperties
<1>5. m + 1 \in 1..(m + 1) /\ m < m + 1 /\ \A k \in 1..m : k \in 1..(m + 1) /\ k < m + 1
  BY <1>1
<1>6. i \in 1..Len(cps) /\ After(p, c) = i + 1
  <2>1. m + 1 # 0
    BY <1>1
  <2> QED BY <1>2, <1>3, <1>5, <2>1 DEF After
<1>7. e.n \in 1..Takeable(r, cps, i) /\ e = Taken(r, cps, i, e.n)
  BY <1>2, <1>3, <1>5
<1>8. Chooses(r, cps, q, d)
  <2>1. q \in [1..m -> 1..Len(cps)] /\ \A k \in 1..m : q[k] = p[k]
    BY <1>3, <1>5
  <2> HIDE DEF q
  <2>2. \A k, j \in 1..m : k < j => q[k] < q[j]
    BY <1>3, <1>5, <2>1
  <2>3. \A k \in 1..m : /\ d[k] = Taken(r, cps, q[k], d[k].n)
                         /\ d[k].n \in 1..Takeable(r, cps, q[k])
    BY <1>2, <1>3, <1>5, <2>1
  <2> QED BY <2>1, <2>2, <2>3 DEF Chooses, m
<1>9. After(q, d) <= i
  <2>1. CASE m = 0
    BY <1>4, <1>6, <2>1 DEF After, m
  <2>2. CASE m # 0
    <3>1. m \in 1..m
      BY <1>1, <2>2
    <3>2. After(q, d) = p[m] + 1
      BY <2>2, <3>1 DEF After, m
    <3>3. p[m] < i /\ p[m] \in Int /\ i \in Int
      BY <1>3, <1>4, <1>5, <1>6, <3>1
    <3> HIDE DEF i, q
    <3> QED BY <3>2, <3>3
  <2> QED BY <2>1, <2>2
<1> QED BY <1>6, <1>7, <1>8, <1>9 DEF m, c

\* A choice with one more part.
LEMMA ChosenNext ==
  ASSUME NEW r, IsRemoval(r), NEW cps \in Seq(Stocked(r)), OneEach(cps),
         NEW d \in Seq(Parts(r)), NEW p, Chooses(r, cps, p, d),
         NEW i \in 1..Len(cps), i >= After(p, d), NEW n \in 1..Takeable(r, cps, i)
  PROVE  LET c == Append(d, Taken(r, cps, i, n))
         IN  \E q : Chooses(r, cps, q, c) /\ After(q, c) = i + 1
<1> DEFINE m == Len(d)
           e == Taken(r, cps, i, n)
           c == Append(d, e)
           q == [k \in 1..(m + 1) |-> IF k = m + 1 THEN i ELSE p[k]]
<1>1. m \in Nat /\ DOMAIN d = 1..m /\ Len(cps) \in Nat /\ e \in Parts(r)
  BY StockedTypes, LenProperties
<1>2. e.n = n
  BY DEF Taken
<1> HIDE DEF e
<1>3. c \in Seq(Parts(r)) /\ Len(c) = m + 1 /\ c[m + 1] = e /\ \A k \in 1..m : c[k] = d[k]
  BY <1>1, AppendProperties
<1> HIDE DEF m, c
<1>4. /\ p \in [1..m -> 1..Len(cps)]
      /\ \A k, j \in 1..m : k < j => p[k] < p[j]
      /\ \A k \in 1..m : /\ d[k] = Taken(r, cps, p[k], d[k].n)
                          /\ d[k].n \in 1..Takeable(r, cps, p[k])
  BY DEF Chooses, m
<1>5. m + 1 \in 1..(m + 1) /\ \A k \in 1..m : k \in 1..(m + 1) /\ k # m + 1 /\ k < m + 1
  BY <1>1
<1>6. \A k \in 1..(m + 1) : k = m + 1 \/ k \in 1..m
  BY <1>1
<1>7. q[m + 1] = i /\ \A k \in 1..m : q[k] = p[k]
  BY <1>5
<1>8. q \in [1..(m + 1) -> 1..Len(cps)]
  BY <1>4, <1>6
<1> HIDE DEF q
<1>9. \A k \in 1..m : p[k] < i
  <2> SUFFICES ASSUME NEW k \in 1..m PROVE p[k] < i
    OBVIOUS
  <2>1. m \in 1..m /\ m # 0
    BY <1>1
  <2>2. After(p, d) = p[m] + 1
    BY <2>1 DEF After, m
  <2>3. p[m] \in Int /\ p[k] \in Int
    <3>1. p[m] \in 1..Len(cps) /\ p[k] \in 1..Len(cps)
      BY <1>4, <2>1
    <3> QED BY <1>1, <3>1
  <2>4. p[m] < i
    BY <1>1, <2>2, <2>3
  <2>5. k = m \/ k < m
    BY <1>1
  <2>6. p[k] = p[m] \/ p[k] < p[m]
    BY <1>4, <2>1, <2>5
  <2> QED BY <1>1, <2>3, <2>4, <2>6
<1>10. \A k, j \in 1..(m + 1) : k < j => q[k] < q[j]
  <2> SUFFICES ASSUME NEW k \in 1..(m + 1), NEW j \in 1..(m + 1), k < j
               PROVE  q[k] < q[j]
    OBVIOUS
  <2>1. k \in 1..m
    BY <1>1
  <2> QED BY <1>4, <1>6, <1>7, <1>9, <2>1
<1>11. \A k \in 1..(m + 1) : /\ c[k] = Taken(r, cps, q[k], c[k].n)
                             /\ c[k].n \in 1..Takeable(r, cps, q[k])
  <2>1. c[m + 1] = Taken(r, cps, q[m + 1], c[m + 1].n)
        /\ c[m + 1].n \in 1..Takeable(r, cps, q[m + 1])
    BY <1>2, <1>3, <1>7 DEF e
  <2>2. \A k \in 1..m : /\ c[k] = Taken(r, cps, q[k], c[k].n)
                        /\ c[k].n \in 1..Takeable(r, cps, q[k])
    BY <1>3, <1>4, <1>7
  <2> QED BY <1>6, <2>1, <2>2
<1>12. Chooses(r, cps, q, c)
  BY <1>3, <1>8, <1>10, <1>11 DEF Chooses
<1>13. After(q, c) = i + 1
  <2>1. m + 1 # 0
    BY <1>1
  <2> QED BY <1>3, <1>7, <2>1 DEF After
<1> QED BY <1>12, <1>13 DEF c, e

\* The nodes below one.
Below(r, cps, maxItems, u, v) ==
  \E i \in 1..Len(cps) :
    i >= u.first /\ \E n \in 1..Joinable(r, cps, maxItems, u, i) : v = Grown(r, cps, u, i, n)

\* What is known of a node met.
LEMMA ReachedTypes ==
  ASSUME NEW r, NEW cps, NEW target, NEW maxItems, NEW k,
         NEW v \in Reached(r, cps, target, maxItems, k)
  PROVE  /\ v \in Nodes(r, cps) /\ v.combo \in Combos(r) /\ v.combo \in Seq(Parts(r))
         /\ Len(v.combo) \in Nat /\ v.first \in Nat \ {0} /\ v.new \in BOOLEAN
         /\ v = [combo |-> v.combo, first |-> v.first, new |-> v.new]
         /\ Len(v.combo) <= k /\ (v.new <=> Len(v.combo) = k)
         /\ Within(v.combo, target, maxItems)
<1>1. v \in Nodes(r, cps)
  BY DEF Reached
<1>2. v \in [combo : Combos(r), first : Nat \ {0}, new : BOOLEAN]
  BY <1>1 DEF Nodes
<1>3. v.combo \in Seq(Parts(r)) /\ Len(v.combo) \in Nat
  BY <1>2, PartTypes
<1>4. Len(v.combo) <= k /\ (v.new <=> Len(v.combo) = k) /\ Within(v.combo, target, maxItems)
  BY DEF Reached
<1> QED BY <1>1, <1>2, <1>3, <1>4

\* Every longer combination was met one product earlier, at a node that goes on.
LEMMA MetBefore ==
  ASSUME NEW r, IsRemoval(r), NEW cps \in Seq(Stocked(r)), OneEach(cps),
         NEW target \in Nat, NEW maxItems \in Nat, NEW k \in Nat, k < MaxCombinationKinds,
         NEW v \in Reached(r, cps, target, maxItems, k + 1), Len(v.combo) = k + 1
  PROVE  \E u \in Reached(r, cps, target, maxItems, k) :
           u.new /\ GoesOn(u, target, maxItems) /\ Below(r, cps, maxItems, u, v)
<1>1. /\ v.combo \in Seq(Parts(r)) /\ Within(v.combo, target, maxItems)
      /\ v = [combo |-> v.combo, first |-> v.first, new |-> v.new]
      /\ (v.new <=> Len(v.combo) = k + 1)
  BY ReachedTypes
<1>2. PICK d \in Seq(Parts(r)), e \in Parts(r) : v.combo = Append(d, e)
  <2> DEFINE c == v.combo
             T == Parts(r)
  <2>1. c \in Seq(T) /\ c # <<>>
    BY <1>1, EmptySeq
  <2> HIDE DEF c, T
  <2>2. \E d \in Seq(T), e \in T : c = Append(d, e)
    BY <2>1, SequenceEmptyOrAppend
  <2> QED BY <2>2 DEF c, T
<1>3. PICK p : Chooses(r, cps, p, Append(d, e)) /\ v.first = After(p, Append(d, e))
  BY <1>2 DEF Reached, Picked
<1> DEFINE i == p[Len(d) + 1]
<1>4. /\ i \in 1..Len(cps) /\ v.first = i + 1
      /\ e.n \in 1..Takeable(r, cps, i) /\ e = Taken(r, cps, i, e.n)
      /\ \E q : Chooses(r, cps, q, d) /\ After(q, d) <= i
  BY <1>3, ChosenBefore
<1> HIDE DEF i
<1>5. PICK q : Chooses(r, cps, q, d) /\ After(q, d) <= i
  BY <1>4
<1> DEFINE u == [combo |-> d, first |-> After(q, d), new |-> TRUE]
<1>6. d \in Combos(r) /\ After(q, d) \in Nat \ {0} /\ u \in Nodes(r, cps)
  BY <1>5, ChosenNode
<1>7. u.combo = d /\ u.first = After(q, d) /\ u.new = TRUE
  OBVIOUS
<1> HIDE DEF u
<1>8. Len(d) = k /\ Len(v.combo) = Len(d) + 1
  BY <1>2, AppendProperties, LenProperties
<1>9. /\ WeightOf(d) \in Nat /\ UnitsOf(d) \in Nat
      /\ Len(d) = 0 => WeightOf(d) = 0 /\ UnitsOf(d) = 0
      /\ WeightOf(v.combo) = WeightOf(d) + e.unit * e.n
      /\ UnitsOf(v.combo) = UnitsOf(d) + e.n
  BY <1>2, PartSums
<1>10. e.n \in Nat \ {0} /\ e.unit \in Nat /\ e.unit * e.n \in Nat
  <2>1. e.n \in Nat \ {0} /\ e.unit \in Nat
    BY DEF Parts
  <2>2. \A a, b \in Nat : a * b \in Nat
    OBVIOUS
  <2> QED BY <2>1, <2>2
<1>11. WeightOf(v.combo) <= target + ToleranceGrams /\ UnitsOf(v.combo) <= maxItems
  BY <1>1 DEF Within
<1>12. ToleranceGrams \in Nat
  BY ConstantTypes
<1>13. WeightOf(d) <= target + ToleranceGrams /\ UnitsOf(d) < maxItems
       /\ e.n <= maxItems - UnitsOf(d)
  <2> DEFINE w == e.unit * e.n
             n == e.n
             dw == WeightOf(d)
             cw == WeightOf(v.combo)
             du == UnitsOf(d)
             cu == UnitsOf(v.combo)
  <2>1. /\ w \in Nat /\ dw \in Nat /\ cw = dw + w /\ cw <= target + ToleranceGrams
        /\ n \in Nat \ {0} /\ du \in Nat /\ cu = du + n /\ cu <= maxItems
    BY <1>9, <1>10, <1>11
  <2> HIDE DEF w, n, dw, cw, du, cu
  <2>2. dw <= target + ToleranceGrams /\ du < maxItems /\ n <= maxItems - du
    BY <1>12, <2>1
  <2> QED BY <2>2 DEF dw, du, n
<1>14. Within(d, target, maxItems)
  BY <1>9, <1>13 DEF Within
<1>15. u \in Reached(r, cps, target, maxItems, k)
  <2>1. Picked(r, cps, u)
    BY <1>5, <1>7 DEF Picked
  <2>2. Len(u.combo) <= k /\ (u.new <=> Len(u.combo) = k)
    BY <1>7, <1>8
  <2> QED BY <1>6, <1>7, <1>14, <2>1, <2>2 DEF Reached
<1>16. GoesOn(u, target, maxItems)
  BY <1>7, <1>8, <1>13 DEF GoesOn, Light
<1>17. Below(r, cps, maxItems, u, v)
  <2>1. e.n \in 1..Joinable(r, cps, maxItems, u, i)
    BY <1>4, <1>7, <1>10, <1>13 DEF Joinable, Room, Least
  <2>2. Grown(r, cps, u, i, e.n) = [combo |-> Append(d, e), first |-> i + 1, new |-> TRUE]
    BY <1>4, <1>7 DEF Grown, Taken
  <2>3. v.new = TRUE
    BY <1>1
  <2>4. v = Grown(r, cps, u, i, e.n)
    BY <1>1, <1>2, <1>4, <2>2, <2>3
  <2>5. i >= u.first
    <3>1. i \in Int
      BY <1>4
    <3> QED BY <1>5, <1>6, <1>7, <3>1
  <2> QED BY <1>4, <2>1, <2>4, <2>5 DEF Below
<1> QED BY <1>7, <1>15, <1>16, <1>17

\* What is below a node met, and light, is met next.
LEMMA MetNext ==
  ASSUME NEW r, IsRemoval(r), NEW cps \in Seq(Stocked(r)), OneEach(cps),
         NEW target \in Nat, NEW maxItems \in Nat, NEW k \in Nat,
         NEW u \in Reached(r, cps, target, maxItems, k), u.new,
         NEW v, Below(r, cps, maxItems, u, v), Light(v, target)
  PROVE  v \in Reached(r, cps, target, maxItems, k + 1) /\ Len(v.combo) = k + 1
<1>1. /\ u.combo \in Seq(Parts(r)) /\ Len(u.combo) = k
      /\ u.first \in Nat \ {0}
  BY ReachedTypes
<1>0. PICK i \in 1..Len(cps) :
        i >= u.first /\ \E n \in 1..Joinable(r, cps, maxItems, u, i) : v = Grown(r, cps, u, i, n)
  BY DEF Below
<1>2. PICK n \in 1..Joinable(r, cps, maxItems, u, i) : i >= u.first /\ v = Grown(r, cps, u, i, n)
  BY <1>0
<1>3. PICK p : Chooses(r, cps, p, u.combo) /\ u.first = After(p, u.combo)
  BY DEF Reached, Picked
<1> DEFINE d == u.combo
           e == Taken(r, cps, i, n)
           c == Append(d, e)
<1>4. WeightOf(d) \in Nat /\ UnitsOf(d) \in Nat
  BY <1>1, PartSums
<1>5. n \in 1..Takeable(r, cps, i) /\ n <= maxItems - UnitsOf(d)
  <2>1. Takeable(r, cps, i) \in Int /\ maxItems - UnitsOf(d) \in Int
    BY <1>4, StockedTypes
  <2> QED BY <2>1 DEF Joinable, Room, Least
<1>6. e \in Parts(r) /\ e.n = n
  BY <1>5, StockedTypes DEF Taken
<1>7. v.combo = c /\ v.first = i + 1 /\ v.new = TRUE
      /\ v = [combo |-> c, first |-> i + 1, new |-> TRUE]
  BY <1>2 DEF Grown, Taken
<1>8. PICK q : Chooses(r, cps, q, c) /\ After(q, c) = i + 1
  BY <1>1, <1>2, <1>3, <1>5, ChosenNext
<1> HIDE DEF d, e
<1>9. c \in Seq(Parts(r)) /\ Len(c) = k + 1
  BY <1>1, <1>6, AppendProperties DEF d
<1>10. UnitsOf(c) = UnitsOf(d) + n
  BY <1>1, <1>6, PartSums DEF d
<1> HIDE DEF c
<1>11. v \in Nodes(r, cps)
  BY <1>7, <1>8, <1>9, ChosenNode
<1>12. Within(c, target, maxItems)
  <2>1. WeightOf(c) <= target + ToleranceGrams
    BY <1>7 DEF Light
  <2>2. UnitsOf(c) <= maxItems
    BY <1>4, <1>5, <1>10
  <2> QED BY <2>1, <2>2 DEF Within
<1>13. Picked(r, cps, v)
  BY <1>7, <1>8 DEF Picked
<1>14. Len(v.combo) = k + 1 /\ Len(v.combo) <= k + 1 /\ (v.new <=> Len(v.combo) = k + 1)
  BY <1>7, <1>9
<1> QED BY <1>7, <1>11, <1>12, <1>13, <1>14 DEF Reached

ByCombo(r, cps) == [v \in Nodes(r, cps) |-> v.combo]

\* A node below another combines one part more.
LEMMA BelowTypes ==
  ASSUME NEW r, IsRemoval(r), NEW cps \in Seq(Stocked(r)), OneEach(cps),
         NEW maxItems \in Nat, NEW u \in Nodes(r, cps), NEW i \in 1..Len(cps),
         NEW n \in 1..Joinable(r, cps, maxItems, u, i)
  PROVE  /\ n \in Nat /\ n \in 1..Takeable(r, cps, i) /\ Taken(r, cps, i, n) \in Parts(r)
         /\ Grown(r, cps, u, i, n).combo = Append(u.combo, Taken(r, cps, i, n))
<1>1. Takeable(r, cps, i) \in Nat
  BY StockedTypes
<1>2. Joinable(r, cps, maxItems, u, i) \in Int
  <2>1. maxItems \in Int
    OBVIOUS
  <2>2. \A j \in 1..Len(cps) : Joinable(r, cps, maxItems, u, j) \in Int
    BY <2>1, ChildListsType
  <2> QED BY <2>2
<1>3. Joinable(r, cps, maxItems, u, i) <= Takeable(r, cps, i)
  <2>1. Room(u.combo, maxItems) \in Int
    BY ComboSums DEF Room, Nodes
  <2> QED BY <1>1, <2>1 DEF Joinable, Least
<1>4. n \in Nat /\ n \in 1..Takeable(r, cps, i)
  BY <1>1, <1>2, <1>3
<1>5. Taken(r, cps, i, n) \in Parts(r)
  BY <1>4, StockedTypes
<1> QED BY <1>4, <1>5 DEF Grown, Taken

\* The children of a node are what is below it, each combination once.
LEMMA ChildrenMet ==
  ASSUME NEW r, IsRemoval(r), NEW cps \in Seq(Stocked(r)), OneEach(cps),
         NEW maxItems \in Nat, NEW u \in Nodes(r, cps)
  PROVE  LET children == Children(cps, r.products, maxItems, u)
         IN  /\ children \in Seq(Nodes(r, cps))
             /\ \A v : v \in ToSet(children) <=> Below(r, cps, maxItems, u, v)
             /\ Apart(children, ByCombo(r, cps))
<1> DEFINE children == Children(cps, r.products, maxItems, u)
           all == ChildLists(r, cps, maxItems, u)
           key == ByCombo(r, cps)
           N == Nodes(r, cps)
           m == Len(cps)
           cap(i) == Joinable(r, cps, maxItems, u, i)
<1>0. maxItems \in Int
  OBVIOUS
<1>1. /\ children \in Seq(N) /\ children = Joined(all) /\ all \in Seq(Seq(N))
      /\ \A i \in 1..m : cap(i) \in Int
  BY <1>0, ChildrenType, ChildListsType
<1>2. m \in Nat /\ DOMAIN all = 1..m /\ Len(all) = m
  BY <1>1, LenProperties DEF ChildLists
<1>3. u.first \in Nat /\ u.combo \in Seq(Parts(r))
  BY PartTypes DEF Nodes
<1>4. \A i \in 1..m :
        /\ i < u.first => all[i] = <<>>
        /\ ~(i < u.first) => /\ DOMAIN all[i] = 1..cap(i)
                             /\ \A n \in 1..cap(i) : all[i][n] = Grown(r, cps, u, i, n)
  <2> SUFFICES ASSUME NEW i \in 1..m
               PROVE  /\ i < u.first => all[i] = <<>>
                      /\ ~(i < u.first) =>
                           all[i] = [n \in 1..cap(i) |-> Grown(r, cps, u, i, n)]
    OBVIOUS
  <2>1. all[i] = IF i < u.first THEN <<>>
                 ELSE [n \in 1..cap(i) |-> Grown(r, cps, u, i, n)]
    BY DEF ChildLists
  <2> QED BY <2>1
<1>5. \A i \in 1..m : all[i] \in Seq(N) /\ \A n \in DOMAIN all[i] : all[i][n] \in N
  <2>1. \A i \in 1..m : all[i] \in Seq(N)
    BY <1>1, <1>2, ElementOfSeq
  <2>2. \A t \in Seq(N) : \A n \in DOMAIN t : t[n] \in N
    BY ElementOfSeq, LenProperties
  <2> QED BY <2>1, <2>2
<1>50. DOMAIN <<>> = {}
  OBVIOUS
<1> HIDE DEF all, key, N
<1>6. ASSUME NEW i \in 1..m, NEW v
      PROVE  v \in ToSet(all[i]) <=>
               i >= u.first /\ \E n \in 1..cap(i) : v = Grown(r, cps, u, i, n)
  <2>1. CASE i < u.first
    <3>1. ToSet(all[i]) = {}
      BY <1>4, <1>50, <2>1 DEF ToSet
    <3> QED BY <1>2, <1>3, <2>1, <3>1
  <2>2. CASE ~(i < u.first)
    <3>1. DOMAIN all[i] = 1..cap(i)
          /\ \A n \in 1..cap(i) : all[i][n] = Grown(r, cps, u, i, n)
      BY <1>4, <2>2
    <3> HIDE DEF cap
    <3>2. v \in ToSet(all[i]) <=> \E n \in 1..cap(i) : v = Grown(r, cps, u, i, n)
      BY <3>1 DEF ToSet
    <3>3. i >= u.first
      BY <1>2, <1>3, <2>2
    <3> QED BY <3>2, <3>3
  <2> QED BY <2>1, <2>2
<1>7. \A v : v \in ToSet(children) <=> Below(r, cps, maxItems, u, v)
  <2>1. ToSet(children) = AllOf(all)
    BY <1>1, JoinedEntries
  <2>2. \A v : v \in AllOf(all) <=> \E i \in 1..m : v \in ToSet(all[i])
    BY <1>2 DEF AllOf
  <2> SUFFICES ASSUME NEW v
               PROVE  v \in ToSet(children) <=> Below(r, cps, maxItems, u, v)
    OBVIOUS
  <2> DEFINE By(i) == i >= u.first /\ \E n \in 1..cap(i) : v = Grown(r, cps, u, i, n)
  <2>3. \A i \in 1..m : v \in ToSet(all[i]) <=> By(i)
    BY <1>6
  <2>4. Below(r, cps, maxItems, u, v) <=> \E i \in 1..m : By(i)
    BY DEF Below
  <2> HIDE DEF children, By, m
  <2> QED BY <2>1, <2>2, <2>3, <2>4
\* What distinguishes two children.
<1>8. ASSUME NEW i \in 1..m, NEW j \in 1..m, NEW n \in 1..cap(i), NEW k \in 1..cap(j),
             Grown(r, cps, u, i, n) \in N, Grown(r, cps, u, j, k) \in N,
             key[Grown(r, cps, u, i, n)] = key[Grown(r, cps, u, j, k)]
      PROVE  i = j /\ n = k
  <2> DEFINE a == Taken(r, cps, i, n)
             b == Taken(r, cps, j, k)
             T == Parts(r)
             c == u.combo
  <2>1. a \in T /\ b \in T /\ c \in Seq(T) /\ Append(c, a) = Append(c, b)
    <3>1. a \in T /\ Grown(r, cps, u, i, n).combo = Append(c, a)
      BY BelowTypes
    <3>2. b \in T /\ Grown(r, cps, u, j, k).combo = Append(c, b)
      BY BelowTypes
    <3>3. Grown(r, cps, u, i, n).combo = Grown(r, cps, u, j, k).combo
      BY <1>8 DEF ByCombo, key, N
    <3> QED BY <1>3, <3>1, <3>2, <3>3
  <2>2. a = b
    <3> HIDE DEF a, b, c, T
    <3> QED BY <2>1, AppendInjective
  <2>3. cps[i] = cps[j] /\ n = k
    BY <2>2 DEF Taken
  <2> QED BY <2>3, StockedTypes
<1>9. \A i \in 1..m : Apart(all[i], key)
  <2> SUFFICES ASSUME NEW i \in 1..m PROVE Apart(all[i], key)
    OBVIOUS
  <2>1. CASE i < u.first
    BY <1>4, <1>50, <2>1 DEF Apart
  <2>2. CASE ~(i < u.first)
    <3>1. DOMAIN all[i] = 1..cap(i)
          /\ \A n \in 1..cap(i) : all[i][n] = Grown(r, cps, u, i, n)
      BY <1>4, <2>2
    <3>2. \A n \in 1..cap(i) : Grown(r, cps, u, i, n) \in N
      BY <1>5, <3>1
    <3> HIDE DEF cap, m
    <3>3. \A n, k \in 1..cap(i) : key[all[i][n]] = key[all[i][k]] => n = k
      BY <1>8, <3>1, <3>2
    <3> QED BY <3>1, <3>3 DEF Apart
  <2> QED BY <2>1, <2>2
<1>10. \A i, j \in 1..m : i # j => Between(all[i], all[j], key)
  <2> SUFFICES ASSUME NEW i \in 1..m, NEW j \in 1..m, i # j,
                      NEW v \in ToSet(all[i]), NEW w \in ToSet(all[j]), key[v] = key[w]
               PROVE  FALSE
    BY DEF Between
  <2>1. v \in N /\ w \in N
    BY <1>5 DEF ToSet
  <2> HIDE DEF m, cap
  <2>2. PICK n \in 1..cap(i) : v = Grown(r, cps, u, i, n)
    BY <1>6
  <2>3. PICK k \in 1..cap(j) : w = Grown(r, cps, u, j, k)
    BY <1>6
  <2> QED BY <1>8, <2>1, <2>2, <2>3
<1>11. Apart(children, key)
  <2> HIDE DEF children
  <2> QED BY <1>1, <1>2, <1>9, <1>10, JoinedEntries
<1> QED BY <1>1, <1>7, <1>11 DEF N, key

\* v is what the next round makes of u, or one of the nodes it adds.
Settled(u) == [u EXCEPT !.new = FALSE]

Met(r, cps, target, maxItems, u, v) ==
  \/ v = Settled(u)
  \/ u.new /\ GoesOn(u, target, maxItems) /\ Below(r, cps, maxItems, u, v) /\ Light(v, target)

SameOrLonger(r, u, v) ==
  \/ v.combo = u.combo
  \/ u.new /\ \E e \in Parts(r) : v.combo = Append(u.combo, e)

\* Its combination is that of u, or one part longer when u is new.
LEMMA MetTypes ==
  ASSUME NEW r, IsRemoval(r), NEW cps \in Seq(Stocked(r)), OneEach(cps),
         NEW target, NEW maxItems \in Nat, NEW u \in Nodes(r, cps),
         NEW v, Met(r, cps, target, maxItems, u, v)
  PROVE  SameOrLonger(r, u, v)
<1>1. CASE v = Settled(u)
  <2>1. u = [combo |-> u.combo, first |-> u.first, new |-> u.new]
    BY DEF Nodes
  <2>2. v.combo = u.combo
    BY <1>1, <2>1 DEF Settled
  <2> QED BY <2>2 DEF SameOrLonger
<1>2. CASE u.new /\ Below(r, cps, maxItems, u, v)
  <2>1. PICK i \in 1..Len(cps) : \E n \in 1..Joinable(r, cps, maxItems, u, i) : v = Grown(r, cps, u, i, n)
    BY <1>2 DEF Below
  <2>2. PICK n \in 1..Joinable(r, cps, maxItems, u, i) : v = Grown(r, cps, u, i, n)
    BY <2>1
  <2>3. Taken(r, cps, i, n) \in Parts(r) /\ v.combo = Append(u.combo, Taken(r, cps, i, n))
    BY <2>2, BelowTypes
  <2> QED BY <1>2, <2>3 DEF SameOrLonger
<1> QED BY <1>1, <1>2 DEF Met

\* What is made of different combinations is different.
LEMMA MetApart ==
  ASSUME NEW r, IsRemoval(r), NEW cps \in Seq(Stocked(r)), OneEach(cps),
         NEW target, NEW maxItems \in Nat, NEW k \in Nat,
         NEW u \in Reached(r, cps, target, maxItems, k),
         NEW w \in Reached(r, cps, target, maxItems, k), u.combo # w.combo,
         NEW v, Met(r, cps, target, maxItems, u, v),
         NEW x, Met(r, cps, target, maxItems, w, x)
  PROVE  v.combo # x.combo
<1> DEFINE T == Parts(r)
           a == u.combo
           b == w.combo
           c == v.combo
           d == x.combo
<1>1. /\ a \in Seq(T) /\ Len(a) \in Nat /\ Len(a) <= k /\ (u.new => Len(a) = k)
      /\ b \in Seq(T) /\ Len(b) \in Nat /\ Len(b) <= k /\ (w.new => Len(b) = k)
      /\ a # b /\ u \in Nodes(r, cps) /\ w \in Nodes(r, cps)
  BY ReachedTypes
<1>2. c = a \/ (u.new /\ \E e \in T : c = Append(a, e))
  <2>1. SameOrLonger(r, u, v)
    BY <1>1, MetTypes
  <2> QED BY <2>1 DEF SameOrLonger
<1>3. d = b \/ (w.new /\ \E e \in T : d = Append(b, e))
  <2>1. SameOrLonger(r, w, x)
    BY <1>1, MetTypes
  <2> QED BY <2>1 DEF SameOrLonger
<1> HIDE DEF T, a, b, c, d
<1>4. CASE c = a /\ d = b
  BY <1>1, <1>4 DEF c, d
<1>5. ASSUME NEW e \in T, u.new, c = Append(a, e), d = b PROVE c # d
  <2>1. Len(c) = k + 1
    BY <1>1, <1>5, AppendProperties
  <2> QED BY <1>1, <1>5, <2>1
<1>6. ASSUME NEW e \in T, w.new, d = Append(b, e), c = a PROVE c # d
  <2>1. Len(d) = k + 1
    BY <1>1, <1>6, AppendProperties
  <2> QED BY <1>1, <1>6, <2>1
<1>7. ASSUME NEW e \in T, NEW f \in T, c = Append(a, e), d = Append(b, f) PROVE c # d
  BY <1>1, <1>7, AppendInjective
<1>8. c # d
  BY <1>1, <1>2, <1>3, <1>5, <1>6, <1>7
<1> QED BY <1>8 DEF c, d

\* What a round makes of one node: each combination once.
LEMMA ExpandedMet ==
  ASSUME NEW r, IsRemoval(r), NEW cps \in Seq(Stocked(r)), OneEach(cps),
         NEW target, NEW maxItems \in Nat, NEW u \in Nodes(r, cps)
  PROVE  LET met == Expanded(cps, r.products, target, maxItems, u)
         IN  /\ met \in Seq(Nodes(r, cps))
             /\ \A v : v \in ToSet(met) <=> Met(r, cps, target, maxItems, u, v)
             /\ Apart(met, ByCombo(r, cps))
<1> DEFINE met == Expanded(cps, r.products, target, maxItems, u)
           N == Nodes(r, cps)
           key == ByCombo(r, cps)
           children == Children(cps, r.products, maxItems, u)
           bright == {c \in ToSet(children) : Light(c, target)}
           light == Only(children, bright)
           more == IF GoesOn(u, target, maxItems) THEN light ELSE <<>>
           s == Settled(u)
           one == <<s>>
<1>1. met \in Seq(N)
  <2>1. maxItems \in Int
    OBVIOUS
  <2> QED BY <2>1, ExpandedType
<1>2. met = IF ~u.new THEN <<u>> ELSE one \o more
  BY DEF Expanded, Settled
<1>3. s \in N /\ u \in N /\ (~u.new => s = u) /\ s.combo = u.combo
  BY DEF Nodes, Settled
<1>4. /\ children \in Seq(N) /\ Apart(children, key)
      /\ \A v : v \in ToSet(children) <=> Below(r, cps, maxItems, u, v)
  BY ChildrenMet
<1> HIDE DEF met, children, N, s
<1>5. /\ light \in Seq(N) /\ Apart(light, key)
      /\ ToSet(light) = ToSet(children) \cap bright
  BY <1>4, OnlyType, OnlyApart, OnlyRange
<1>6. \A v : v \in ToSet(light) <=> Below(r, cps, maxItems, u, v) /\ Light(v, target)
  BY <1>4, <1>5
<1> HIDE DEF light, key
<1>7. /\ one \in Seq(N) /\ Apart(one, key) /\ ToSet(one) = {s}
      /\ <<>> \in Seq(N) /\ Apart(<<>>, key) /\ ToSet(<<>>) = {}
  <2>1. DOMAIN one = {1} /\ one[1] = s /\ DOMAIN <<>> = {}
    OBVIOUS
  <2>2. one \in Seq(N) /\ <<>> \in Seq(N)
    BY <1>3
  <2> QED BY <2>1, <2>2 DEF Apart, ToSet
<1>8. /\ more \in Seq(N) /\ Apart(more, key)
      /\ \A v : v \in ToSet(more) <=>
           GoesOn(u, target, maxItems) /\ Below(r, cps, maxItems, u, v) /\ Light(v, target)
  BY <1>5, <1>6, <1>7
<1> HIDE DEF more, one
<1>9. CASE ~u.new
  <2>1. met = one
    BY <1>2, <1>3, <1>9 DEF one
  <2>2. \A v : v \in ToSet(met) <=> Met(r, cps, target, maxItems, u, v)
    BY <1>7, <1>9, <2>1 DEF Met, s
  <2> QED BY <1>1, <1>7, <2>1, <2>2 DEF met, N, key
<1>10. CASE u.new
  <2>1. met = one \o more
    BY <1>2, <1>10
  <2>2. ToSet(met) = {s} \cup ToSet(more)
    BY <1>7, <1>8, <2>1, ToSetOfConcat
  <2>3. \A v : v \in ToSet(met) <=> Met(r, cps, target, maxItems, u, v)
    BY <1>8, <1>10, <2>2 DEF Met, s
  <2>4. Between(one, more, key)
    <3> SUFFICES ASSUME NEW v \in ToSet(more), key[s] = key[v] PROVE FALSE
      BY <1>7 DEF Between
    <3>1. \A t \in Seq(N) : \A j \in DOMAIN t : t[j] \in N
      BY ElementOfSeq, LenProperties
    <3>2. v \in N
      BY <1>8, <3>1 DEF ToSet
    <3>3. v.combo = u.combo
      BY <1>3, <3>2 DEF key, ByCombo, N
    <3>4. PICK i \in 1..Len(cps) :
            \E n \in 1..Joinable(r, cps, maxItems, u, i) : v = Grown(r, cps, u, i, n)
      BY <1>8 DEF Below
    <3>5. PICK n \in 1..Joinable(r, cps, maxItems, u, i) : v = Grown(r, cps, u, i, n)
      BY <3>4
    <3> DEFINE T == Parts(r)
               c == u.combo
               e == Taken(r, cps, i, n)
    <3>6. e \in T /\ v.combo = Append(c, e) /\ c \in Seq(T)
      <4>1. e \in T /\ v.combo = Append(c, e)
        BY <3>5, BelowTypes
      <4>2. c \in Combos(r)
        BY DEF Nodes
      <4> QED BY <4>1, <4>2, PartTypes
    <3> HIDE DEF T, c, e
    <3>7. Len(Append(c, e)) = Len(c) + 1 /\ Len(c) \in Nat
      BY <3>6, AppendProperties, LenProperties
    <3>8. Append(c, e) = c
      BY <3>3, <3>6 DEF c
    <3> QED BY <3>7, <3>8
  <2>5. Apart(met, key)
    BY <1>7, <1>8, <2>1, <2>4, ApartConcat
  <2> QED BY <1>1, <2>3, <2>5 DEF met, N, key
<1> QED BY <1>9, <1>10

\* A round makes of the nodes met those that should be met next.
LEMMA RoundMet ==
  ASSUME NEW r, IsRemoval(r), NEW cps \in Seq(Stocked(r)), OneEach(cps),
         NEW target \in Nat, NEW maxItems \in Nat, NEW k \in Nat, k < MaxCombinationKinds,
         NEW v
  PROVE  v \in Reached(r, cps, target, maxItems, k + 1) <=>
           \E u \in Reached(r, cps, target, maxItems, k) : Met(r, cps, target, maxItems, u, v)
<1>1. ASSUME v \in Reached(r, cps, target, maxItems, k + 1), Len(v.combo) = k + 1
      PROVE  \E u \in Reached(r, cps, target, maxItems, k) : Met(r, cps, target, maxItems, u, v)
  <2>1. PICK u \in Reached(r, cps, target, maxItems, k) :
          u.new /\ GoesOn(u, target, maxItems) /\ Below(r, cps, maxItems, u, v)
    BY <1>1, MetBefore
  <2>2. Light(v, target)
    BY <1>1, ReachedTypes DEF Within, Light
  <2> QED BY <2>1, <2>2 DEF Met
<1>2. ASSUME v \in Reached(r, cps, target, maxItems, k + 1), Len(v.combo) # k + 1
      PROVE  \E u \in Reached(r, cps, target, maxItems, k) : Met(r, cps, target, maxItems, u, v)
  <2> DEFINE u == [combo |-> v.combo, first |-> v.first, new |-> (Len(v.combo) = k)]
  <2>1. /\ v \in Nodes(r, cps) /\ Len(v.combo) \in Nat /\ Len(v.combo) <= k + 1
        /\ v = [combo |-> v.combo, first |-> v.first, new |-> v.new]
        /\ v.new \in BOOLEAN /\ ~v.new /\ Within(v.combo, target, maxItems)
    BY <1>2, ReachedTypes
  <2>2. Picked(r, cps, v)
    BY <1>2 DEF Reached
  <2>3. u.combo = v.combo /\ u.first = v.first /\ (u.new <=> Len(v.combo) = k)
    OBVIOUS
  <2>4. u \in Nodes(r, cps)
    BY <2>1 DEF Nodes
  <2>5. v = Settled(u)
    <3>1. v.new = FALSE
      BY <2>1
    <3> QED BY <2>1, <3>1 DEF Settled
  <2> HIDE DEF u
  <2>6. Len(u.combo) <= k
    BY <1>2, <2>1, <2>3
  <2>7. Picked(r, cps, u)
    BY <2>2, <2>3 DEF Picked
  <2>8. u \in Reached(r, cps, target, maxItems, k)
    BY <2>1, <2>3, <2>4, <2>6, <2>7 DEF Reached
  <2> QED BY <2>5, <2>8 DEF Met
<1>3. ASSUME NEW u \in Reached(r, cps, target, maxItems, k), v = Settled(u)
      PROVE  v \in Reached(r, cps, target, maxItems, k + 1)
  <2>1. /\ u \in Nodes(r, cps) /\ Len(u.combo) \in Nat /\ Len(u.combo) <= k
        /\ u = [combo |-> u.combo, first |-> u.first, new |-> u.new]
        /\ Within(u.combo, target, maxItems)
    BY ReachedTypes
  <2>2. v.combo = u.combo /\ v.first = u.first /\ v.new = FALSE /\ v \in Nodes(r, cps)
    BY <1>3, <2>1 DEF Settled, Nodes
  <2>3. Picked(r, cps, v)
    BY <2>2 DEF Reached, Picked
  <2>4. Len(v.combo) <= k + 1 /\ (v.new <=> Len(v.combo) = k + 1)
    BY <2>1, <2>2
  <2> QED BY <2>1, <2>2, <2>3, <2>4 DEF Reached
<1>4. ASSUME NEW u \in Reached(r, cps, target, maxItems, k), u.new,
             Below(r, cps, maxItems, u, v), Light(v, target)
      PROVE  v \in Reached(r, cps, target, maxItems, k + 1)
  BY <1>4, MetNext
<1>5. ASSUME v \in Reached(r, cps, target, maxItems, k + 1)
      PROVE  \E u \in Reached(r, cps, target, maxItems, k) : Met(r, cps, target, maxItems, u, v)
  BY <1>1, <1>2, <1>5
<1>6. ASSUME NEW u \in Reached(r, cps, target, maxItems, k), Met(r, cps, target, maxItems, u, v)
      PROVE  v \in Reached(r, cps, target, maxItems, k + 1)
  BY <1>3, <1>4, <1>6 DEF Met
<1> QED BY <1>5, <1>6

\* These nodes are those that k rounds should have met, each combination once.
HasMet(r, cps, target, maxItems, k, nodes) ==
  /\ nodes \in Seq(Nodes(r, cps))
  /\ ToSet(nodes) = Reached(r, cps, target, maxItems, k)
  /\ Apart(nodes, ByCombo(r, cps))

\* A round of the search.
LEMMA DeepenedMet ==
  ASSUME NEW r, IsRemoval(r), NEW cps \in Seq(Stocked(r)), OneEach(cps),
         NEW target \in Nat, NEW maxItems \in Nat, NEW k \in Nat, k < MaxCombinationKinds,
         NEW nodes, HasMet(r, cps, target, maxItems, k, nodes)
  PROVE  HasMet(r, cps, target, maxItems, k + 1, Deepened(cps, r.products, target, maxItems, nodes))
<1> DEFINE N == Nodes(r, cps)
           key == ByCombo(r, cps)
           m == Len(nodes)
           all == [j \in DOMAIN nodes |-> Expanded(cps, r.products, target, maxItems, nodes[j])]
           Was == Reached(r, cps, target, maxItems, k)
           next == Deepened(cps, r.products, target, maxItems, nodes)
           M(u, v) == Met(r, cps, target, maxItems, u, v)
<1>1. /\ nodes \in Seq(N) /\ m \in Nat /\ DOMAIN nodes = 1..m
      /\ \A j \in 1..m : nodes[j] \in N
      /\ ToSet(nodes) = Was /\ Apart(nodes, key)
  BY LenProperties, ElementOfSeq DEF HasMet
<1>2. next = Joined(all)
  BY DEF Deepened
<1>3. DOMAIN all = 1..m /\ all = [j \in 1..m |-> all[j]]
      /\ \A j \in 1..m : all[j] = Expanded(cps, r.products, target, maxItems, nodes[j])
  BY <1>1
<1> HIDE DEF all, next, m
<1>4. ASSUME NEW j \in 1..m
      PROVE  /\ all[j] \in Seq(N) /\ Apart(all[j], key)
             /\ \A v : v \in ToSet(all[j]) <=> M(nodes[j], v)
  BY <1>1, <1>3, ExpandedMet
<1> HIDE DEF N, key, M, Was
<1>5. all \in Seq(Seq(N)) /\ Len(all) = m
  <2>1. m \in Int /\ m >= 0 /\ \A j \in 1..m : all[j] \in Seq(N)
    BY <1>1, <1>4
  <2> QED BY <1>3, <2>1, MadeSeq
<1>6. next \in Seq(N) /\ ToSet(next) = AllOf(all)
  BY <1>2, <1>5, JoinedEntries, JoinedType
<1>7. \A v : v \in AllOf(all) <=> \E j \in 1..m : M(nodes[j], v)
  <2>1. \A v : v \in AllOf(all) <=> \E j \in 1..m : v \in ToSet(all[j])
    BY <1>5 DEF AllOf
  <2> QED BY <1>4, <2>1
<1>8. \A u : u \in Was <=> \E j \in 1..m : u = nodes[j]
  BY <1>1 DEF ToSet
<1>9. \A v : v \in AllOf(all) <=> \E u \in Was : M(u, v)
  BY <1>7, <1>8
<1>10. ToSet(next) = Reached(r, cps, target, maxItems, k + 1)
  <2>1. \A v : v \in Reached(r, cps, target, maxItems, k + 1) <=> \E u \in Was : M(u, v)
    BY RoundMet DEF Was, M
  <2> QED BY <1>6, <1>9, <2>1
<1>11. \A i, j \in 1..m : i # j => Between(all[i], all[j], key)
  <2> SUFFICES ASSUME NEW i \in 1..m, NEW j \in 1..m, i # j,
                      NEW v \in ToSet(all[i]), NEW x \in ToSet(all[j]), key[v] = key[x]
               PROVE  FALSE
    BY DEF Between
  <2> DEFINE u == nodes[i]
             w == nodes[j]
  <2>1. u \in Was /\ w \in Was /\ u \in N /\ w \in N
    BY <1>1, <1>8
  <2>2. key[u] # key[w]
    BY <1>1 DEF Apart
  <2>3. u.combo # w.combo
    BY <2>1, <2>2 DEF key, ByCombo, N
  <2>4. M(u, v) /\ M(w, x)
    BY <1>4
  <2>5. v \in N /\ x \in N
    <3>1. \A t \in Seq(N) : \A l \in DOMAIN t : t[l] \in N
      BY ElementOfSeq, LenProperties
    <3> QED BY <1>4, <3>1 DEF ToSet
  <2>6. v.combo = x.combo
    BY <2>5 DEF key, ByCombo, N
  <2> HIDE DEF u, w
  <2> QED BY <2>1, <2>3, <2>4, <2>6, MetApart DEF M, Was
<1>12. Apart(next, key)
  BY <1>2, <1>4, <1>5, <1>11, JoinedEntries
<1> QED BY <1>6, <1>10, <1>12 DEF HasMet, N, key, next

\* Before the first round there is the empty combination.
LEMMA RootMet ==
  ASSUME NEW r, IsRemoval(r), NEW cps \in Seq(Stocked(r)), OneEach(cps),
         NEW target \in Nat, NEW maxItems \in Nat
  PROVE  HasMet(r, cps, target, maxItems, 0, <<Root>>)
<1>1. DOMAIN <<Root>> = {1} /\ <<Root>>[1] = Root /\ DOMAIN <<>> = {}
  OBVIOUS
<1>2. Root.combo = <<>> /\ Root.first = 1 /\ Root.new = TRUE /\ Len(Root.combo) = 0
      /\ <<>> \in Seq(Parts(r)) /\ Len(<<>>) = 0
  BY DEF Root
<1>3. Root \in Nodes(r, cps)
  <2>1. <<>> \in Combos(r)
    BY <1>1, EmptySeq DEF Combos
  <2> QED BY <1>1, <2>1 DEF Nodes, Root
<1>4. Root \in Reached(r, cps, target, maxItems, 0)
  <2> DEFINE p == [i \in 1..0 |-> 1]
  <2>1. Chooses(r, cps, p, <<>>) /\ After(p, <<>>) = 1
    <3>1. 1..0 = {} /\ p \in [1..0 -> 1..Len(cps)]
      OBVIOUS
    <3> HIDE DEF p
    <3> QED BY <1>2, <3>1 DEF Chooses, After
  <2>2. Picked(r, cps, Root)
    BY <1>2, <2>1 DEF Picked
  <2>3. Within(Root.combo, target, maxItems)
    BY <1>2 DEF Within
  <2> QED BY <1>2, <1>3, <2>2, <2>3 DEF Reached
<1>5. ASSUME NEW v \in Reached(r, cps, target, maxItems, 0) PROVE v = Root
  <2>1. /\ v.combo \in Seq(Parts(r)) /\ Len(v.combo) = 0 /\ v.new = TRUE
        /\ v = [combo |-> v.combo, first |-> v.first, new |-> v.new]
    BY ReachedTypes
  <2>2. v.combo = <<>>
    BY <2>1, EmptySeq
  <2>3. v.first = 1
    BY <2>1 DEF Reached, Picked, After
  <2> QED BY <2>1, <2>2, <2>3 DEF Root
<1>6. ToSet(<<Root>>) = {Root}
  BY <1>1 DEF ToSet
<1>7. Apart(<<Root>>, ByCombo(r, cps))
  BY <1>1 DEF Apart
<1>8. <<Root>> \in Seq(Nodes(r, cps))
  BY <1>3
<1> QED BY <1>4, <1>5, <1>6, <1>7, <1>8 DEF HasMet

\* The search meets every choice that is neither too heavy nor too many, once.
LEMMA VisitedMet ==
  ASSUME NEW r, IsRemoval(r), NEW cps \in Seq(Stocked(r)), OneEach(cps),
         NEW target \in Nat, NEW maxItems \in Nat
  PROVE  HasMet(r, cps, target, maxItems, MaxCombinationKinds,
                Visited(cps, r.products, target, maxItems))
<1> DEFINE n == MaxCombinationKinds
<1>1. n \in Nat /\ maxItems \in Int
  BY ConstantTypes
<1>2. PICK h \in Rounds(r, cps, target, maxItems) :
        Visited(cps, r.products, target, maxItems) = h[n]
  BY <1>1, VisitedFold
<1> DEFINE K == {k \in 0..n : HasMet(r, cps, target, maxItems, k, h[k])}
<1>3. /\ h[0] = <<Root>>
      /\ \A k \in 1..n : h[k] = Deepened(cps, r.products, target, maxItems, h[k - 1])
  BY <1>2 DEF Rounds
<1>4. 0 \in K
  BY <1>1, <1>3, RootMet
<1>5. ASSUME NEW k \in 1..n, k - 1 \in K PROVE k \in K
  <2> DEFINE j == k - 1
  <2>1. j \in Nat /\ j < n /\ j + 1 = k /\ k \in 0..n
    BY <1>1
  <2>2. HasMet(r, cps, target, maxItems, j, h[j])
    BY <1>5
  <2>3. h[k] = Deepened(cps, r.products, target, maxItems, h[j])
    BY <1>3
  <2> HIDE DEF j
  <2>4. HasMet(r, cps, target, maxItems, j + 1, h[k])
    BY <2>1, <2>2, <2>3, DeepenedMet
  <2> QED BY <2>1, <2>4
<1> HIDE DEF K
<1>6. n \in K
  <2>1. \A k \in 0..n : k \in K
    BY <1>1, <1>4, <1>5, Counting
  <2> QED BY <1>1, <2>1
<1> QED BY <1>2, <1>6 DEF K

\* The combinations met that weigh right.
Explained(r, cps, target, maxItems) ==
  {c \in Combos(r) :
     /\ c # <<>> /\ ErrorOf(c, target) <= ToleranceGrams
     /\ \E v \in Reached(r, cps, target, maxItems, MaxCombinationKinds) : c = v.combo}

\* The search returns each of these once, unless there are more than it may.
LEMMA FoundMet ==
  ASSUME NEW r, IsRemoval(r), NEW cps \in Seq(Stocked(r)), OneEach(cps),
         NEW target \in Nat, NEW maxItems \in Nat,
         Cardinality(Explained(r, cps, target, maxItems)) < MaxCombinations
  PROVE  LET found == Backtrack(cps, r.products, target, maxItems)
         IN  /\ ToSet(found) = Explained(r, cps, target, maxItems)
             /\ Len(found) = Cardinality(ToSet(found))
<1> DEFINE nodes == Visited(cps, r.products, target, maxItems)
           N == Nodes(r, cps)
           C == Combos(r)
           m == Len(nodes)
           combos == [k \in DOMAIN nodes |-> nodes[k].combo]
           right == {c \in ToSet(combos) : c # <<>> /\ ErrorOf(c, target) <= ToleranceGrams}
           found == Only(combos, right)
           few == Least(MaxCombinations, Len(found))
           id == [c \in C |-> c]
           Seen == Reached(r, cps, target, maxItems, MaxCombinationKinds)
           X == Explained(r, cps, target, maxItems)
<1>1. nodes \in Seq(N) /\ ToSet(nodes) = Seen /\ Apart(nodes, ByCombo(r, cps))
  BY VisitedMet DEF HasMet
<1>2. Backtrack(cps, r.products, target, maxItems) = SubSeq(found, 1, few)
  BY DEF Backtrack, Explaining
<1>3. X = {c \in C : /\ c # <<>> /\ ErrorOf(c, target) <= ToleranceGrams
                     /\ \E v \in Seen : c = v.combo}
  BY DEF Explained
<1> HIDE DEF nodes, Seen, X
<1>4. m \in Nat /\ DOMAIN nodes = 1..m /\ \A k \in 1..m : nodes[k] \in N
  BY <1>1, LenProperties, ElementOfSeq
<1>5. DOMAIN combos = 1..m /\ combos = [k \in 1..m |-> combos[k]]
      /\ \A k \in 1..m : combos[k] = nodes[k].combo
  BY <1>4
<1> HIDE DEF combos, m
<1>6. \A k \in 1..m : combos[k] \in C
  BY <1>4, <1>5 DEF Nodes
<1> HIDE DEF C
<1>7. combos \in Seq(C)
  BY <1>4, <1>5, <1>6, MadeSeq
<1>8. Apart(combos, id)
  <2> SUFFICES ASSUME NEW i \in 1..m, NEW j \in 1..m, id[combos[i]] = id[combos[j]]
               PROVE  i = j
    BY <1>5 DEF Apart
  <2>1. nodes[i].combo = nodes[j].combo
    BY <1>5, <1>6
  <2>2. ByCombo(r, cps)[nodes[i]] = ByCombo(r, cps)[nodes[j]]
    BY <1>4, <2>1 DEF ByCombo
  <2> QED BY <1>1, <1>4, <2>2 DEF Apart
<1>9. ToSet(combos) = {v.combo : v \in Seen}
  <2>1. \A v : v \in Seen <=> \E k \in 1..m : v = nodes[k]
    BY <1>1, <1>4 DEF ToSet
  <2>2. \A c : c \in ToSet(combos) <=> \E k \in 1..m : c = nodes[k].combo
    BY <1>5 DEF ToSet
  <2> QED BY <2>1, <2>2
<1>10. ToSet(combos) \cap right = X
  <2>1. ToSet(combos) \subseteq C
    BY <1>5, <1>6 DEF ToSet
  <2> QED BY <1>3, <1>9, <2>1
<1> HIDE DEF right, id
<1>11. found \in Seq(C) /\ ToSet(found) = X /\ Apart(found, id)
  BY <1>7, <1>8, <1>10, OnlyType, OnlyRange, OnlyApart
<1> HIDE DEF found
<1>12. \A i, j \in DOMAIN found : found[i] = found[j] => i = j
  <2>1. \A i \in DOMAIN found : found[i] \in C
    BY <1>11, LenProperties, ElementOfSeq
  <2> QED BY <1>11, <2>1 DEF Apart, id
<1>13. Cardinality(X) = Len(found) /\ Len(found) \in Nat
  BY <1>11, <1>12, ApartLen, LenProperties
<1>14. few = Len(found)
  <2>1. Len(found) < MaxCombinations
    BY <1>13 DEF X
  <2> QED BY <1>13, <2>1, ConstantTypes DEF Least
<1>15. SubSeq(found, 1, few) = found
  <2>1. found = [k \in 1..Len(found) |-> found[k]]
    BY <1>11, LenProperties
  <2> QED BY <1>11, <1>14, <2>1
<1> QED BY <1>2, <1>11, <1>13, <1>15 DEF X

\* By definition, the choice of the candidates at these ranks in these numbers.
Choice(r, cps, p, f) == [k \in DOMAIN p |-> Taken(r, cps, p[k], f[k])]

\* What is admissible, in the terms of the search.
LEMMA AdmissibleChoices ==
  ASSUME NEW r
  PROVE  LET cps == ExtractCandidateProducts(r.cands, r.products)
             most == Least(MaxCountPerItem, StrictMaxItems(r))
         IN  \A c : c \in Admissible(r) <=>
               /\ \E p \in Rising(Len(cps), MaxCombinationKinds) :
                    \E f \in [DOMAIN p -> 1..most] : c = Choice(r, cps, p, f)
               /\ \A k \in DOMAIN c : c[k].n <= r.products[c[k].cand.id].stock
               /\ UnitsOf(c) <= StrictMaxItems(r)
               /\ ErrorOf(c, r.target) <= ToleranceGrams
<1> DEFINE cps == ExtractCandidateProducts(r.cands, r.products)
           most == Least(MaxCountPerItem, StrictMaxItems(r))
           Right(c) == /\ \A k \in DOMAIN c : c[k].n <= r.products[c[k].cand.id].stock
                       /\ UnitsOf(c) <= StrictMaxItems(r)
                       /\ ErrorOf(c, r.target) <= ToleranceGrams
           R == Rising(Len(cps), MaxCombinationKinds)
<1>1. Admissible(r) = {c \in UNION {{Choice(r, cps, p, f) : f \in [DOMAIN p -> 1..most]} : p \in R} :
                         Right(c)}
  BY DEF Admissible, Choice, Taken
<1> HIDE DEF Right, R, cps, most
<1>2. \A c : c \in Admissible(r) <=>
               /\ \E p \in R : \E f \in [DOMAIN p -> 1..most] : c = Choice(r, cps, p, f)
               /\ Right(c)
  BY <1>1
<1> QED BY <1>2 DEF Right, R, cps, most

\* What is admissible by definition is explained by the search.
LEMMA AdmissibleExplained ==
  ASSUME NEW r, IsRemoval(r), OneEach(r.cands), NEW c \in Admissible(r)
  PROVE  c \in Explained(r, ExtractCandidateProducts(r.cands, r.products), r.target,
                         StrictMaxItems(r))
<1> DEFINE cps == ExtractCandidateProducts(r.cands, r.products)
           maxItems == StrictMaxItems(r)
           most == Least(MaxCountPerItem, maxItems)
           K == MaxCombinationKinds
<1>1. /\ cps \in Seq(Stocked(r)) /\ OneEach(cps) /\ maxItems \in Nat /\ r.target \in Nat
      /\ K \in Nat /\ MaxCountPerItem \in Nat /\ ToleranceGrams \in Nat
  BY RemovalTypes, ExtractedType, LimitTypes, ConstantTypes
<1>2. /\ \E p \in Rising(Len(cps), K) : \E f \in [DOMAIN p -> 1..most] : c = Choice(r, cps, p, f)
      /\ \A k \in DOMAIN c : c[k].n <= r.products[c[k].cand.id].stock
      /\ UnitsOf(c) <= maxItems
      /\ ErrorOf(c, r.target) <= ToleranceGrams
  BY AdmissibleChoices
<1> HIDE DEF cps, maxItems
<1>3. PICK p \in Rising(Len(cps), K) : \E f \in [DOMAIN p -> 1..most] : c = Choice(r, cps, p, f)
  BY <1>2
<1>4. PICK f \in [DOMAIN p -> 1..most] : c = Choice(r, cps, p, f)
  BY <1>3
<1>5. PICK m \in 1..K : p \in [1..m -> 1..Len(cps)] /\ \A i, j \in 1..m : i < j => p[i] < p[j]
  BY DEF Rising
<1>6. m \in Nat \ {0} /\ DOMAIN p = 1..m /\ \A k \in 1..m : p[k] \in 1..Len(cps) /\ f[k] \in 1..most
  BY <1>1, <1>4, <1>5
<1>7. /\ DOMAIN c = 1..m /\ c = [k \in 1..m |-> c[k]]
      /\ \A k \in 1..m : c[k] = Taken(r, cps, p[k], f[k])
  BY <1>4, <1>6 DEF Choice
<1>8. ASSUME NEW k \in 1..m
      PROVE  /\ c[k].n \in 1..Takeable(r, cps, p[k]) /\ c[k] \in Parts(r)
             /\ c[k] = Taken(r, cps, p[k], c[k].n)
  <2>1. c[k] = Taken(r, cps, p[k], f[k]) /\ c[k].n = f[k] /\ c[k].cand = cps[p[k]]
    BY <1>7 DEF Taken
  <2>2. p[k] \in 1..Len(cps) /\ f[k] \in 1..most
    BY <1>6
  <2>3. r.products[cps[p[k]].id].stock \in Nat
    BY <1>1, <2>2, StockedTypes
  <2>4. f[k] <= r.products[cps[p[k]].id].stock
    BY <1>2, <1>7, <2>1
  <2>5. f[k] \in 1..Takeable(r, cps, p[k])
    BY <1>1, <2>2, <2>3, <2>4 DEF Takeable, Least
  <2>6. Taken(r, cps, p[k], f[k]) \in Parts(r)
    BY <1>1, <2>2, <2>5, StockedTypes
  <2> QED BY <2>1, <2>5, <2>6
<1> HIDE DEF K
<1>9. c \in Seq(Parts(r)) /\ Len(c) = m
  <2>1. m \in Int /\ m >= 0 /\ \A k \in 1..m : c[k] \in Parts(r)
    BY <1>6, <1>8
  <2> QED BY <1>7, <2>1, MadeSeq
<1>10. Chooses(r, cps, p, c)
  BY <1>5, <1>8, <1>9 DEF Chooses
<1> DEFINE new == (m = K)
           v == [combo |-> c, first |-> After(p, c), new |-> new]
<1>11. c \in Combos(r) /\ v \in Nodes(r, cps)
  BY <1>1, <1>9, <1>10, ChosenNode
<1>12. v.combo = c /\ v.first = After(p, c) /\ (v.new <=> m = K)
  OBVIOUS
<1> HIDE DEF v
<1>13. Within(c, r.target, maxItems)
  <2>1. WeightOf(c) \in Nat
    BY <1>9, PartSums
  <2>2. WeightOf(c) <= r.target + ToleranceGrams
    BY <1>1, <1>2, <2>1 DEF ErrorOf, Gap
  <2> QED BY <1>2, <2>2 DEF Within
<1>14. v \in Reached(r, cps, r.target, maxItems, K)
  <2>1. Picked(r, cps, v)
    BY <1>10, <1>12 DEF Picked
  <2>2. Len(v.combo) <= K /\ (v.new <=> Len(v.combo) = K)
    BY <1>1, <1>9, <1>12
  <2> QED BY <1>11, <1>12, <1>13, <2>1, <2>2 DEF Reached
<1>15. c # <<>>
  <2>1. Len(c) # 0
    BY <1>6, <1>9
  <2> QED BY <2>1
<1> QED BY <1>2, <1>11, <1>12, <1>14, <1>15 DEF Explained, K, cps, maxItems

\* And what the search explains is admissible.
LEMMA ExplainedAdmissible ==
  ASSUME NEW r, IsRemoval(r), OneEach(r.cands),
         NEW c \in Explained(r, ExtractCandidateProducts(r.cands, r.products), r.target,
                             StrictMaxItems(r))
  PROVE  c \in Admissible(r)
<1> DEFINE cps == ExtractCandidateProducts(r.cands, r.products)
           maxItems == StrictMaxItems(r)
           most == Least(MaxCountPerItem, maxItems)
           K == MaxCombinationKinds
           m == Len(c)
<1>1. /\ cps \in Seq(Stocked(r)) /\ OneEach(cps) /\ maxItems \in Nat
      /\ K \in Nat /\ MaxCountPerItem \in Nat
  BY RemovalTypes, ExtractedType, LimitTypes, ConstantTypes
<1>2. /\ c \in Combos(r) /\ c # <<>> /\ ErrorOf(c, r.target) <= ToleranceGrams
      /\ \E v \in Reached(r, cps, r.target, maxItems, K) : c = v.combo
  BY DEF Explained
<1>0. ASSUME \/ ~ (\E p \in Rising(Len(cps), K) : \E f \in [DOMAIN p -> 1..most] : c = Choice(r, cps, p, f))
             \/ ~ (\A k \in DOMAIN c : c[k].n <= r.products[c[k].cand.id].stock)
             \/ ~ (UnitsOf(c) <= maxItems)
      PROVE  FALSE
  <2> HIDE DEF cps, maxItems
  <2>1. PICK v \in Reached(r, cps, r.target, maxItems, K) : c = v.combo
    BY <1>2
  <2>2. c \in Seq(Parts(r)) /\ m \in Nat /\ m <= K /\ Within(c, r.target, maxItems)
    BY <2>1, ReachedTypes
  <2>3. PICK p : Chooses(r, cps, p, c)
    BY <2>1 DEF Reached, Picked
  <2> HIDE DEF K
  <2>4. m \in 1..K
    <3>1. m # 0
      BY <1>2, <2>2, EmptySeq
    <3> QED BY <1>1, <2>2, <3>1
  <2>5. UnitsOf(c) <= maxItems /\ \A k \in 1..m : c[k].n <= UnitsOf(c)
    BY <2>2, <2>4, PartSums DEF Within
  <2>6. UnitsOf(c) \in Nat /\ DOMAIN c = 1..m /\ c = [k \in 1..m |-> c[k]]
    BY <2>2, PartSums, LenProperties
  <2>7. /\ p \in [1..m -> 1..Len(cps)] /\ \A i, j \in 1..m : i < j => p[i] < p[j]
        /\ \A k \in 1..m : /\ c[k] = Taken(r, cps, p[k], c[k].n)
                           /\ c[k].n \in 1..Takeable(r, cps, p[k])
    BY <2>3 DEF Chooses
  <2> HIDE DEF m
  <2>8. ASSUME NEW k \in 1..m
        PROVE  c[k].n \in 1..most /\ c[k].n <= r.products[c[k].cand.id].stock
    <3>1. p[k] \in 1..Len(cps) /\ c[k].n \in 1..Takeable(r, cps, p[k]) /\ c[k].n <= UnitsOf(c)
      BY <2>5, <2>7
    <3>2. r.products[cps[p[k]].id].stock \in Nat
      BY <1>1, <3>1, StockedTypes
    <3>3. c[k].cand = cps[p[k]]
      <4> DEFINE n == c[k].n
      <4>1. c[k] = Taken(r, cps, p[k], n)
        BY <2>7
      <4> HIDE DEF n
      <4> QED BY <4>1 DEF Taken
    <3> DEFINE n == c[k].n
               stock == r.products[cps[p[k]].id].stock
               units == UnitsOf(c)
    <3>4. /\ n \in 1..Least(stock, MaxCountPerItem) /\ n <= units /\ units <= maxItems
          /\ stock \in Nat /\ units \in Nat
      BY <2>5, <2>6, <3>1, <3>2 DEF Takeable
    <3> HIDE DEF n, stock, units
    <3>5. n \in 1..most /\ n <= stock
      BY <1>1, <3>4 DEF Least
    <3> QED BY <3>3, <3>5 DEF n, stock
  <2>9. p \in Rising(Len(cps), K)
    BY <2>4, <2>7 DEF Rising
  <2> DEFINE f == [k \in 1..m |-> c[k].n]
  <2>10. DOMAIN p = 1..m /\ f \in [1..m -> 1..most] /\ \A k \in 1..m : f[k] = c[k].n
    BY <2>7, <2>8
  <2> HIDE DEF f, most
  <2>11. \A k \in 1..m : c[k] = Taken(r, cps, p[k], f[k])
    BY <2>7, <2>10
  <2>12. c = Choice(r, cps, p, f)
    BY <2>6, <2>10, <2>11 DEF Choice
  <2>13. \E g \in [DOMAIN p -> 1..most] : c = Choice(r, cps, p, g)
    BY <2>10, <2>12
  <2> QED BY <1>0, <2>5, <2>6, <2>8, <2>9, <2>13
<1> QED BY <1>0, <1>2, AdmissibleChoices

-----------------------------------------------------------------------------
(* What is explained is billed *)

\* More units are allowed more grams.
LEMMA SlackOfMore ==
  ASSUME NEW n \in Nat, NEW m \in Nat, m <= n
  PROVE  CountScaledTolerance(m) <= CountScaledTolerance(n)
<1> DEFINE a == SameProductTolerance
           d == n - m
<1>1. a \in Nat /\ ToleranceGrams \in Nat /\ d \in Nat /\ n = m + d
  BY ConstantTypes
<1>2. \A k \in Nat : CountScaledTolerance(k) = ToleranceGrams + a * k
  BY DEF CountScaledTolerance
<1> HIDE DEF a, d
<1>3. a * n = a * m + a * d /\ a * d \in Nat /\ a * m \in Nat
  BY <1>1
<1> QED BY <1>1, <1>2, <1>3

\* The last guard allows every branch the tolerance, and several units theirs.
LEMMA SlackAtLeast ==
  ASSUME NEW r, NEW items \in Seq(Billable(r)), NEW branch
  PROVE  /\ ToleranceGrams <= FullDeltaTolerance(items, branch)
         /\ FullDeltaTolerance(items, branch) \in Int
         /\ UnitCount(items) > 1 =>
              CountScaledTolerance(UnitCount(items)) <= FullDeltaTolerance(items, branch)
<1> DEFINE n == UnitCount(items)
           t == FullDeltaTolerance(items, branch)
<1>1. n \in Nat
  BY ItemTypes
<1>2. IF n > 1 THEN t \in {CountScaledTolerance(n), CountScaledTolerance(n + 1)}
      ELSE t \in {ToleranceGrams, Most(ToleranceGrams, Most(DetectedSingleTolerance, RescueTolerance))}
  <2>1. n + 0 = n
    BY <1>1
  <2> HIDE DEF n
  <2> QED BY <2>1 DEF FullDeltaTolerance, n
<1> HIDE DEF n, t
<1>3. /\ CountScaledTolerance(n) \in Nat /\ CountScaledTolerance(n + 1) \in Nat
      /\ CountScaledTolerance(n) <= CountScaledTolerance(n + 1)
      /\ ToleranceGrams <= CountScaledTolerance(n)
      /\ ToleranceGrams <= CountScaledTolerance(n + 1)
  <2>1. n + 1 \in Nat
    BY <1>1
  <2> QED BY <1>1, <2>1, SlackGrows
<1>4. /\ ToleranceGrams \in Nat /\ DetectedSingleTolerance \in Nat /\ RescueTolerance \in Nat
  BY ConstantTypes, DecisionAssumption
<1>5. /\ Most(ToleranceGrams, Most(DetectedSingleTolerance, RescueTolerance)) \in Nat
      /\ ToleranceGrams <= Most(ToleranceGrams, Most(DetectedSingleTolerance, RescueTolerance))
  BY <1>4 DEF Most
<1> QED BY <1>1, <1>2, <1>3, <1>4, <1>5 DEF n, t

\* What weighs right passes the last guard.
LEMMA Passes ==
  ASSUME NEW r, IsRemoval(r), NEW res, Sound(r, res), IsSuccess(res), NEW branch,
         Gap(r.target, ItemWeight(res.items)) <= FullDeltaTolerance(res.items, branch)
  PROVE  EnforceFullDelta(r, res, branch) = res
<1> DEFINE w == ItemWeight(res.items)
           explained == IF w > 0 THEN w ELSE Most(0, res.explained)
<1>1. w \in Nat /\ res.explained = w
  BY ItemTypes DEF Sound
<1>2. explained = w
  BY <1>1 DEF Most
<1>3. Gap(r.target, explained) <= FullDeltaTolerance(res.items, branch)
  BY <1>2
<1> HIDE DEF explained, w
<1> QED BY <1>3 DEF EnforceFullDelta, explained, w

\* A candidate that wins over products of its weight passes
\* (_same_weight_collision_guard).
LEMMA CollisionPasses ==
  ASSUME NEW r, IsRemoval(r)
  PROVE  LET res == SameWeightCollisionGuard(r)
         IN  \/ res = None
             \/ /\ res.status = "complete" /\ res.items # <<>>
                /\ EnforceFullDelta(r, res, "same_weight") = res
<1> DEFINE wins == {i \in DOMAIN Top(r.cands) : CollisionWins(r, i)}
           m == CHOOSE i \in wins : \A j \in wins : i <= j
           c == r.cands[m]
           n == CollisionCount(r, c)
           unit == r.products[c.id].weight
           allowed == BottleRepeatAllowance(c, m, n, unit)
           res == SameWeightCollisionGuard(r)
<1>1. CASE wins = {}
  BY <1>1 DEF SameWeightCollisionGuard
<1>2. CASE wins # {}
  <2>1. wins \in SUBSET DOMAIN r.cands
    BY TopPlaces
  <2>2. res = Single("complete", c.id, n, unit)
    BY <1>2 DEF SameWeightCollisionGuard
  <2>3. Sound(r, res)
    BY CollisionSound
  <2> HIDE DEF wins
  <2>4. m \in wins
    BY <1>2, <2>1, FirstOfRanks
  <2> HIDE DEF m, res
  <2>5. Sellable(r, c.id) /\ Gap(r.target, unit * n) <= allowed
    BY <2>4 DEF wins, CollisionWins
  <2>6. n \in Nat \ {0} /\ r.target \in Nat /\ unit \in Nat
    <3>1. r.target \in Nat /\ r.products[c.id].weight \in Nat \ {0}
      BY <2>5, RemovalTypes DEF Sellable
    <3> QED BY <3>1, RoundType DEF CollisionCount
  <2> DEFINE items == <<Item(c.id, n, unit)>>
  <2>7. res.items = items /\ res.status = "complete" /\ res.explained = unit * n
    BY <2>2 DEF Single
  <2>8. UnitCount(items) = n
    BY <2>6, OneItem
  <2>9. ItemWeight(items) = unit * n /\ items \in Seq(Billable(r))
    BY <2>3, <2>7 DEF Sound, IsSuccess
  <2>0. \/ n = 1 /\ allowed = ToleranceGrams
        \/ n > 1 /\ allowed = CountScaledTolerance(n)
        \/ n = 2 /\ IsBottle(unit) /\ allowed = CountScaledTolerance(n + 1)
    <3> HIDE DEF n, unit, c
    <3> QED BY <2>6 DEF BottleRepeatAllowance
  <2>10. allowed <= FullDeltaTolerance(items, "same_weight")
    <3>2. ASSUME n = 2, IsBottle(unit)
          PROVE  FullDeltaTolerance(items, "same_weight") = CountScaledTolerance(n + 1)
      <4>1. DOMAIN items = {1} /\ items[1].unit = unit
        BY DEF Item
      <4>2. BottleRepeat(items)
        <5> HIDE DEF items, n, unit
        <5> QED BY <3>2, <4>1 DEF BottleRepeat
      <4> HIDE DEF n, items
      <4> QED BY <2>8, <3>2, <4>2 DEF FullDeltaTolerance
    <3> HIDE DEF items, allowed
    <3>3. /\ ToleranceGrams <= FullDeltaTolerance(items, "same_weight")
          /\ FullDeltaTolerance(items, "same_weight") \in Int
          /\ n > 1 => CountScaledTolerance(n) <= FullDeltaTolerance(items, "same_weight")
      BY <2>8, <2>9, SlackAtLeast
    <3> HIDE DEF n, unit
    <3> QED BY <2>0, <3>2, <3>3
  <2>11. items # <<>>
    OBVIOUS
  <2> HIDE DEF items
  <2>12. Gap(r.target, ItemWeight(res.items)) <= FullDeltaTolerance(res.items, "same_weight")
    <3>1. Gap(r.target, unit * n) \in Int
      BY <2>6 DEF Gap
    <3>2. allowed \in Int /\ FullDeltaTolerance(items, "same_weight") \in Int
      <4>1. FullDeltaTolerance(items, "same_weight") \in Int
        BY <2>9, SlackAtLeast
      <4>2. /\ ToleranceGrams \in Nat /\ CountScaledTolerance(n) \in Nat
            /\ CountScaledTolerance(n + 1) \in Nat
        BY <2>6, ConstantTypes, SlackGrows
      <4> HIDE DEF n, unit, allowed
      <4> QED BY <2>0, <4>1, <4>2
    <3> DEFINE off == Gap(r.target, unit * n)
               slack == FullDeltaTolerance(items, "same_weight")
    <3>3. off \in Int /\ slack \in Int /\ allowed \in Int /\ off <= allowed /\ allowed <= slack
      BY <2>5, <2>10, <3>1, <3>2
    <3>4. Gap(r.target, ItemWeight(res.items)) = off
          /\ FullDeltaTolerance(res.items, "same_weight") = slack
      BY <2>7, <2>9
    <3> HIDE DEF off, slack, allowed
    <3>5. off <= slack
      BY <3>3
    <3> QED BY <3>4, <3>5
  <2>13. EnforceFullDelta(r, res, "same_weight") = res
    BY <2>3, <2>7, <2>12, Passes DEF IsSuccess
  <2> QED BY <2>7, <2>11, <2>13 DEF res
<1> QED BY <1>1, <1>2

\* So does what the strict strategies choose (_select_strict).
LEMMA StrictPasses ==
  ASSUME NEW r, IsRemoval(r), NEW best \in Exact(r, r.target), best # <<>>
  PROVE  LET res == SelectStrict(r, best)
         IN  /\ res.status = "complete" /\ res.items # <<>>
             /\ EnforceFullDelta(r, res, "strict_match") = res
<1> DEFINE grace == PriorityGrace(r, best)
           given == FromCombo(best)
<1>1. best \in Combos(r) /\ ErrorOf(best, r.target) <= ToleranceGrams
  BY DEF Exact
<1>2. grace = None \/ \E ranks : GraceOf(r, best, ranks)
  BY <1>1, GraceChosen
<1>3. SelectStrict(r, best) = IF grace = None THEN given ELSE grace
  BY DEF SelectStrict, ??
<1>4. given.status = "complete" /\ given.items # <<>>
      /\ EnforceFullDelta(r, given, "strict_match") = given
  <2> DEFINE items == given.items
             slack == FullDeltaTolerance(items, "strict_match")
  <2>1. given.status = "complete" /\ IsSuccess(given) /\ given.explained = WeightOf(best)
        /\ DOMAIN items = DOMAIN best
    BY DEF FromCombo, IsSuccess
  <2>2. Sound(r, given)
    BY <1>1, FromComboSound
  <2> HIDE DEF given
  <2>3. items \in Seq(Billable(r)) /\ ItemWeight(items) = WeightOf(best)
    BY <2>1, <2>2 DEF Sound
  <2> DEFINE w == ItemWeight(items)
             off == Gap(r.target, w)
  <2>4. w \in Nat /\ r.target \in Nat /\ slack \in Int /\ ToleranceGrams <= slack
        /\ ToleranceGrams \in Nat
    BY <2>3, ItemTypes, SlackAtLeast, RemovalTypes, ConstantTypes
  <2>5. Gap(w, r.target) <= ToleranceGrams
    BY <1>1, <2>3 DEF ErrorOf
  <2> HIDE DEF w, slack
  <2>6. off <= slack
    BY <2>4, <2>5 DEF Gap
  <2> HIDE DEF off
  <2>7. EnforceFullDelta(r, given, "strict_match") = given
    BY <2>1, <2>2, <2>6, Passes DEF off, w, slack
  <2>8. items # <<>>
    <3>1. best \in Seq(Parts(r))
      BY <1>1 DEF Combos
    <3>2. Len(best) \in Nat /\ DOMAIN best = 1..Len(best) /\ Len(best) # 0
      BY <3>1, LenProperties, EmptySeq
    <3>3. 1 \in DOMAIN best /\ DOMAIN <<>> = {}
      BY <3>2
    <3> HIDE DEF items
    <3> QED BY <2>1, <3>3
  <2> QED BY <2>1, <2>7, <2>8
<1>5. ASSUME grace # None
      PROVE  /\ grace.status = "complete" /\ grace.items # <<>>
             /\ EnforceFullDelta(r, grace, "strict_match") = grace
  <2>1. PICK ranks : GraceOf(r, best, ranks)
    BY <1>2, <1>5
  <2>2. /\ Sound(r, grace) /\ grace.status = "complete" /\ grace.items # <<>>
        /\ Len(best) >= 2 /\ UnitCount(grace.items) >= Len(best)
        /\ Gap(r.target, ItemWeight(grace.items)) <= CountScaledTolerance(Len(best))
    BY <1>1, <2>1, GraceItems
  <2> HIDE DEF grace
  <2> DEFINE items == grace.items
             n == UnitCount(items)
             off == Gap(r.target, ItemWeight(items))
             slack == FullDeltaTolerance(items, "strict_match")
  <2>3. items \in Seq(Billable(r))
    BY <2>2 DEF Sound
  <2>4. n \in Nat /\ ItemWeight(items) \in Nat /\ slack \in Int /\ Len(best) \in Nat
        /\ r.target \in Nat /\ (n > 1 => CountScaledTolerance(n) <= slack)
    <3>1. n \in Nat /\ ItemWeight(items) \in Nat
      BY <2>3, ItemTypes
    <3>2. slack \in Int /\ (n > 1 => CountScaledTolerance(n) <= slack)
      BY <2>3, SlackAtLeast
    <3>3. best \in Seq(Parts(r))
      BY <1>1 DEF Combos
    <3>4. Len(best) \in Nat /\ r.target \in Nat
      BY <3>3, RemovalTypes, LenProperties
    <3> QED BY <3>1, <3>2, <3>4
  <2>5. off \in Int
    BY <2>4 DEF Gap
  <2>6. n >= Len(best) /\ Len(best) >= 2 /\ off <= CountScaledTolerance(Len(best))
    BY <2>2
  <2> HIDE DEF n, off, slack
  <2>7. CountScaledTolerance(Len(best)) <= CountScaledTolerance(n)
        /\ CountScaledTolerance(Len(best)) \in Nat /\ CountScaledTolerance(n) \in Nat
    BY <2>4, <2>6, SlackOfMore, SlackGrows
  <2>8. off <= slack
    BY <2>4, <2>5, <2>6, <2>7
  <2>9. IsSuccess(grace)
    BY <2>2 DEF IsSuccess
  <2> QED BY <2>2, <2>8, <2>9, Passes DEF off, slack
<1> HIDE DEF grace, given
<1> QED BY <1>3, <1>4, <1>5

\* The search returns what is admissible.
LEMMA AdmissibleFound ==
  ASSUME NEW r, IsRemoval(r), Cardinality(Admissible(r)) < MaxCombinations
  PROVE  LET found == Backtrack(ExtractCandidateProducts(r.cands, r.products), r.products,
                                r.target, StrictMaxItems(r))
         IN  ToSet(found) = Admissible(r) /\ Len(found) = Cardinality(ToSet(found))
<1> DEFINE cps == ExtractCandidateProducts(r.cands, r.products)
<1>1. r.target \in Nat /\ StrictMaxItems(r) \in Nat
      /\ OneEach(r.cands) /\ r.cands \in Seq(Known(r))
  BY RemovalTypes, LimitTypes DEF IsRemoval
<1>2. cps \in Seq(Stocked(r)) /\ OneEach(cps)
  BY <1>1, ExtractedType
<1>3. Admissible(r) = Explained(r, cps, r.target, StrictMaxItems(r))
  <2>1. \A c \in Admissible(r) : c \in Explained(r, cps, r.target, StrictMaxItems(r))
    BY <1>1, AdmissibleExplained
  <2>2. \A c \in Explained(r, cps, r.target, StrictMaxItems(r)) : c \in Admissible(r)
    BY <1>1, ExplainedAdmissible
  <2> HIDE DEF cps
  <2> QED BY <2>1, <2>2
<1> HIDE DEF cps
<1>4. LET found == Backtrack(cps, r.products, r.target, StrictMaxItems(r))
      IN  ToSet(found) = Admissible(r) /\ Len(found) = Cardinality(ToSet(found))
  BY <1>1, <1>2, <1>3, FoundMet
<1> QED BY <1>4 DEF cps

\* Where there is something admissible there is a candidate.
LEMMA AdmissibleSeen ==
  ASSUME NEW r, IsRemoval(r), NEW c \in Admissible(r)
  PROVE  r.cands # <<>>
<1> SUFFICES ASSUME r.cands = <<>> PROVE FALSE
  OBVIOUS
<1> DEFINE cps == ExtractCandidateProducts(r.cands, r.products)
<1>1. Len(cps) = 0
  <2>1. cps = <<>>
    BY OnlyOfNothing DEF ExtractCandidateProducts
  <2> QED BY <2>1, EmptySeq
<1>2. \E p \in Rising(Len(cps), MaxCombinationKinds) : TRUE
  BY AdmissibleChoices
<1> HIDE DEF cps
<1>3. PICK p \in Rising(0, MaxCombinationKinds) : TRUE
  BY <1>1, <1>2
<1>4. PICK k \in 1..MaxCombinationKinds : p \in [1..k -> 1..0]
  BY DEF Rising
<1>5. 1 \in 1..k
  BY <1>4, ConstantTypes
<1>6. p[1] \in 1..0
  BY <1>4, <1>5
<1> QED BY <1>6

\* The strict strategies bill a combination that explains the weight, whenever
\* there is one that is believed (_judge_strict).
LEMMA StrictExplains ==
  ASSUME NEW r, IsRemoval(r), Cardinality(Admissible(r)) < MaxCombinations,
         ToleranceGrams <= r.target,
         NEW combo \in Admissible(r), ~RiskyCombination(combo)
  PROVE  LET res == JudgeStrict(r)
         IN  /\ res.status = "complete" /\ res.items # <<>>
             /\ EnforceFullDelta(r, res, "strict_match") = res
<1> DEFINE found == Backtrack(ExtractCandidateProducts(r.cands, r.products), r.products,
                              r.target, StrictMaxItems(r))
           sure == {c \in ToSet(found) : ~RiskyCombination(c)}
           combos == FindValidCombinations(r.cands, r.target, r.products, StrictMaxItems(r))
           best == BestCombination(r, combos)
<1>1. r.target \in Nat /\ StrictMaxItems(r) \in Int /\ ToleranceGrams \in Nat
      /\ OneEach(r.cands) /\ r.cands \in Seq(Known(r))
  BY RemovalTypes, LimitTypes, ConstantTypes DEF IsRemoval
<1>2. combos \in Seq(Exact(r, r.target)) /\ combos \in Seq(Combos(r))
  BY <1>1, FoundType
<1>3. ToSet(found) = Admissible(r) /\ found \in Seq(Exact(r, r.target))
  <2>1. ToSet(found) = Admissible(r)
    BY AdmissibleFound
  <2>2. ExtractCandidateProducts(r.cands, r.products) \in Seq(Stocked(r))
        /\ OneEach(ExtractCandidateProducts(r.cands, r.products))
    BY <1>1, ExtractedType
  <2>3. found \in Seq(Exact(r, r.target))
    BY <1>1, <2>2, BacktrackType
  <2> QED BY <2>1, <2>3
<1>4. combos = Only(found, sure)
  BY <1>1 DEF FindValidCombinations
<1>5. JudgeStrict(r) = IF combos = <<>>
                         THEN SameProductCountMatch(r) ?? StageCountCombination(r) ?? RescueSingle(r)
                         ELSE SelectStrict(r, best)
  BY DEF JudgeStrict
<1>6. \A c \in sure : c \in Admissible(r)
  BY <1>3
<1>7. combo \in sure
  BY <1>3
<1> HIDE DEF found, sure, combos
<1>8. ToSet(combos) \subseteq sure /\ combo \in ToSet(combos)
  BY <1>3, <1>4, <1>7, OnlyRange DEF sure
<1>9. combos # <<>>
  BY <1>8, EmptySeq DEF ToSet
<1>10. PICK i \in DOMAIN combos : best = combos[i]
  BY <1>2, <1>9, FromBestSound
<1> HIDE DEF best
<1>11. best \in Exact(r, r.target) /\ best \in ToSet(combos)
  BY <1>2, <1>10, LenProperties, ElementOfSeq DEF ToSet
<1>12. best # <<>>
  <2>1. best \in Admissible(r)
    BY <1>6, <1>8, <1>11
  <2> QED BY <1>1, <2>1, AdmissibleExplained DEF Explained
<1>13. JudgeStrict(r) = SelectStrict(r, best)
  BY <1>5, <1>9
<1> QED BY <1>11, <1>12, <1>13, StrictPasses

\* No earlier branch of the cascade is turned down.
LEMMA CascadeExplains ==
  ASSUME NEW r, IsRemoval(r), Cardinality(Admissible(r)) < MaxCombinations,
         ToleranceGrams <= r.target, ~(r.target < MinWeightChange),
         NEW combo \in Admissible(r), ~RiskyCombination(combo)
  PROVE  JudgeCascade(r).status = "complete" /\ JudgeCascade(r).items # <<>>
<1> DEFINE guard == SameWeightCollisionGuard(r)
           strict == JudgeStrict(r)
           a == EnforceFullDelta(r, guard, "same_weight")
           b == EnforceFullDelta(r, strict, "strict_match")
           c == EnforceFullDelta(r, SameProductCountMatch(r), "same_product")
           d == Settle(r, JudgeRelaxed(r))
<1>1. JudgeCascade(r) = a ?? b ?? c ?? d
  BY AdmissibleSeen DEF JudgeCascade
<1>2. \/ guard = None
      \/ a = guard /\ guard.status = "complete" /\ guard.items # <<>>
  BY CollisionPasses
<1>3. b = strict /\ strict.status = "complete" /\ strict.items # <<>>
  BY StrictExplains
<1>4. guard = None => a = None
  BY DEF EnforceFullDelta, IsSuccess, None
<1> HIDE DEF a, b, c, d, guard, strict
<1>5. /\ a = None \/ (a.status = "complete" /\ a.items # <<>>)
      /\ b.status = "complete" /\ b.items # <<>>
  BY <1>2, <1>3, <1>4
<1>6. None.status # "complete"
  BY DEF None
<1>7. a ?? b ?? c ?? d = IF a = None THEN b ELSE a
  BY <1>5, <1>6 DEF ??
<1> QED BY <1>1, <1>5, <1>7

-----------------------------------------------------------------------------

\* Whatever branch of the cascade decides a removal, what the worker stores for
\* billing names only classes that a candidate or a stage named, each in one
\* item and in a number that Node's snapshot has in stock.
THEOREM BilledAsSeen == Judging => []BilledWasSeenAndInStock
<1>1. verdict = None => BilledWasSeenAndInStock
  BY DEF BilledWasSeenAndInStock, Judged
<1>2. ASSUME NEW r, IsRemoval(r), JudgeRemoval(r)
      PROVE  BilledWasSeenAndInStock'
  <2> DEFINE items == ProductsForStorage(r, Judge(r))
  <2>1. removal' = r /\ verdict'.items = items
    BY <1>2 DEF JudgeRemoval, Stored
  <2>2. Sound(r, Judge(r)) /\ \A id \in DOMAIN r.products : r.products[id].stock \in Int
    BY <1>2, JudgeSound, RemovalTypes
  <2>3. /\ OneEach(items)
        /\ \A i \in DOMAIN items : /\ items[i].id \in Named(r)
                                   /\ items[i].id \in DOMAIN r.products
                                   /\ items[i].n \in Nat \ {0}
                                   /\ items[i].n <= r.products[items[i].id].stock
    BY <2>2, StoredSound
  <2> HIDE DEF items
  <2>4. \A i \in DOMAIN items :
          /\ items[i].id \in Named(r) /\ items[i].id \in DOMAIN r.products
          /\ items[i].n \in 1..r.products[items[i].id].stock
          /\ \A j \in DOMAIN items : j # i => items[j].id # items[i].id
    BY <2>2, <2>3 DEF OneEach
  <2>5. \A i \in DOMAIN verdict'.items :
          LET item == verdict'.items[i]
          IN  /\ item.id \in Ids(removal'.cands) \cup Ids(removal'.stage)
              /\ item.id \in DOMAIN removal'.products
              /\ item.n \in 1..removal'.products[item.id].stock
              /\ \A j \in DOMAIN verdict'.items : j # i => verdict'.items[j].id # item.id
    BY <2>1, <2>4 DEF Named
  <2> QED BY <2>5 DEF BilledWasSeenAndInStock, Ids
<1>3. BilledWasSeenAndInStock /\ UNCHANGED vars => BilledWasSeenAndInStock'
  BY DEF BilledWasSeenAndInStock, Judged, vars
<1>4. BilledWasSeenAndInStock /\ [\E r : IsRemoval(r) /\ JudgeRemoval(r)]_vars
        => BilledWasSeenAndInStock'
  BY <1>2, <1>3
<1> QED BY <1>1, <1>4, PTL DEF Judging

\* Whatever branch of the cascade decides a removal, what the worker stores for
\* billing weighs what is gone, give or take the grams allowed for its units,
\* or it is one unit, in part, of a candidate whose identity is believed: the
\* last guard (_enforce_full_delta_match) stands behind every other branch.
THEOREM BilledByWeight == JudgingInStock => []BillWeighsOrIsOneSeen
<1>1. verdict = None => BillWeighsOrIsOneSeen
  BY DEF BillWeighsOrIsOneSeen, Judged
<1>2. ASSUME NEW r, IsRemoval(r), NamedInStock(r), JudgeRemoval(r)
      PROVE  BillWeighsOrIsOneSeen'
  <2> DEFINE a == AugmentStageWeightGate(r)
             res == Judge(r)
             items == ProductsForStorage(r, res)
  <2>1. removal' = r /\ verdict'.items = items /\ verdict'.status = res.status
    BY <1>2 DEF JudgeRemoval, Stored
  <2>2. Given' = a
    BY <2>1 DEF Given
  <2>3. IsRemoval(a) /\ a.target = r.target
    BY <1>2, AugmentedType
  <2>4. Sound(r, res)
    BY <1>2, JudgeSound
  <2>5. res = JudgeCascade(a)
    BY DEF Judge
  <2> HIDE DEF a, res
  <2>6. Fair(a, res)
    BY <2>3, <2>5, CascadeFair
  <2>7. items # <<>> => IsSuccess(res)
    BY DEF ProductsForStorage
  <2>8. IsSuccess(res) => items = res.items
    BY <1>2, <2>4, AllStored
  <2> HIDE DEF items
  <2>9. ASSUME items # <<>> PROVE WeighsFor(a, items) \/ OneSeen(a, res)
    BY <2>6, <2>7, <2>8, <2>9 DEF Fair
  <2>10. ASSUME WeighsFor(a, items) PROVE Weighs(verdict.items)'
    BY <2>1, <2>3, <2>10 DEF Weighs, WeighsFor
  <2>11. ASSUME items # <<>>, OneSeen(a, res)
         PROVE  /\ verdict'.status = "partial" /\ UnitCount(verdict'.items) = 1
                /\ \E i \in DOMAIN Given'.cands :
                     /\ Given'.cands[i].id = verdict'.items[1].id
                     /\ VisionIdentity(Given'.cands[i])
    BY <2>1, <2>2, <2>7, <2>8, <2>11 DEF OneSeen
  <2> QED BY <2>1, <2>9, <2>10, <2>11 DEF BillWeighsOrIsOneSeen
<1>3. BillWeighsOrIsOneSeen /\ UNCHANGED vars => BillWeighsOrIsOneSeen'
  BY DEF BillWeighsOrIsOneSeen, Judged, Weighs, Given, vars
<1>4. BillWeighsOrIsOneSeen /\ [\E r : IsRemoval(r) /\ NamedInStock(r) /\ JudgeRemoval(r)]_vars
        => BillWeighsOrIsOneSeen'
  BY <1>2, <1>3
<1> QED BY <1>1, <1>4, PTL DEF JudgingInStock

\* For every removal the pruned search over counts and candidates (_backtrack)
\* finds each combination that weighs right, within stock and units, exactly
\* once, as long as there are fewer of them than it may return: neither the
\* weight of a part, nor the units already taken, nor the first candidate that
\* may still join cuts off an answer.
THEOREM SearchIsComplete == Judging => []SearchMatchesDefinition
<1>1. verdict = None => SearchMatchesDefinition
  BY DEF SearchMatchesDefinition, Judged
<1>2. ASSUME NEW r, IsRemoval(r), JudgeRemoval(r)
      PROVE  SearchMatchesDefinition'
  <2> DEFINE a == AugmentStageWeightGate(r)
             found == Backtrack(ExtractCandidateProducts(a.cands, a.products), a.products,
                                a.target, StrictMaxItems(a))
  <2>1. Given' = a
    BY <1>2 DEF JudgeRemoval, Given
  <2>2. IsRemoval(a)
    BY <1>2, AugmentedType
  <2> HIDE DEF a
  <2>3. Cardinality(Admissible(a)) < MaxCombinations =>
          ToSet(found) = Admissible(a) /\ Len(found) = Cardinality(ToSet(found))
    BY <2>2, AdmissibleFound
  <2>4. SearchMatchesDefinition' <=>
          (Judged' => (Cardinality(Admissible(a)) < MaxCombinations =>
             ToSet(found) = Admissible(a) /\ Len(found) = Cardinality(ToSet(found))))
    BY <2>1 DEF SearchMatchesDefinition, Admissible
  <2> QED BY <2>3, <2>4
<1>3. SearchMatchesDefinition /\ UNCHANGED vars => SearchMatchesDefinition'
  BY DEF SearchMatchesDefinition, Judged, Given, vars
<1>4. SearchMatchesDefinition /\ [\E r : IsRemoval(r) /\ JudgeRemoval(r)]_vars
        => SearchMatchesDefinition'
  BY <1>2, <1>3
<1> QED BY <1>1, <1>4, PTL DEF Judging

\* Whenever believable candidates explain the weight that is gone, the bill is
\* of something that explains it, the search not being cut off at its most
\* combinations: a guard or a strategy that takes the removal before the strict
\* matcher is never turned down by the last guard afterwards, and neither is the
\* product that the matcher prefers for its rank.
THEOREM ExplainedIsBilled == JudgingFew => []ExplainableIsBilled
<1>1. verdict = None => ExplainableIsBilled
  BY DEF ExplainableIsBilled, Judged
<1>2. ASSUME NEW r, IsRemoval(r), NamedInStock(r), FewExplain(r), JudgeRemoval(r)
      PROVE  ExplainableIsBilled'
  <2> DEFINE a == AugmentStageWeightGate(r)
             res == Judge(r)
             items == ProductsForStorage(r, res)
  <2>1. removal' = r /\ verdict'.items = items /\ Given' = a
    BY <1>2 DEF JudgeRemoval, Stored, Given
  <2>2. IsRemoval(a) /\ a.target = r.target
    BY <1>2, AugmentedType
  <2>3. Sound(r, res)
    BY <1>2, JudgeSound
  <2>4. res = JudgeCascade(a)
    BY DEF Judge
  <2>5. Cardinality(Admissible(a)) < MaxCombinations /\ ToleranceGrams <= MinWeightChange
    BY <1>2 DEF FewExplain
  <2>6. r.target \in Nat /\ MinWeightChange \in Nat /\ ToleranceGrams \in Nat
    BY <1>2, RemovalTypes, ConstantTypes
  <2> HIDE DEF a, res
  <2>7. ASSUME r.target >= MinWeightChange, NEW combo \in Admissible(a), ~RiskyCombination(combo)
        PROVE  items # <<>> /\ WeighsFor(r, items)
    <3>1. ToleranceGrams <= a.target /\ ~(a.target < MinWeightChange)
      BY <2>2, <2>5, <2>6, <2>7
    <3>2. res.status = "complete" /\ res.items # <<>>
      BY <2>2, <2>4, <2>5, <2>7, <3>1, CascadeExplains
    <3>3. Fair(a, res)
      BY <2>2, <2>4, CascadeFair
    <3>4. IsSuccess(res) /\ ~OneSeen(a, res)
      BY <3>2 DEF IsSuccess, OneSeen
    <3>5. WeighsFor(a, res.items)
      BY <3>2, <3>3, <3>4 DEF Fair
    <3>6. items = res.items
      BY <1>2, <2>3, <3>4, AllStored
    <3> HIDE DEF items
    <3> QED BY <2>2, <3>2, <3>5, <3>6 DEF WeighsFor
  <2> HIDE DEF items
  <2>8. ExplainableIsBilled' <=>
          (/\ Judged' /\ r.target >= MinWeightChange
           /\ \E combo \in Admissible(a) : ~RiskyCombination(combo)
           => items # <<>> /\ WeighsFor(r, items))
    BY <2>1 DEF ExplainableIsBilled, Weighs, WeighsFor
  <2> QED BY <2>7, <2>8
<1>3. ExplainableIsBilled /\ UNCHANGED vars => ExplainableIsBilled'
  BY DEF ExplainableIsBilled, Judged, Weighs, Given, vars
<1>4. ExplainableIsBilled
        /\ [\E r : IsRemoval(r) /\ NamedInStock(r) /\ FewExplain(r) /\ JudgeRemoval(r)]_vars
        => ExplainableIsBilled'
  BY <1>2, <1>3
<1> QED BY <1>1, <1>4, PTL DEF JudgingFew
================================================================================
