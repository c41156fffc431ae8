--------------------------- MODULE ProductDecision ---------------------------
(***************************************************************************)
(* engine/decision_engine.py: what a removal is billed as, in a            *)
(* refrigerated cabinet under the vision-first identity policy, for a      *)
(* weight change that is at most one segment.                              *)
(*                                                                         *)
(* A removal is [target, cands, products, stage, segments, returned]: the  *)
(* grams gone, the candidates in rank order, Node's snapshot, the stage    *)
(* evidence of the video trace, the number of segment targets and the      *)
(* weights lately returned.  A result is [status, items, explained] with   *)
(* items of [id, n, unit]; None stands for Python's None.                  *)
(***************************************************************************)
EXTENDS WeightMatching

CONSTANTS
  SameProductTolerance,    \* same_product_count_tolerance_grams
  MaxCombinationItems,     \* max_combination_items
  MaxItemsPerSegment,      \* max_items_per_segment
  DetectedSingleTolerance, \* detected_single_fallback_tolerance_grams
  DetectedSingleMinVotes,  \* detected_single_fallback_min_votes
  RescueTolerance,         \* rescue_tolerance_grams
  NoMotionMinRawVotes,     \* weight_rescue_no_motion_min_raw_votes
  NoMotionMaxResidual,     \* weight_rescue_no_motion_max_residual_grams
  NearestSingleMargin      \* nearest_single_margin_grams

ASSUME DecisionAssumption ==
  /\ MaxItemsPerSegment \in Nat \ {0}
  /\ {SameProductTolerance, MaxCombinationItems, DetectedSingleTolerance,
      DetectedSingleMinVotes, RescueTolerance, NoMotionMinRawVotes,
      NoMotionMaxResidual, NearestSingleMargin} \subseteq Nat

\* Stage evidence: "fits" is the weight gate and "ranked" a final rank.
StageEntry == [id : Nat, conf : Nat, votes : Nat, sideConf : Nat, sideVotes : Nat,
               score : Nat, motion : BOOLEAN, fits : BOOLEAN, ranked : BOOLEAN]

\* Every class once.
OneEach(s) == \A i, j \in DOMAIN s : s[i].id = s[j].id => i = j

IsRemoval(r) ==
  /\ DOMAIN r = {"target", "cands", "products", "stage", "segments", "returned"}
  /\ r.target \in Nat /\ r.segments \in Nat /\ r.returned \subseteq Nat
  /\ DOMAIN r.products \subseteq Nat
  /\ \A id \in DOMAIN r.products : r.products[id] \in Product
  /\ r.cands \in Seq(Candidate) /\ OneEach(r.cands)
  /\ r.stage \in Seq(StageEntry) /\ OneEach(r.stage)

ConfidenceThreshold == 30  \* hundredths
PartialThreshold == 700    \* thousandths
StageCombinationLimit == 10

None == [status |-> "none", items |-> <<>>, explained |-> 0]
Nothing(status) == [status |-> status, items |-> <<>>, explained |-> 0]
IsSuccess(res) == res.status \in {"complete", "partial"}

Item(id, n, unit) == [id |-> id, n |-> n, unit |-> unit]
Single(status, id, n, unit) ==
  [status |-> status, items |-> <<Item(id, n, unit)>>, explained |-> unit * n]
FromCombo(combo) ==
  [status |-> "complete", explained |-> WeightOf(combo),
   items |-> [i \in DOMAIN combo |-> Item(combo[i].cand.id, combo[i].n, combo[i].unit)]]

\* The first of two attempts that has a result.
attempt ?? next == IF attempt = None THEN next ELSE attempt

Top(cands) == SubSeq(cands, 1, Least(TopK, Len(cands)))
Ids(cands) == {cands[i].id : i \in DOMAIN cands}
Rank(cands, id) == CHOOSE i \in DOMAIN cands : cands[i].id = id

\* A product the shelf can weigh and sell.
Sellable(r, id) ==
  id \in DOMAIN r.products /\ r.products[id].loadcell
    /\ r.products[id].weight > 0 /\ r.products[id].stock > 0

NearestCount(target, unit) == Most(1, Round(target, unit))

\* How many units one grip may take; without segments there is no such limit.
NoLimit == 1000
SegmentGripLimit(r) ==
  IF r.segments = 0 THEN NoLimit ELSE r.segments * MaxItemsPerSegment
StrictMaxItems(r) ==
  IF r.segments = 0 THEN MaxCombinationItems ELSE SegmentGripLimit(r)

CountScaledTolerance(n) == ToleranceGrams + SameProductTolerance * n
IsBottle(unit) == unit \in 450..560

-----------------------------------------------------------------------------
(* The last guard *)

UnitCount(items) == SumOf([i \in DOMAIN items |-> items[i].n])
ItemWeight(items) == SumOf([i \in DOMAIN items |-> items[i].n * items[i].unit])
BottleRepeat(items) ==
  /\ \A i, j \in DOMAIN items : items[i].id = items[j].id
  /\ \E i \in DOMAIN items : IsBottle(items[i].unit)

LooseSingles == {"detected_single", "strict_match"}

\* Mistake: repeated bottles get no extra unit of tolerance.
FullDeltaToleranceNoBottle(items, branch) ==
  IF UnitCount(items) > 1 THEN CountScaledTolerance(UnitCount(items))
  ELSE IF branch \in LooseSingles
         THEN Most(ToleranceGrams, Most(DetectedSingleTolerance, RescueTolerance))
         ELSE ToleranceGrams

\* How far a bill may be from the weight that is gone, by branch and units.
FullDeltaTolerance(items, branch) ==
  IF UnitCount(items) > 1
    THEN CountScaledTolerance(UnitCount(items) + IF BottleRepeat(items) THEN 1 ELSE 0)
  ELSE IF branch \in LooseSingles
         THEN Most(ToleranceGrams, Most(DetectedSingleTolerance, RescueTolerance))
         ELSE ToleranceGrams

\* A result that would be billed must explain the whole change.
EnforceFullDelta(r, res, branch) ==
  LET explained == IF ItemWeight(res.items) > 0 THEN ItemWeight(res.items)
                                                ELSE Most(0, res.explained)
  IN  IF \/ ~IsSuccess(res) \/ r.target < MinWeightChange
         \/ Gap(r.target, explained) <= FullDeltaTolerance(res.items, branch)
        THEN res
        ELSE [status |-> "uncertain", items |-> <<>>, explained |-> explained]

-----------------------------------------------------------------------------
(* Repeats of one product *)

SameProductEvidence(c, rank) ==
  IF c.source \in RescueSources THEN c.fits /\ c.conf >= 18
  ELSE \/ c.conf >= ConfidenceThreshold
       \/ /\ rank = 1 /\ c.conf >= 18
          /\ Most(c.raw, c.votes) >= DetectedSingleMinVotes

\* Two bottles that vision saw may be one more unit of tolerance apart.
BottleRepeatAllowance(c, rank, n, unit) ==
  IF n = 2 /\ IsBottle(unit) /\ c.source = "vision" /\ SameProductEvidence(c, rank)
    THEN CountScaledTolerance(n + 1)
    ELSE IF n = 1 THEN ToleranceGrams ELSE CountScaledTolerance(n)

CountAllowed(r, id, n) ==
  n <= Least(Least(r.products[id].stock, MaxCountPerItem),
             Least(Most(2, SameProductMax), SegmentGripLimit(r)))

\* Products vision did not name that would weigh the same.
SameWeightActive(r, c, n, allowed) ==
  \E id \in DOMAIN r.products \ (Ids(Top(r.cands)) \cup {c.id}) :
    LET p == r.products[id]
    IN  /\ p.loadcell /\ p.weight > 0 /\ p.stock >= n
        /\ Gap(p.weight, r.products[c.id].weight) <= ToleranceGrams
        /\ Gap(r.target, p.weight * n) <= allowed

\* Other candidates that fit strictly, none of which vision saw itself.
RescueCompetes(r, c) ==
  LET fits == {i \in DOMAIN r.cands :
                 LET d == r.cands[i]
                     n == NearestCount(r.target, r.products[d.id].weight)
                 IN  /\ d.id # c.id /\ Sellable(r, d.id)
                     /\ n <= r.products[d.id].stock
                     /\ Gap(r.target, r.products[d.id].weight * n) <= ToleranceGrams}
  IN  fits # {} /\ \A i \in fits : r.cands[i].source # "vision"

CollisionCount(r, c) == NearestCount(r.target, r.products[c.id].weight)

\* A candidate that fits but is not the only product to do so.
CollisionWins(r, i) ==
  LET c == r.cands[i]
      n == CollisionCount(r, c)
      unit == r.products[c.id].weight
      allowed == BottleRepeatAllowance(c, i, n, unit)
  IN  /\ c.source = "vision" /\ Sellable(r, c.id)
      /\ CountAllowed(r, c.id, n)
      /\ Gap(r.target, unit * n) <= allowed
      /\ SameWeightActive(r, c, n, allowed) \/ RescueCompetes(r, c)

\* A candidate vision saw wins over products of its weight that it did not.
SameWeightCollisionGuard(r) ==
  LET wins == {i \in DOMAIN Top(r.cands) : CollisionWins(r, i)}
      c == r.cands[CHOOSE i \in wins : \A j \in wins : i <= j]
  IN  IF wins = {} THEN None
      ELSE Single("complete", c.id, CollisionCount(r, c), r.products[c.id].weight)

\* Another candidate nearly as sure.
Competing(r, c) ==
  \E i \in DOMAIN Top(r.cands) :
    LET d == r.cands[i]
    IN  d.id # c.id /\ d.conf >= MultiKindMinConf /\ 4 * d.conf >= 3 * c.conf

\* Another product of which one would do.
NearSingle(r, c) ==
  \E id \in DOMAIN r.products \ {c.id} :
    Sellable(r, id) /\ Gap(r.target, r.products[id].weight) <= DetectedSingleTolerance

RepeatCount(r, c) == Round(r.target, r.products[c.id].weight)
RepeatOff(r, c) == Gap(r.target, r.products[c.id].weight * RepeatCount(r, c))

\* The candidate of a rank explains the weight by several units.
RepeatFits(r, i) ==
  LET c == r.cands[i]
  IN  /\ Sellable(r, c.id)
      /\ RepeatCount(r, c) >= 2 /\ CountAllowed(r, c.id, RepeatCount(r, c))
      /\ RepeatOff(r, c) <= CountScaledTolerance(RepeatCount(r, c))
      /\ RepeatCount(r, c) > 2 => ~Competing(r, c) /\ ~NearSingle(r, c)
      /\ SameProductEvidence(c, i)

\* The repeat that is closest, relative to what its number of units may be off.
SameProductCountMatch(r) ==
  LET fits == {i \in DOMAIN Top(r.cands) : RepeatFits(r, i)}
      Slack(i) == CountScaledTolerance(RepeatCount(r, r.cands[i]))
      Closer(i, j) ==
        LET a == RepeatOff(r, r.cands[i]) * Slack(j)
            b == RepeatOff(r, r.cands[j]) * Slack(i)
        IN  a < b \/ (a = b /\ i <= j)
      c == r.cands[CHOOSE i \in fits : \A j \in fits : Closer(i, j)]
  IN  IF fits = {} THEN None
      ELSE Single("complete", c.id, RepeatCount(r, c), r.products[c.id].weight)

-----------------------------------------------------------------------------
(* Stage evidence                                                          *)

\* A stage entry as a candidate; a rank or the weight opens its motion gate,
\* except where the gate's own evidence is wanted.
AsCandidate(e, source, gate) ==
  [id |-> e.id, conf |-> e.conf, votes |-> Most(1, e.votes), raw |-> e.votes,
   source |-> source, moved |-> e.motion, gate |-> gate, fits |-> e.fits]

\* Stage evidence that the weight supports joins the candidates, in place of
\* a rescued candidate of its class but never of one vision saw.
Joining(r, cands, e) ==
  LET accepted == /\ Sellable(r, e.id) /\ e.fits
                  /\ e.votes >= DetectedSingleMinVotes /\ e.conf >= 8
      weighed == AsCandidate(e, "stage_weight_gate", e.motion)
  IN  IF ~accepted THEN cands
      ELSE IF e.id \notin Ids(cands) THEN Append(cands, weighed)
      ELSE IF cands[Rank(cands, e.id)].source = "vision" THEN cands
      ELSE [cands EXCEPT ![Rank(cands, e.id)] = weighed]

AugmentStageWeightGate(r) ==
  [r EXCEPT !.cands = FoldLeft(LAMBDA cands, e : Joining(r, cands, e), r.cands, r.stage)]

\* The stage entries that are not candidates yet, strongest first.
StageAdded(r) ==
  LET new == Only(r.stage, {e \in ToSet(r.stage) : /\ e.id \notin Ids(r.cands)
                                                   /\ e.votes > 0 \/ e.conf > 0})
      Key(e) == <<-e.score, -e.sideConf, -e.conf, -e.sideVotes, -e.votes>>
      sorted == SortedOn(new, [i \in DOMAIN new |-> Key(new[i])])
      room == Most(0, StageCombinationLimit - Len(r.cands))
  IN  SubSeq([i \in DOMAIN sorted |->
                AsCandidate(sorted[i], "stage_counts",
                            sorted[i].motion \/ sorted[i].ranked \/ sorted[i].fits)],
             1, Least(room, Len(sorted)))

StageMerged(r) ==
  SubSeq(r.cands, 1, Least(StageCombinationLimit, Len(r.cands))) \o StageAdded(r)

-----------------------------------------------------------------------------
(* Which of several explanations is chosen *)

SourcePriority(source) ==
  CASE source = "vision" -> 0
    [] source = "stage_weight_gate" -> 1
    [] source = "stage_counts" -> 2
    [] OTHER -> 3

\* Units that weigh like something lately put back.
ReturnedOverlap(r, combo) ==
  SumOf([i \in DOMAIN combo |->
    IF \E hint \in r.returned : Gap(combo[i].unit, hint) <= ToleranceGrams
      THEN combo[i].n ELSE 0])

CandidateUnits(r, combo) ==
  SumOf([i \in DOMAIN combo |->
    IF combo[i].cand.id \in Ids(r.cands) /\ combo[i].cand.source # "stage_counts"
      THEN combo[i].n ELSE 0])

PriorityKey(r, combos, combo) ==
  LET own == CandidateUnits(r, combo)
      ranked == Ids(r.cands) \cap {combo[i].cand.id : i \in DOMAIN combo}
      first == IF ranked = {} THEN <<2, 9999>>
               ELSE LET k == CHOOSE i \in DOMAIN r.cands :
                               /\ r.cands[i].id \in ranked
                               /\ \A j \in 1..(i - 1) : r.cands[j].id \notin ranked
                    IN  <<k, SourcePriority(r.cands[k].source)>>
      single == UnitsOf(combo) = 1
  IN  <<MatcherKey(combos, combo, r.target)[1],
        IF own = 0 THEN 1 ELSE 0,
        ReturnedOverlap(r, combo), UnitsOf(combo),
        IF single THEN first[1] ELSE 0, IF single THEN first[2] ELSE 0,
        ErrorOf(combo, r.target), UnitsOf(combo) - own,
        -EvidenceOf(combo), -ConfOf(combo), Len(combo)>>

BestCombination(r, combos) ==
  FirstBy(combos, [i \in DOMAIN combos |-> PriorityKey(r, combos, combos[i])])

FromBest(r, combos) ==
  IF combos = <<>> THEN None ELSE FromCombo(BestCombination(r, combos))

\* The best combination of two units or more.
BestOfSeveral(r, cands) ==
  LET combos == FindValidCombinations(cands, r.target, r.products, StrictMaxItems(r))
  IN  FromBest(r, Only(combos, {combo \in ToSet(combos) : UnitsOf(combo) >= 2}))

StageCountCombination(r) ==
  IF StageAdded(r) = <<>> THEN None ELSE BestOfSeveral(r, StageMerged(r))

\* A single candidate that the weight rescued.
RescueSingle(r) ==
  LET Residual(c) == Gap(r.target, r.products[c.id].weight)
      Moved(c) == c.moved \/ (c.source # "threshold_rescue" /\ c.gate)
      viable == Only(r.cands, {c \in ToSet(r.cands) :
        /\ c.source \in RescueSources
        /\ Sellable(r, c.id)
        /\ Residual(c) <= RescueTolerance
        /\ \/ c.source # "threshold_rescue" \/ Moved(c)
           \/ c.raw >= NoMotionMinRawVotes /\ Residual(c) <= NoMotionMaxResidual})
      best == FirstBy(viable, [i \in DOMAIN viable |->
                <<Residual(viable[i]), -viable[i].conf,
                  -(IF viable[i].raw > 0 THEN viable[i].raw ELSE viable[i].votes)>>])
  IN  IF viable = <<>> THEN None
      ELSE Single("complete", best.id, 1, r.products[best.id].weight)

\* The ranks of the candidates vision saw itself and believes in company.
RegularRanks(r) ==
  {i \in DOMAIN Top(r.cands) : /\ r.cands[i].source = "vision"
                               /\ r.cands[i].conf >= MultiKindMinConf
                               /\ Sellable(r, r.cands[i].id)}

\* Ranks S differ from a combination by the first candidate, which stands for
\* a product of the same weight.
GraceReplaces(r, best, S) ==
  LET strict == {best[k].cand.id : k \in DOMAIN best}
      graced == {r.cands[i].id : i \in S}
  IN  /\ 1 \in S /\ Cardinality(S) = Len(best)
      /\ graced \ strict = {r.cands[1].id}
      /\ \E k \in DOMAIN best :
           /\ best[k].cand.id \notin graced
           /\ Gap(r.products[r.cands[1].id].weight, best[k].unit) <= ToleranceGrams

\* One unit each of the first candidate and of others vision saw, in place of
\* a strict combination whose one different product weighs the same as it.
PriorityGrace(r, best) ==
  LET Unit(i) == r.products[r.cands[i].id].weight
      Sorted(S) == InOrderOf(S, {p \in S \X S : p[1] < p[2]})
      Off(S) == Gap(r.target, SumOf([k \in DOMAIN Sorted(S) |-> Unit(Sorted(S)[k])]))
      options == {S \in SUBSET RegularRanks(r) :
                    /\ GraceReplaces(r, best, S)
                    /\ Off(S) > ToleranceGrams
                    /\ Off(S) <= CountScaledTolerance(Len(best))}
      ranks == CHOOSE m \in {Sorted(S) : S \in options} :
                 \A S \in options : ~LexLess(Sorted(S), m)
  IN  IF Len(best) < 2 \/ options = {} THEN None
      ELSE [status |-> "complete",
            explained |-> SumOf([k \in DOMAIN ranks |-> Unit(ranks[k])]),
            items |-> [k \in DOMAIN ranks |->
                         Item(r.cands[ranks[k]].id, 1, Unit(ranks[k]))]]

\* The best strict combination, unless the first candidate takes its place.
SelectStrict(r, best) == PriorityGrace(r, best) ?? FromCombo(best)

JudgeStrict(r) ==
  LET Of(combos) ==
        IF combos = <<>>
          THEN SameProductCountMatch(r) ?? StageCountCombination(r) ?? RescueSingle(r)
          ELSE SelectStrict(r, BestCombination(r, combos))
  IN  Of(FindValidCombinations(r.cands, r.target, r.products, StrictMaxItems(r)))
=============================================================================
