------------------------------ MODULE Judgement ------------------------------
(***************************************************************************)
(* The relaxed half of engine/decision_engine.py, the whole of judge, and  *)
(* what service/trigger_service.py keeps of its result for billing.  The   *)
(* state machine judges removals one after the other.                      *)
(***************************************************************************)
EXTENDS ProductDecision

-----------------------------------------------------------------------------
(* Relaxed matching: only products that vision or a stage named            *)

\* Mistake: everything on sale is in scope.
WholeSnapshot(r) == DOMAIN r.products

\* The products of the snapshot that are candidates.
Scope(r) == DOMAIN r.products \cap Ids(r.cands)

InScope(r) == [id \in Scope(r) |-> r.products[id]]

\* The product of which one weighs nearest, when that is less than 5 g off.
NearestSingle(r, unique) ==
  LET pool == {id \in Scope(r) : Sellable(r, id)}
      Off(id) == Gap(r.target, r.products[id].weight)
      best == CHOOSE id \in pool : \A d \in pool : Off(id) < Off(d) \/ (Off(id) = Off(d) /\ id <= d)
  IN  IF \/ pool = {} \/ Off(best) >= 5
         \/ unique /\ \E d \in pool \ {best} : Off(d) - Off(best) < NearestSingleMargin
        THEN None
        ELSE Single("partial", best, 1, r.products[best].weight)

WeightOnly(r) ==
  IF r.target < MinWeightChange \/ \A id \in Scope(r) : ~Sellable(r, id)
    THEN Nothing("no_detection")
    ELSE NearestSingle(r, TRUE) ?? Nothing("uncertain")

\* In hundred-thousandths: vision, weight, and a tenth for few units.
FusionConfidence(conf, score, n) ==
  Least(100000, 650 * conf + 25 * score
                  + (IF n <= 3 THEN 10000 ELSE Most(0, 10000 - 1000 * (n - 3))))

\* The best estimate that weighs right, if it is believed.
SingleProductMatch(r, estimates) ==
  LET valid == Only(estimates, {e \in ToSet(estimates) : Validated(e, r.target)})
      e == valid[1]
  IN  IF \/ valid = <<>>
         \/ FusionConfidence(e.conf, e.score, e.n) < 1000 * ConfidenceThreshold
        THEN None ELSE Single("complete", e.id, e.n, e.unit)

FromPair(pair) == IF pair = <<>> THEN None ELSE FromCombo(pair)

\* A pair of the calculator, or else a strict combination, or else either
\* with stage evidence.
CombinationMatch(r) ==
  FromPair(CalculateCombination(r.cands, r.target, r.products))
    ?? BestOfSeveral(r, r.cands)
    ?? StageCountCombination(r)
    ?? IF StageAdded(r) = <<>> THEN None
       ELSE FromPair(CalculateCombination(StageMerged(r), r.target, r.products))

Partial(estimates) ==
  LET e == estimates[1]
  IN  Single(IF e.score > PartialThreshold THEN "partial" ELSE "uncertain",
             e.id, e.n, e.unit)

\* The first match of the relaxed strategies; there always is a result.
RelaxedMatch(r, estimates) ==
  IF estimates = <<>> THEN NearestSingle(r, FALSE) ?? WeightOnly(r)
  ELSE SingleProductMatch(r, Only(estimates, {e \in ToSet(estimates) : e.n = 1}))
         ?? CombinationMatch(r)
         ?? SingleProductMatch(r, Only(estimates, {e \in ToSet(estimates) : e.n > 1}))
         ?? NearestSingle(r, FALSE)
         ?? Partial(estimates)

JudgeRelaxed(r) ==
  LET estimates == CalculateEstimates(r.cands, r.target, InScope(r))
  IN  RelaxedMatch(r, Only(estimates, {e \in ToSet(estimates) : e.n <= SegmentGripLimit(r)}))

-----------------------------------------------------------------------------
(* Identity over weight                                                    *)

VisionIdentity(c) ==
  \/ c.source = "vision" /\ c.conf >= ConfidenceThreshold
  \/ c.source \in RescueSources /\ c.fits
  \/ c.source = "stage_weight_gate" /\ c.conf >= MultiKindMinConf

\* Mistake: the nearest number is kept although it does not weigh right.
IdentityCountKept(n, weighs) == n

\* How many units an identity is worth.
IdentityCount(n, weighs) == IF weighs THEN n ELSE 1

\* The ranks of the candidates on sale whose identity is believed.
Believed(r) ==
  {i \in DOMAIN r.cands :
     LET c == r.cands[i]
     IN  /\ c.id \in DOMAIN r.products /\ VisionIdentity(c)
         /\ r.products[c.id].loadcell /\ r.products[c.id].stock > 0}

\* The first candidate whose identity is believed: as many as weigh right, or
\* one in part when no allowed number does.
VisionFirstPartial(r) ==
  LET c == r.cands[CHOOSE i \in Believed(r) : \A j \in Believed(r) : i <= j]
      unit == r.products[c.id].weight
      cap == Least(Most(1, Least(Least(r.products[c.id].stock, MaxCountPerItem),
                                 Most(2, SameProductMax))), SegmentGripLimit(r))
      n == Least(NearestCount(r.target, unit), cap)
      weighs == /\ NearestCount(r.target, unit) <= cap
                /\ Gap(r.target, unit * n)
                     <= FullDeltaTolerance(<<Item(c.id, n, unit)>>, "vision_first")
  IN  IF r.target < MinWeightChange \/ Believed(r) = {} THEN None
      ELSE IF unit <= 0 THEN Single("partial", c.id, 1, unit)
      ELSE Single(IF weighs THEN "complete" ELSE "partial",
                  c.id, IdentityCount(n, weighs), unit)

\* What a candidate and a stage entry say of one class; NoCandidate and NoStage
\* stand for the missing one.  A stage entry with no final rank carries no
\* motion gate, which counts as passed.
NoCandidate ==
  [conf |-> 0, votes |-> 0, raw |-> 0, source |-> "none", moved |-> FALSE,
   gate |-> FALSE, fits |-> FALSE]
NoStage ==
  [conf |-> 0, votes |-> 0, sideConf |-> 0, sideVotes |-> 0, score |-> 0,
   motion |-> FALSE, fits |-> FALSE, ranked |-> TRUE]

Evidence(id, c, e) ==
  LET moved == e.motion \/ ~e.ranked
      seen == c.source # "none"
  IN  [id |-> id, staged |-> e # NoStage, source |-> c.source,
       votes |-> Most(Most(c.raw, c.votes), e.votes), conf |-> Most(c.conf, e.conf),
       trusted |-> seen \/ (e # NoStage /\ e.ranked) \/ e.fits,
       motion |-> HasMotion(c) \/ moved, fits |-> c.fits \/ e.fits,
       strong |-> seen \/ (e.votes >= 20 /\ e.conf >= 30 /\ moved),
       sideVotes |-> e.sideVotes, sideConf |-> e.sideConf, score |-> e.score]

\* Candidates first, then the classes that only the stages saw.
DetectedEvidence(r) ==
  LET staged == Only(r.stage, {e \in ToSet(r.stage) : e.votes > 0 \/ e.ranked \/ e.fits})
      StageOf(id) == IF id \in Ids(staged) THEN staged[Rank(staged, id)] ELSE NoStage
      later == Only(staged, {e \in ToSet(staged) : e.id \notin Ids(r.cands)})
  IN  [i \in DOMAIN r.cands |-> Evidence(r.cands[i].id, r.cands[i], StageOf(r.cands[i].id))]
        \o [i \in DOMAIN later |-> Evidence(later[i].id, NoCandidate, later[i])]

\* A 500 ml bottle that the side camera clearly saw move.
StrongBottle(e, unit) ==
  /\ IsBottle(unit) /\ e.staged /\ e.motion /\ e.strong
  /\ e.sideVotes >= Most(4, DetectedSingleMinVotes)
  /\ e.sideConf >= 45 /\ e.conf >= 45

DetectedUnit(r, e) == r.products[e.id].weight
DetectedOff(r, e) == Gap(r.target, DetectedUnit(r, e))
IdentitySlack == DetectedSingleTolerance + SameProductTolerance

\* The best by weight, or a clearly seen bottle instead of a weaker sight.
SelectDetected(r, normal, bottle) ==
  IF bottle = None THEN normal
  ELSE IF normal = None THEN bottle
  ELSE IF \/ StrongBottle(normal, DetectedUnit(r, normal))
          \/ DetectedOff(r, bottle) - DetectedOff(r, normal) > IdentitySlack
         THEN normal ELSE bottle

NearestDetected(r, found) ==
  IF found = <<>> THEN None
  ELSE FirstBy(found, [i \in DOMAIN found |->
                         <<DetectedOff(r, found[i]), -found[i].votes, -found[i].conf>>])

BestBottle(r, found) ==
  IF found = <<>> THEN None
  ELSE FirstBy(found, [i \in DOMAIN found |->
                         <<-found[i].sideConf, -found[i].sideVotes, -found[i].score,
                           DetectedOff(r, found[i])>>])

SingleOf(r, e) ==
  IF e = None THEN None ELSE Single("complete", e.id, 1, DetectedUnit(r, e))

\* One unit of a class with evidence.
DetectedAmong(r, evidence) ==
  LET normal == NearestDetected(r,
        Only(evidence, {e \in ToSet(evidence) :
          /\ Sellable(r, e.id)
          /\ e.source = "threshold_rescue" /\ ~e.staged => e.motion \/ e.fits
          /\ e.trusted \/ e.votes >= DetectedSingleMinVotes
          /\ DetectedOff(r, e) <= DetectedSingleTolerance}))
      bottle == BestBottle(r,
        Only(evidence, {e \in ToSet(evidence) : /\ StrongBottle(e, DetectedUnit(r, e))
                                                /\ DetectedOff(r, e) <= IdentitySlack}))
  IN  SingleOf(r, SelectDetected(r, normal, bottle))

DetectedSingle(r) ==
  IF r.target < MinWeightChange THEN None
  ELSE LET found == DetectedEvidence(r)
       IN  DetectedAmong(r, Only(found, {e \in ToSet(found) :
             e.id \in DOMAIN r.products /\ r.products[e.id].loadcell}))

-----------------------------------------------------------------------------
(* judge                                                                   *)

\* A result that will not be billed names no product.
Suppress(res) == IF IsSuccess(res) THEN res ELSE Nothing(res.status)

\* Without candidates there is only stage evidence: the weight alone says
\* nothing of what was taken.
JudgeWithoutCandidates(r) ==
  EnforceFullDelta(r, StageCountCombination(r), "stage_combination")
    ?? EnforceFullDelta(r, DetectedSingle(r), "detected_single")
    ?? Nothing("no_detection")

\* Unless relaxed matching is complete, the identity decides before it.
Settle(r, relaxed) ==
  (IF relaxed.status = "complete" THEN None ELSE VisionFirstPartial(r))
    ?? (IF IsSuccess(relaxed) THEN None
        ELSE EnforceFullDelta(r, DetectedSingle(r), "detected_single"))
    ?? EnforceFullDelta(r, Suppress(relaxed), "relaxed")

\* The branches in the order of the code.
JudgeCascade(r) ==
  IF r.cands = <<>> THEN JudgeWithoutCandidates(r)
  ELSE IF r.target < MinWeightChange THEN Nothing("no_detection")
  ELSE EnforceFullDelta(r, SameWeightCollisionGuard(r), "same_weight")
         ?? EnforceFullDelta(r, JudgeStrict(r), "strict_match")
         ?? EnforceFullDelta(r, SameProductCountMatch(r), "same_product")
         ?? Settle(r, JudgeRelaxed(r))

Judge(r) == JudgeCascade(AugmentStageWeightGate(r))

\* What the worker stores: the items of a success that are in the snapshot and
\* in stock.  An empty snapshot filters nothing.
ProductsForStorage(r, res) ==
  IF ~IsSuccess(res) THEN <<>>
  ELSE Only(res.items, {item \in ToSet(res.items) :
         DOMAIN r.products = {} \/ (/\ item.id \in DOMAIN r.products
                                    /\ r.products[item.id].stock > 0)})

Stored(r, res) ==
  [status |-> res.status, items |-> ProductsForStorage(r, res), explained |-> res.explained]

-----------------------------------------------------------------------------
VARIABLES
  removal,  \* the weight change being judged, with its evidence
  verdict   \* [status, items] as stored, or None before the judgement

vars == <<removal, verdict>>

\* The worker judges what it is given and stores the products.
JudgeRemoval(r) ==
  /\ verdict = None
  /\ removal' = r
  /\ verdict' = Stored(r, Judge(r))

-----------------------------------------------------------------------------
(* Properties                                                              *)

Judged == verdict # None

\* The removal as the engine matches it.
Given == AugmentStageWeightGate(removal)

\* The ranks of one to "kinds" of n candidates, in their order.
Rising(n, kinds) ==
  UNION {{p \in [1..k -> 1..n] : \A i, j \in 1..k : i < j => p[i] < p[j]} : k \in 1..kinds}

\* What the strict matcher should find, by definition instead of by search:
\* every choice of a few candidates and of counts within stock and units that
\* weighs right.
Admissible(r) ==
  LET cps == ExtractCandidateProducts(r.cands, r.products)
      Chosen(p, f) == [k \in DOMAIN p |-> [cand |-> cps[p[k]], n |-> f[k],
                                           unit |-> r.products[cps[p[k]].id].weight]]
      most == Least(MaxCountPerItem, StrictMaxItems(r))
  IN  {c \in UNION {{Chosen(p, f) : f \in [DOMAIN p -> 1..most]} :
                     p \in Rising(Len(cps), MaxCombinationKinds)} :
         /\ \A k \in DOMAIN c : c[k].n <= r.products[c[k].cand.id].stock
         /\ UnitsOf(c) <= StrictMaxItems(r)
         /\ ErrorOf(c, r.target) <= ToleranceGrams}

\* The pruned search over counts and candidates (_backtrack) finds every
\* admissible combination exactly once, as long as there are fewer than it
\* may return: no early return or running total cuts off an answer.
SearchMatchesDefinition ==
  Judged =>
    LET found == Backtrack(ExtractCandidateProducts(Given.cands, Given.products),
                           Given.products, Given.target, StrictMaxItems(Given))
    IN  Cardinality(Admissible(Given)) < MaxCombinations =>
          ToSet(found) = Admissible(Given) /\ Len(found) = Cardinality(ToSet(found))

\* What the video may name: the detector and the stages are told to look for
\* classes in stock only (get_allowed_class_ids).
NamedInStock(r) ==
  \A id \in DOMAIN r.products \cap (Ids(r.cands) \cup Ids(r.stage)) : r.products[id].stock > 0

\* Fewer combinations explain the removal than the search may return, and no
\* change is judged that is lighter than the matcher's tolerance.
FewExplain(r) ==
  /\ Cardinality(Admissible(AugmentStageWeightGate(r))) < MaxCombinations
  /\ ToleranceGrams <= MinWeightChange

\* A single unit may be off by what two may be off, no more: by default 8 g,
\* or as much as the rescue's 5 g, against 15 g.
ASSUME SlackAssumption ==
  {DetectedSingleTolerance, RescueTolerance} \subseteq 0..CountScaledTolerance(2)

\* A bill weighs what is gone, give or take a few grams for each unit.
Weighs(items) ==
  Gap(removal.target, ItemWeight(items))
    <= CountScaledTolerance(UnitCount(items) + 1)

\* When believable candidates explain the change of weight, judge bills
\* something that explains it: no earlier branch of the cascade takes the
\* removal and is then turned down by the guard at the end (_enforce_full_delta_match).
ExplainableIsBilled ==
  Judged /\ removal.target >= MinWeightChange
    /\ (\E combo \in Admissible(Given) : ~RiskyCombination(combo))
    => verdict.items # <<>> /\ Weighs(verdict.items)

\* Whatever branch decided, a bill weighs what is gone or is one unit of a
\* class that was clearly recognised: a wrong number of units is never billed
\* on identity alone.
BillWeighsOrIsOneSeen ==
  Judged /\ verdict.items # <<>> =>
    \/ Weighs(verdict.items)
    \/ /\ verdict.status = "partial" /\ UnitCount(verdict.items) = 1
       /\ \E i \in DOMAIN Given.cands : /\ Given.cands[i].id = verdict.items[1].id
                                        /\ VisionIdentity(Given.cands[i])

\* Nothing is billed that neither a candidate nor a stage named, nor more of
\* it than Node has in stock, nor one class in two items.
BilledWasSeenAndInStock ==
  Judged => \A i \in DOMAIN verdict.items :
    LET item == verdict.items[i]
    IN  /\ item.id \in Ids(removal.cands) \cup Ids(removal.stage)
        /\ item.id \in DOMAIN removal.products
        /\ item.n \in 1..removal.products[item.id].stock
        /\ \A j \in DOMAIN verdict.items : j # i => verdict.items[j].id # item.id
=============================================================================
