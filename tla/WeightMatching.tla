--------------------------- MODULE WeightMatching ---------------------------
(***************************************************************************)
(* weight/strict_weight_matcher.py and weight/count_calculator.py: which   *)
(* counts of which seen products explain a weight that left the shelf.     *)
(*                                                                         *)
(* Weights are whole grams, confidences hundredths.  A product is          *)
(* [weight, stock, loadcell]; a candidate is what vision says of a class:  *)
(* [id, conf, votes, raw, source, moved, gate, fits], where "votes" is     *)
(* vote_count, "raw" raw_vote_count, "moved" a motion flag of a camera,    *)
(* "gate" motion_gate_passed and "fits" weight_gate_passed.  The snapshot  *)
(* of Node's products is a function from class ids, listed in their order. *)
(***************************************************************************)
EXTENDS Sequencing

CONSTANTS
  ToleranceGrams,      \* config.weight.tolerance_grams
  MaxCombinationKinds, \* max_combination_kinds
  MaxCombinationSize,  \* max_combination_size
  MaxCountPerItem,     \* max_count_per_item
  MaxCombinations,     \* max_combinations
  SameProductMax,      \* same_product_max_count
  MultiKindMinConf,    \* multi_kind_min_confidence, in hundredths
  MinWeightChange,     \* min_weight_change
  TopK                 \* config.vision.top_k

ASSUME MatchingAssumption ==
  /\ {ToleranceGrams, SameProductMax} \subseteq Nat \ {0}
  /\ {MaxCombinationKinds, MaxCombinationSize, MaxCountPerItem, MaxCombinations,
      MultiKindMinConf, MinWeightChange, TopK} \subseteq Nat

Product == [weight : Nat, stock : Int, loadcell : BOOLEAN]
RescueSources == {"threshold_rescue", "roi_rescue"}
Sources == RescueSources \cup {"vision", "stage_weight_gate", "stage_counts"}
Candidate == [id : Nat, conf : Nat, votes : Nat, raw : Nat, source : Sources,
              moved : BOOLEAN, gate : BOOLEAN, fits : BOOLEAN]

Least(a, b) == IF a < b THEN a ELSE b
Most(a, b) == IF a > b THEN a ELSE b
Gap(a, b) == IF a < b THEN b - a ELSE a - b

\* Python's round(a / b): to the nearest, a half to the even neighbour.
Round(a, b) ==
  LET q == a \div b
      r == 2 * (a % b)
  IN  IF r > b \/ (r = b /\ q % 2 = 1) THEN q + 1 ELSE q

-----------------------------------------------------------------------------
(* Candidates and what they are worth *)

HasMotion(c) == c.moved \/ c.gate

EvidenceScore(c) ==
  Most(0, c.conf + (IF HasMotion(c) THEN 20 ELSE 0)
                 + (IF c.votes >= 2 THEN 8 ELSE 0)
                 + Least(8, c.raw)
                 + CASE c.source = "stage_counts" -> 12
                     [] c.source \in RescueSources -> IF c.fits THEN 6 ELSE -8
                     [] OTHER -> 0)

\* Two or more small products that vision did not see as such.
UnsupportedSmallRepeat(c, weight, n) ==
  /\ weight < 200 /\ n >= 2
  /\ c.source # "vision"
  /\ HasMotion(c) => Most(c.votes, c.raw) < 20 \/ c.conf < 30

\* The candidates strict matching works with: known, weighed and in stock.
ExtractCandidateProducts(cands, products) ==
  Only(cands, {c \in ToSet(cands) : /\ c.id \in DOMAIN products
                                    /\ products[c.id].weight > 0
                                    /\ products[c.id].stock > 0})

-----------------------------------------------------------------------------
(* Combinations: sequences of [cand, unit, n] in the order of the search *)

WeightOf(combo) == SumOf([i \in DOMAIN combo |-> combo[i].unit * combo[i].n])
UnitsOf(combo) == SumOf([i \in DOMAIN combo |-> combo[i].n])
ErrorOf(combo, target) == Gap(WeightOf(combo), target)
\* Sums over the units: combinations are compared at equal counts only.
ConfOf(combo) ==
  SumOf([i \in DOMAIN combo |-> combo[i].cand.conf * combo[i].n])
EvidenceOf(combo) ==
  SumOf([i \in DOMAIN combo |-> EvidenceScore(combo[i].cand) * combo[i].n])
MotionUnits(combo) ==
  SumOf([i \in DOMAIN combo |->
           IF HasMotion(combo[i].cand) THEN combo[i].n ELSE 0])

\* Mistake: the units already taken do not count against the total.
RoomForEach(combo, maxItems) == maxItems

\* How many units may still be added.
Room(combo, maxItems) == maxItems - UnitsOf(combo)

\* The combinations of one more product that a node of the search leads to, in
\* the order of the two loops.  A node is [combo, first, new]: what is
\* combined, the first candidate that may still join, and whether the search
\* has yet to go on from there.
Children(cps, products, maxItems, node) ==
  Joined([i \in 1..Len(cps) |->
    IF i < node.first THEN <<>>
    ELSE [n \in 1..Least(Least(products[cps[i].id].stock, MaxCountPerItem),
                         Room(node.combo, maxItems)) |->
            [combo |-> Append(node.combo, [cand |-> cps[i], n |-> n,
                                           unit |-> products[cps[i].id].weight]),
             first |-> i + 1, new |-> TRUE]]])

\* Too heavy a count ends the inner loop; a combination that is too heavy, or
\* has all the kinds or units it may have, is not extended.
Light(node, target) == WeightOf(node.combo) <= target + ToleranceGrams

GoesOn(node, target, maxItems) ==
  Light(node, target) /\ Len(node.combo) < MaxCombinationKinds
    /\ UnitsOf(node.combo) < maxItems

Expanded(cps, products, target, maxItems, node) ==
  LET children == Children(cps, products, maxItems, node)
  IN  IF ~node.new THEN <<node>>
      ELSE <<[node EXCEPT !.new = FALSE]>>
             \o (IF GoesOn(node, target, maxItems)
                   THEN Only(children, {c \in ToSet(children) : Light(c, target)})
                   ELSE <<>>)

Deepened(cps, products, target, maxItems, nodes) ==
  Joined([k \in DOMAIN nodes |-> Expanded(cps, products, target, maxItems, nodes[k])])

\* Every combination the search meets, each before those that extend it: after
\* as many rounds as a combination may have kinds the recursion is unfolded.
Visited(cps, products, target, maxItems) ==
  FoldLeft(LAMBDA nodes, round : Deepened(cps, products, target, maxItems, nodes),
           <<[combo |-> <<>>, first |-> 1, new |-> TRUE]>>,
           [round \in 1..MaxCombinationKinds |-> round])

\* Those that weigh right, in the order of the search, which stops when it has
\* enough.
Explaining(nodes, target) ==
  LET combos == [k \in DOMAIN nodes |-> nodes[k].combo]
      found == Only(combos, {c \in ToSet(combos) :
                               c # <<>> /\ ErrorOf(c, target) <= ToleranceGrams})
  IN  SubSeq(found, 1, Least(MaxCombinations, Len(found)))

\* The search (_backtrack).
Backtrack(cps, products, target, maxItems) ==
  Explaining(Visited(cps, products, target, maxItems), target)

\* A combination with small repeats or weak companions is not believed.
RiskyCombination(combo) ==
  \/ Len(combo) > MaxCombinationKinds
  \/ \E i \in DOMAIN combo :
       UnsupportedSmallRepeat(combo[i].cand, combo[i].unit, combo[i].n)
  \/ /\ Len(combo) >= 2
     /\ \E i \in DOMAIN combo : combo[i].cand.conf < MultiKindMinConf

\* The combinations that explain the target, best first by the matcher's own
\* order: one that moved before a still single, then fewer units, less error,
\* more evidence and fewer kinds, and at last the better match score, which
\* at that point is the confidence.
MatcherKey(combos, combo, target) ==
  LET stillSingle == \E i \in DOMAIN combos : /\ UnitsOf(combos[i]) = 1
                                              /\ MotionUnits(combos[i]) = 0
  IN  <<IF stillSingle /\ UnitsOf(combo) > 1 /\ MotionUnits(combo) > 0
          THEN 0 ELSE 1,
        UnitsOf(combo), ErrorOf(combo, target), -EvidenceOf(combo),
        Len(combo), -ConfOf(combo)>>

\* find_valid_combinations in the order of the search; its callers sort it
\* again, by a key that decides wherever MatcherKey does.
FindValidCombinations(cands, target, products, maxItems) ==
  IF target < ToleranceGrams THEN <<>>
  ELSE LET found == Backtrack(ExtractCandidateProducts(cands, products), products,
                              target, maxItems)
       IN  Only(found, {combo \in ToSet(found) : ~RiskyCombination(combo)})

-----------------------------------------------------------------------------
(* count_calculator.py: an estimate is [id, n, expected, score, conf]      *)

\* Mistake: the stock does not cap the count.
EstimateCountUnstocked(target, unit, stock) ==
  Least(Round(target, unit), SameProductMax)

EstimateCount(target, unit, stock) ==
  Least(Least(Round(target, unit), SameProductMax),
        IF stock > 0 THEN stock ELSE SameProductMax)

\* In thousandths: half for the weight, four tenths for vision, a tenth.
CalculateMatchScore(error, conf) ==
  Least(1000, (500 * Most(0, 2 * ToleranceGrams - error)) \div (2 * ToleranceGrams)
                + 4 * conf + 100)

Validated(e, target) == Gap(target, e.expected) <= ToleranceGrams

\* One estimate per candidate that is known, weighed, in stock and weighs no
\* more than about the target; best score first.
Estimate(c, target, p) ==
  LET n == EstimateCount(target, p.weight, p.stock)
  IN  [id |-> c.id, n |-> n, unit |-> p.weight, expected |-> p.weight * n,
       conf |-> c.conf,
       score |-> CalculateMatchScore(Gap(target, p.weight * n), c.conf)]

CalculateEstimates(cands, target, products) ==
  LET known == ExtractCandidateProducts(cands, products)
      usable == Only(known, {c \in ToSet(known) : Round(target, products[c.id].weight) >= 1})
      estimates == [i \in DOMAIN usable |->
                      Estimate(usable[i], target, products[usable[i].id])]
  IN  IF target < MinWeightChange THEN <<>>
      ELSE SortedOn(estimates, [i \in DOMAIN estimates |-> <<-estimates[i].score>>])

\* The candidates a pair may be made of.
PairPool(cands, products) ==
  LET top == SubSeq(cands, 1, Least(TopK, Len(cands)))
  IN  Only(top, {c \in ToSet(top) : /\ c.conf >= MultiKindMinConf
                                   /\ c.id \in DOMAIN products
                                   /\ products[c.id].weight > 0})

PairCap(c, products) ==
  IF products[c.id].stock > 0 THEN Least(3, products[c.id].stock) ELSE 3

\* Two different candidates in all numbers, up to three units of each.
Pairs(c, d, products) ==
  LET Of(x, n) == [cand |-> x, unit |-> products[x.id].weight, n |-> n]
  IN  Joined([n \in 1..PairCap(c, products) |->
        [m \in 1..PairCap(d, products) |-> <<Of(c, n), Of(d, m)>>]])

AllPairs(pool, products) ==
  Joined([i \in DOMAIN pool |->
    Joined([j \in DOMAIN pool |->
      IF i < j THEN Pairs(pool[i], pool[j], products) ELSE <<>>])])

\* The best pair.  The number of units is capped by MaxCombinationSize alone.
CalculateCombination(cands, target, products) ==
  LET all == AllPairs(PairPool(cands, products), products)
      fits == Only(all, {p \in ToSet(all) :
                /\ UnitsOf(p) <= MaxCombinationSize
                /\ \A k \in 1..2 : ~UnsupportedSmallRepeat(p[k].cand, p[k].unit, p[k].n)
                /\ ErrorOf(p, target) <= ToleranceGrams})
  IN  IF target < MinWeightChange \/ fits = <<>> THEN <<>>
      ELSE FirstBy(fits, [i \in DOMAIN fits |->
             <<UnitsOf(fits[i]), ErrorOf(fits[i], target),
               -(fits[i][1].cand.conf + fits[i][2].cand.conf),
               -WeightOf(fits[i])>>])
=============================================================================
