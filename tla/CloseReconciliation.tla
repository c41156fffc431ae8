------------------------ MODULE CloseReconciliation ------------------------
(* session/door_session_store.py: the passes over the active zone sessions   *)
(* that rebuild their baskets after a trigger and settle them at CLOSE.      *)
(* Every pass takes the function S from zones to session records and returns *)
(* the changed one; the store runs them one after the other under its lock.  *)
EXTENDS ProductAggregation

CONSTANTS
    BaseTolerance,     \* config.weight.tolerance_grams
    SingleTolerance,   \* config.weight.detected_single_fallback_tolerance_grams
    SameProductMax,    \* config.weight.same_product_max_count
    MaxPerSegment,     \* config.weight.max_items_per_segment
    MaxUnits,          \* the most units of a cross-zone match
    MaxKinds           \* config.weight.max_combination_kinds

ASSUME CloseAssumption ==
    /\ {BaseTolerance, SingleTolerance} \subseteq Nat
    /\ {SameProductMax, MaxPerSegment, MaxUnits, MaxKinds} \subseteq Nat \ {0}

ZoneOrder(S) == InOrderOf(DOMAIN S, {p \in (DOMAIN S) \X (DOMAIN S) : p[1] < p[2]})

\* Every session of S replaced by that of T, in the order of the zones.
Exchanged(S, T) == FoldLeft(LAMBDA U, z : [U EXCEPT ![z] = T[z]], S, ZoneOrder(S))

\* Every session z of S replaced by Session(z), which does not look at what
\* becomes of the others.
OnEach(S, Session(_)) == Exchanged(S, [z \in DOMAIN S |-> Session(z)])

\* Nearest integer, a half to the even neighbour (round()).
Rounded(a, b) ==
    LET q == a \div b
        twice == 2 * (a % b)
    IN  CASE twice < b -> q
          [] twice > b -> q + 1
          [] OTHER     -> q + (q % 2)

-----------------------------------------------------------------------------
(* What the loadcells of a zone say went away.                               *)

EffectiveDelta(trigger) == trigger.delta + SumOver(trigger.hints, LAMBDA h : h.weight)

Incoming(S, z) ==
    SumOver(ZoneOrder(S), LAMBDA o :
        SumOver(S[o].cross, LAMBDA r : IF r.target = z THEN r.delta ELSE 0))

\* Mistake: what this zone gave back for others still counts as its own.
NetDeltaWithOutgoing(S, z) ==
    SumOver(S[z].triggers, EffectiveDelta)
      - SumOver(S[z].unmatched, LAMBDA u : Abs(u.delta))
      + Incoming(S, z)

\* _calculate_effective_net_delta
NetDelta(S, z) ==
    SumOver(S[z].triggers, EffectiveDelta)
      - SumOver(S[z].unmatched, LAMBDA u : Abs(u.delta))
      - SumOver(S[z].cross, LAMBDA r : r.delta)
      + Incoming(S, z)

Residual(S, z) == Abs(Abs(NetDelta(S, z)) - WeightOf(S[z].basket))

-----------------------------------------------------------------------------
(* Returns matched against the baskets of the other zones.                   *)

StableKey(S, c) == <<S[c.zone].created, c.zone, c.id, c.index>>

\* _build_cross_zone_return_candidates, "any" for a search of either side.
CrossCandidates(S, source, side) ==
    UNION {
        UNION {
            LET e == S[z].basket[i]
            IN  {[zone |-> z, id |-> e.id, index |-> u, unit |-> e.units[u]] :
                    u \in {k \in 1..AtMost(Len(e.units), AtMost(e.count, MaxCountPerItem)) :
                              Charged(e) /\ (side = "any" \/ e.units[k].side = side)}} :
            i \in DOMAIN S[z].basket} :
        z \in DOMAIN S \ {source}}

MatchedWeight(cs) == MapThenSumSet(LAMBDA c : UnitWeight[c.id], cs)

\* _cross_zone_match_allowed_error
CrossAllowance(n) == AtMost(15, AtLeast(Tolerance, n * Tolerance))

CrossMatches(S, record, source, side) ==
    {cs \in SUBSET CrossCandidates(S, source, side) :
        /\ cs # {} /\ Cardinality(cs) <= MaxUnits
        /\ Cardinality({<<c.zone, c.id>> : c \in cs}) <= MaxKinds
        /\ Abs(MatchedWeight(cs) - Abs(record.delta)) <= CrossAllowance(Cardinality(cs))}

StableOrder(S, cs) == SetToSortSeq(cs, LAMBDA c, d : LexLess(StableKey(S, c), StableKey(S, d)))

\* _cross_zone_match_key
CrossKey(S, record, cs) ==
    LET order == StableOrder(S, cs)
    IN  <<Cardinality(cs), Abs(MatchedWeight(cs) - Abs(record.delta)),
          -Max({c.unit.time : c \in cs}), Cardinality({<<c.zone, c.id>> : c \in cs})>>
        \o FlattenSeq([k \in DOMAIN order |-> StableKey(S, order[k])])

\* _find_cross_zone_return_match: {} when no combination fits, the side of
\* the return before either side.  The cap on visited combinations is left out.
CrossMatch(S, record, source) ==
    LET same == IF record.side = "none" THEN {}
                ELSE CrossMatches(S, record, source, record.side)
        fits == IF same # {} THEN same ELSE CrossMatches(S, record, source, "any")
    IN  IF record.delta = 0 \/ fits = {} THEN {}
        ELSE LeastBy(fits, LAMBDA cs : CrossKey(S, record, cs))

EntryOf(S, c) == CHOOSE i \in DOMAIN S[c.zone].basket : S[c.zone].basket[i].id = c.id

\* _apply_cross_zone_return_match: each unit leaves its basket, and the delta
\* is split over them by weight, the last one taking what remains.
ApplyCrossMatch(S, source, record, cs) ==
    LET order == StableOrder(S, cs)
        n == Len(order)
        share(k) == (record.delta * UnitWeight[order[k].id]) \div MatchedWeight(cs)
        before == SumOver([k \in 1..(n - 1) |-> share(k)], LAMBDA w : w)
        taken == FoldLeft(LAMBDA T, c : [T EXCEPT ![c.zone].basket =
                              WithoutUnits(@, EntryOf(T, c), <<c.unit>>)], S, order)
    IN  [taken EXCEPT ![source].cross = @ \o
            [k \in 1..n |->
                [trigger |-> record.trigger, target |-> order[k].zone, id |-> order[k].id,
                 delta |-> IF k = n THEN record.delta - before ELSE share(k)]]]

\* Matches each record in turn; what matches nothing is returned in .left.
MatchElsewhere(S, source, records) ==
    FoldLeft(LAMBDA a, r :
                LET cs == CrossMatch(a.S, r, source)
                IN  IF cs = {} THEN [a EXCEPT !.left = Append(@, r)]
                    ELSE [a EXCEPT !.S = ApplyCrossMatch(@, source, r, cs)],
             [S |-> S, left |-> <<>>], records)

\* _handle_cross_zone_returns
HandleCrossZoneReturns(S) ==
    FoldLeft(LAMBDA T, z : LET a == MatchElsewhere(T, z, T[z].unmatched)
                           IN  [a.S EXCEPT ![z].unmatched = a.left],
             S, ZoneOrder(S))

-----------------------------------------------------------------------------
(* _validate_net_delta: a session with a return whose loadcells say that     *)
(* (nearly) everything came back, or that less went away than the basket     *)
(* weighs, loses the units that cannot have gone.                            *)

HasReturn(s) == \E k \in DOMAIN s.triggers : IsReturn(s.triggers[k]) \/ s.triggers[k].hints # <<>>

\* Four times the threshold min(15, max(3, 0.25 * expected)).
Threshold4(expected) == AtMost(60, AtLeast(12, expected))

Keep(basket, i, n) ==
    [basket EXCEPT ![i].count = n, ![i].units = SubSeq(@, 1, AtMost(n, Len(@)))]

\* Heaviest first, each product keeps the units the weight still explains.
TrimToWeight(basket, gone, threshold4) ==
    LET heaviest == SortedBy(SetToSortSeq({i \in DOMAIN basket : Charged(basket[i])}, <),
                             LAMBDA i : <<-UnitWeight[basket[i].id]>>)
        trim(a, i) ==
            LET w == UnitWeight[basket[i].id]
                n == AtMost(basket[i].count, AtLeast(0, Rounded(a.remaining, w)))
            IN  IF a.done THEN a
                ELSE [basket    |-> Keep(a.basket, i, n),
                      remaining |-> a.remaining - w * n,
                      done      |-> 4 * (a.remaining - w * n) <= threshold4]
    IN  FoldLeft(trim, [basket |-> basket, remaining |-> gone, done |-> FALSE], heaviest).basket

ValidatedBasket(s, net) ==
    LET expected == WeightOf(s.basket)
        t4 == Threshold4(expected)
    IN  CASE Freezer \/ ~HasReturn(s) \/ ActiveEntries(s.basket) = <<>> -> s.basket
          [] /\ ~(Freezer \/ ~HasReturn(s) \/ ActiveEntries(s.basket) = <<>>)
             /\ 4 * net >= -t4 /\ 4 * expected > t4 ->
                [i \in DOMAIN s.basket |->
                    IF Charged(s.basket[i]) THEN [s.basket[i] EXCEPT !.count = 0, !.units = <<>>]
                    ELSE s.basket[i]]
          [] /\ ~(Freezer \/ ~HasReturn(s) \/ ActiveEntries(s.basket) = <<>>)
             /\ ~(4 * net >= -t4 /\ 4 * expected > t4)
             /\ 4 * Abs(net) < 4 * expected - t4 ->
                TrimToWeight(s.basket, Abs(net), t4)
          [] OTHER -> s.basket

ValidateNetDelta(S) ==
    OnEach(S, LAMBDA z : [S[z] EXCEPT !.basket = ValidatedBasket(S[z], NetDelta(S, z))])

-----------------------------------------------------------------------------
(* _reaggregate_products: every active session is rebuilt from its triggers, *)
(* then returns are matched across zones.  Within a visit a return that      *)
(* matched nothing waits for CLOSE, and in a freezer every return does.      *)

RebuiltFrom(s, agg, visit) ==
    [s EXCEPT !.basket    = agg.basket,
              !.unmatched = IF visit THEN agg.unmatched ELSE agg.unmatched \o agg.deferred,
              !.deferred  = IF visit THEN agg.deferred ELSE <<>>,
              !.hints     = agg.hints \o FlattenSeq([k \in DOMAIN s.triggers |->
                                                        s.triggers[k].touches]),
              !.cross = <<>>, !.reconciled = FALSE]

Rebuilt(s, visit) == RebuiltFrom(s, Aggregate(s.triggers, visit /\ Freezer), visit)

ValidatedOutsideVisit(S, visit) == IF visit THEN S ELSE ValidateNetDelta(S)

AllRebuilt(S, visit) == OnEach(S, LAMBDA z : Rebuilt(S[z], visit))

Reaggregate(S, visit) ==
    ValidatedOutsideVisit(HandleCrossZoneReturns(AllRebuilt(S, visit)), visit)

-----------------------------------------------------------------------------
(* _apply_deferred_return_reconciliation: the returns that waited are        *)
(* replayed against the basket at CLOSE.                                     *)

Precedes(u, d) == u.time <= 0 \/ u.time <= d.time

\* _find_same_zone_deferred_return_match
DeferredMatches(basket, d, samePosition) ==
    IF d.side = "none" \/ (samePosition /\ d.pos = 0) THEN {}
    ELSE UnitMatches(basket, d.delta, LAMBDA u :
             Precedes(u, d) /\ u.side = d.side /\ (samePosition => u.pos = d.pos))

HintedBack(s, d, p, units) ==
    [s EXCEPT !.hints = Append(@, ReturnedHint(p, Len(units), d, Last(units))),
              !.reconciled = TRUE]

TakeMatch(s, d, m) ==
    [HintedBack(s, d, s.basket[m.entry].id, m.units)
        EXCEPT !.basket = WithoutUnits(@, m.entry, m.units)]

TakeCombination(s, d, combo) ==
    FoldLeft(LAMBDA t, c :
                LET i == CHOOSE k \in DOMAIN t.basket : t.basket[k].id = c.id
                    units == t.basket[i].units
                IN  IF c.n = 0 THEN t
                    ELSE [HintedBack(t, d, c.id, SubSeq(units, Len(units) - c.n + 1, Len(units)))
                             EXCEPT !.basket = WithoutLast(@, i, c.n)],
             s, combo)

\* A match that only shares the side must bring the basket nearer to target.
TakeIfNearer(s, d, m, target) ==
    LET here == WeightOf(s.basket)
        w == Len(m.units) * UnitWeight[s.basket[m.entry].id]
    IN  IF Abs(target - (here - w)) < Abs(target - here)
        THEN [s |-> TakeMatch(s, d, m), settled |-> TRUE]
        ELSE [s |-> s, settled |-> FALSE]

\* ... and so must a combination of products that weighs what came back.
TakeCombinationIfNearer(s, d, combo, target) ==
    LET here == WeightOf(s.basket)
        w == SumOver(combo, LAMBDA c : c.n * UnitWeight[c.id])
    IN  IF combo # <<>> /\ here - w >= -Tolerance /\ Abs(target - (here - w)) < Abs(target - here)
        THEN [s |-> TakeCombination(s, d, combo), settled |-> TRUE]
        ELSE [s |-> s, settled |-> FALSE]

\* _apply_same_zone_deferred_return: the outcome of one deferred return, exact
\* and side being the matches in its position and on its side.
DeferredOutcomeOf(s, d, target, here, exact, side) ==
    CASE exact # {} ->
            [s |-> TakeMatch(s, d, BestUnitMatch(exact)), settled |-> TRUE]
      [] exact = {} /\ Abs(target - here) <= Tolerance ->
            [s |-> s, settled |-> TRUE]
      [] exact = {} /\ here > target + Tolerance /\ side # {} ->
            TakeIfNearer(s, d, BestUnitMatch(side), target)
      [] exact = {} /\ here > target + Tolerance /\ side = {} ->
            TakeCombinationIfNearer(s, d, ReturnCombination(s.basket, d.delta), target)
      [] exact = {} /\ here < target - Tolerance ->
            [s |-> s, settled |-> FALSE]

DeferredOutcome(s, d, target) ==
    DeferredOutcomeOf(s, d, target, WeightOf(s.basket),
                      DeferredMatches(s.basket, d, TRUE), DeferredMatches(s.basket, d, FALSE))

\* The deferred returns of zone z in the order they were felt; what stays
\* unsettled is in .left.
SettleHere(S, z, target) ==
    FoldLeft(LAMBDA a, d :
                LET o == DeferredOutcome(a.s, d, target) IN
                IF o.settled THEN [a EXCEPT !.s = o.s]
                ELSE [s |-> o.s, left |-> Append(a.left, d)],
             [s |-> S[z], left |-> <<>>],
             SortedBy(S[z].deferred, LAMBDA d : <<d.time, d.trigger>>))

KeepUnsettled(S, z, local) ==
    [S EXCEPT ![z] = [local.s EXCEPT !.deferred = local.left, !.unmatched = @ \o local.left]]

\* Mistake: the other zones are not searched.
SettleZoneHere(S, z) == KeepUnsettled(S, z, SettleHere(S, z, Abs(NetDelta(S, z))))

SettledAcross(S, z, cross, unsettled) ==
    LET explained == Residual(cross.S, z) <= Tolerance IN
    [cross.S EXCEPT
        ![z].deferred = IF explained THEN <<>> ELSE cross.left,
        ![z].unmatched = IF explained THEN @ ELSE @ \o cross.left,
        ![z].reconciled = @ \/ Len(cross.left) < unsettled]

SettleAcross(S, z, local) ==
    SettledAcross(S, z, MatchElsewhere([S EXCEPT ![z] = local.s], z, local.left), Len(local.left))

SettleZone(S, z) == SettleAcross(S, z, SettleHere(S, z, Abs(NetDelta(S, z))))

SettleDeferredReturns(S) ==
    FoldLeft(LAMBDA T, z : IF T[z].deferred = <<>> THEN T ELSE SettleZone(T, z),
             S, ZoneOrder(S))
=============================================================================
