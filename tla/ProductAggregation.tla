------------------------- MODULE ProductAggregation -------------------------
(* session/product_aggregator.py: the basket of one zone, rebuilt from the   *)
(* results of its triggers, without actions: a basket is a sequence of     *)
(* entries in the order of the dictionary it models, weights are whole       *)
(* grams.  Confidences, names and prices are left out; a channel's index and *)
(* position are one number, 0 when the unit has none.                        *)
EXTENDS Sequencing

CONSTANTS
    UnitWeight,        \* product id -> grams per unit, 0 when unknown
    Tolerance,         \* weight_tolerance of the aggregator
    FreezerTolerance,  \* config.weight.freezer_weight_tolerance_grams
    PerItemTolerance,  \* config.weight.same_product_count_tolerance_grams
    MaxCountPerItem,   \* config.weight.max_count_per_item
    MaxItems           \* config.weight.max_combination_items

VARIABLE cabinet       \* config.machine.cabinet_type; it never changes

Freezer == cabinet = "freezer"

Products == DOMAIN UnitWeight

ASSUME AggregationAssumption ==
    /\ Products \subseteq Nat
    /\ \A p \in Products : UnitWeight[p] \in Nat
    /\ {Tolerance, FreezerTolerance, PerItemTolerance} \subseteq Nat
    /\ {MaxCountPerItem, MaxItems} \subseteq Nat \ {0}

Abs(n) == IF n < 0 THEN -n ELSE n
AtLeast(a, b) == IF a < b THEN b ELSE a
AtMost(a, b) == IF a < b THEN a ELSE b

LeastBy(S, Key(_)) ==
    CHOOSE m \in S : \A o \in S : ~LexLess(Key(o), Key(m))

SortedBy(s, Key(_)) == SortedOn(s, [i \in DOMAIN s |-> Key(s[i])])

SumOver(s, Value(_)) == SumOf([k \in DOMAIN s |-> Value(s[k])])

-----------------------------------------------------------------------------
(* Baskets.                                                                  *)

Charged(e) == e.count > 0 /\ UnitWeight[e.id] > 0
CountOf(basket, p) == SumOver(basket, LAMBDA e : IF e.id = p THEN e.count ELSE 0)
WeightOf(basket) ==
    SumOver(basket, LAMBDA e : IF Charged(e) THEN e.count * UnitWeight[e.id] ELSE 0)
ActiveEntries(basket) == Only(basket, {e \in ToSet(basket) : Charged(e)})

\* The units of one product of a trigger; a unit the decision did not place
\* has no position, but one single unit of a freezer takes the position of
\* the only channel that got lighter by its weight.
PlacementUnits(product, trigger) ==
    LET fallback == /\ Freezer
                    /\ product.count = 1
                    /\ SumOver(trigger.products, LAMBDA q : q.count) = 1
                    /\ product.side = "unknown" /\ product.pos = 0
                    /\ Len(trigger.removals) = 1
                    /\ UnitWeight[product.id] > 0
                    /\ Abs(UnitWeight[product.id] - trigger.removals[1].weight)
                           <= AtLeast(Tolerance, FreezerTolerance)
        place == IF fallback THEN trigger.removals[1] ELSE product
    IN  [u \in 1..product.count |->
            [zone |-> trigger.zone, side |-> place.side, pos |-> place.pos,
             time |-> trigger.time]]

EntryIndex(basket, p) == SelectInSeq(basket, LAMBDA e : e.id = p)

\* Mistake: the units of a further trigger replace those of the first.
AddProductReplacing(basket, product, trigger) ==
    LET i == EntryIndex(basket, product.id)
        units == PlacementUnits(product, trigger)
    IN  IF i = 0
        THEN Append(basket, [id |-> product.id, count |-> product.count, units |-> units])
        ELSE [basket EXCEPT ![i].count = @ + product.count, ![i].units = units]

AddProduct(basket, product, trigger) ==
    LET i == EntryIndex(basket, product.id)
        units == PlacementUnits(product, trigger)
    IN  IF i = 0
        THEN Append(basket, [id |-> product.id, count |-> product.count, units |-> units])
        ELSE [basket EXCEPT ![i].count = @ + product.count, ![i].units = @ \o units]

HandleRemoval(basket, trigger) ==
    FoldLeft(LAMBDA b, q : IF q.count <= 0 THEN b ELSE AddProduct(b, q, trigger),
             basket, trigger.products)

\* Entry i loses the given units (_remove_product_units with a selection).
WithoutUnits(basket, i, units) ==
    [basket EXCEPT ![i].count = @ - Len(units),
                   ![i].units = FoldLeft(RemoveFirst, @, units)]

\* Mistake: one unit more is counted than taken.
WithoutOneMore(basket, i, n) ==
    [basket EXCEPT ![i].count = @ - n - 1,
                   ![i].units = SubSeq(@, 1, basket[i].count - n)]

\* Entry i loses its last n units.
WithoutLast(basket, i, n) ==
    [basket EXCEPT ![i].count = @ - n, ![i].units = SubSeq(@, 1, basket[i].count - n)]

NewestFirst(units) == SortedBy(units, LAMBDA u : <<-u.time>>)

-----------------------------------------------------------------------------
(* Returns.  A record of a return that is not (yet) matched keeps the        *)
(* trigger, its time and, for one channel of a freezer, where it was felt.   *)

NoPlace == [side |-> "none", pos |-> 0]

ReturnRecord(trigger, weight, place, zone) ==
    [trigger |-> trigger.id, time |-> trigger.time, delta |-> weight,
     side |-> place.side, pos |-> place.pos, zone |-> zone]

\* A product that went back, and the place it went back to.
ReturnedHint(p, count, record, unit) ==
    [id |-> p, count |-> count, zone |-> record.zone, trigger |-> record.trigger,
     time |-> record.time,
     side |-> IF record.side = "none" THEN unit.side ELSE record.side,
     pos |-> IF record.pos = 0 THEN unit.pos ELSE record.pos]

DeferredTargets(trigger) ==
    IF trigger.returns = <<>>
    THEN <<ReturnRecord(trigger, trigger.delta, NoPlace, trigger.zone)>>
    ELSE [k \in DOMAIN trigger.returns |->
             ReturnRecord(trigger, trigger.returns[k].weight,
                          trigger.returns[k], trigger.zone)]

\* Hints of a return that happened within a removal, before or after it.
ReturnHints(trigger, at) ==
    LET hints == Only(trigger.hints, {h \in ToSet(trigger.hints) : h.at = at /\ h.weight > 0})
    IN  [k \in DOMAIN hints |-> ReturnRecord(trigger, hints[k].weight, NoPlace, 0)]

\* Units of a basket's entries on (or off) one side, newest first, that n of
\* them explain the weight of a return: <<entry, n>> with the units taken.
UnitMatches(basket, weight, Fits(_)) ==
    LET fitting == [i \in DOMAIN basket |->
                       IF Charged(basket[i])
                       THEN NewestFirst(SelectSeq(basket[i].units, Fits)) ELSE <<>>]
        takes(i) == 1..AtMost(basket[i].count, Len(fitting[i]))
        matching == {m \in UNION {{[entry |-> i, n |-> k] : k \in takes(i)} : i \in DOMAIN basket} :
                        Abs(m.n * UnitWeight[basket[m.entry].id] - weight)
                            <= AtLeast(Tolerance, FreezerTolerance)}
    IN  {[entry |-> m.entry, units |-> SubSeq(fitting[m.entry], 1, m.n),
          residual |-> Abs(m.n * UnitWeight[basket[m.entry].id] - weight)] : m \in matching}

\* The fewest units, then the smallest residual, then the newest unit.
BestUnitMatch(matches) ==
    LeastBy(matches, LAMBDA m :
        <<Len(m.units), m.residual, -m.units[1].time, m.entry>>)

\* _find_same_zone_location_return_match: the same side before the other one.
LocationMatches(basket, target) ==
    LET side == IF target.side = "none" THEN "unknown" ELSE target.side
        same == UnitMatches(basket, target.weight, LAMBDA u : u.side = side)
    IN  IF same # {} THEN same
        ELSE UnitMatches(basket, target.weight, LAMBDA u : u.side # side)

\* _handle_freezer_location_return, one channel after the other.
HandleLocationReturn(agg, trigger) ==
    FoldLeft(
        LAMBDA a, target :
            LET matches == LocationMatches(a.basket, target)
                m == BestUnitMatch(matches)
                record == ReturnRecord(trigger, target.weight, target, trigger.zone)
            IN  IF matches = {}
                THEN [a EXCEPT !.unmatched = Append(@, record)]
                ELSE [a EXCEPT
                         !.basket = WithoutUnits(@, m.entry, m.units),
                         !.hints = Append(@, ReturnedHint(a.basket[m.entry].id,
                                      Len(m.units), record, m.units[1]))],
        agg, trigger.returns)

\* find_product_by_weight: the entry whose unit weight is nearest, the first
\* of equals.
EntriesByWeight(basket, weight) ==
    {i \in DOMAIN basket : Charged(basket[i])
                           /\ Abs(UnitWeight[basket[i].id] - weight) <= Tolerance}

\* _handle_return: one unit of the product that weighs what came back; any
\* other return waits for CLOSE.
HandleReturn(agg, trigger) ==
    LET fitting == EntriesByWeight(agg.basket, trigger.delta)
        i == LeastBy(fitting, LAMBDA k :
                 <<Abs(UnitWeight[agg.basket[k].id] - trigger.delta), k>>)
        record == ReturnRecord(trigger, trigger.delta, NoPlace, trigger.zone)
    IN  IF fitting = {}
        THEN [agg EXCEPT !.deferred = Append(@, record)]
        ELSE [agg EXCEPT
                 !.basket = WithoutLast(@, i, 1),
                 !.hints = Append(@, ReturnedHint(agg.basket[i].id, 1, record,
                               Last(agg.basket[i].units)))]

-----------------------------------------------------------------------------
(* aggregate_with_unmatched: triggers replayed by the time of their event,   *)
(* whatever order their results came in.                                     *)

IsReturn(trigger) == trigger.delta > 0

ApplyTrigger(agg, trigger, deferReturns) ==
    CASE IsReturn(trigger) /\ deferReturns ->
            [agg EXCEPT !.deferred = @ \o DeferredTargets(trigger)]
      [] IsReturn(trigger) /\ ~deferReturns /\ trigger.returns # <<>> ->
            HandleLocationReturn(agg, trigger)
      [] IsReturn(trigger) /\ ~deferReturns /\ trigger.returns = <<>> ->
            HandleReturn(agg, trigger)
      [] OTHER ->
            [agg EXCEPT
                !.deferred = @ \o ReturnHints(trigger, "before_removal")
                               \o ReturnHints(trigger, "after_removal"),
                !.basket = HandleRemoval(@, trigger)]

\* Mistake: results are replayed as they arrived.
AsTheyArrived(triggers) == triggers

Chronological(triggers) == SortedBy(triggers, LAMBDA t : <<t.time>>)

EmptyAggregate == [basket |-> <<>>, unmatched |-> <<>>, deferred |-> <<>>, hints |-> <<>>]

Aggregate(triggers, deferReturns) ==
    FoldLeft(LAMBDA agg, t : ApplyTrigger(agg, t, deferReturns),
             EmptyAggregate, Chronological(triggers))

-----------------------------------------------------------------------------
(* weight/strict_weight_matcher.py find_return_combination: a depth-first    *)
(* search over the products, heaviest first, that returns the first          *)
(* combination within the tolerance.                                         *)

ReturnAllowance(n) == IF n <= 1 THEN Tolerance ELSE Tolerance + PerItemTolerance * n

UnitsIn(f) == SumOver(f, LAMBDA n : n)

\* f comes before g in the search: counts ascend from 1, then the product is
\* skipped, and a combination is tried before its extensions.
FoundBefore(f, g) ==
    LET k == CHOOSE k \in DOMAIN f : f[k] # g[k] /\ \A j \in 1..(k - 1) : f[j] = g[j]
        rest(h) == \E j \in DOMAIN h : j > k /\ h[j] > 0
    IN  CASE f[k] = 0 -> ~rest(f)
          [] g[k] = 0 -> rest(g)
          [] OTHER    -> f[k] < g[k]

ReturnCombination(basket, weight) ==
    LET cands == SortedBy(ActiveEntries(basket), LAMBDA e : <<-UnitWeight[e.id]>>)
        n == Len(cands)
        total(f) == SumOver([i \in 1..n |-> f[i] * UnitWeight[cands[i].id]], LAMBDA w : w)
        beforeLast(f) == LET last == CHOOSE i \in 1..n : f[i] > 0 /\ \A j \in (i + 1)..n : f[j] = 0
                         IN  UnitsIn(f) - f[last]
        fits == {f \in [1..n -> 0..MaxCountPerItem] :
                    /\ \A i \in 1..n : f[i] <= cands[i].count
                    /\ \E i \in 1..n : f[i] > 0
                    /\ Abs(weight - total(f)) <= ReturnAllowance(UnitsIn(f))
                    /\ beforeLast(f) < AtLeast(MaxItems, 5)}
        first == CHOOSE f \in fits : \A g \in fits \ {f} : FoundBefore(f, g)
    IN  IF weight <= Tolerance \/ fits = {} THEN <<>>
        ELSE [i \in 1..n |-> [id |-> cands[i].id, n |-> first[i]]]
=============================================================================
