---------------------------- MODULE CloseWeight ----------------------------
(* The last passes of finalize_global_session: the final weight check of     *)
(* door_session_store.py, which may replace a basket by a repeated product   *)
(* or empty it, and the signed net of a freezer, freezer_close_aggregate.py. *)
EXTENDS CloseReconciliation

-----------------------------------------------------------------------------
(* The final weight check of one zone.                                       *)

\* _close_final_weight_blocker
Blocked(S, z) ==
    \/ S[z].unmatched # <<>>
    \/ S[z].cross # <<>>
    \/ \E o \in DOMAIN S : \E k \in DOMAIN S[o].cross : S[o].cross[k].target = z

IsRemoval(t) == t.delta < 0

\* What the camera proposed in the removals of a zone: <<k, c>> is the c-th
\* candidate of the k-th trigger.
Proposals(s) ==
    UNION {{k} \X {c \in DOMAIN s.triggers[k].candidates :
                      UnitWeight[s.triggers[k].candidates[c].id] > 0} :
             k \in {j \in DOMAIN s.triggers : IsRemoval(s.triggers[j])}}

Proposed(s, x) == s.triggers[x[1]].candidates[x[2]]

\* The group of product p, given the proposals of it.
Group(s, p, places) ==
    LET first   == LeastBy(places, LAMBDA x : x)
        regular == {x \in places : Proposed(s, x).regular}
    IN  [id |-> p, first |-> first,
         stock |-> Proposed(s, first).stock, priced |-> Proposed(s, first).priced,
         conf |-> Max({Proposed(s, x).conf : x \in places}),
         regular |-> Cardinality(regular),
         rank |-> IF regular = {} THEN 999 ELSE Min({Proposed(s, x).rank : x \in regular}),
         triggers |-> Cardinality({x[1] : x \in places})]

\* _close_candidate_groups, in the order of the first proposal.
CandidateGroups(s) ==
    {Group(s, p, {x \in Proposals(s) : Proposed(s, x).id = p}) :
       p \in {Proposed(s, x).id : x \in Proposals(s)}}

\* _close_group_has_strong_repeat_evidence, confidence in percent.
StrongEvidence(g) ==
    g.regular > 0 /\ (g.triggers >= 2 \/ (g.rank <= 3 /\ g.conf >= 25))

\* _close_current_has_unsupported_fragments
UnsupportedFragments(active, strong) ==
    /\ Len(active) > 1
    /\ \E k \in DOMAIN active :
          active[k].id \notin strong /\ (UnitWeight[active[k].id] < 200 \/ active[k].count > 1)

RepeatCap(s, g) ==
    LET removals == Cardinality({k \in DOMAIN s.triggers : IsRemoval(s.triggers[k])})
        caps == {SameProductMax, MaxCountPerItem, AtLeast(1, removals) * MaxPerSegment} IN
    Min(IF g.stock > 0 THEN caps \union {g.stock} ELSE caps)

Repeats(g, target) == Rounded(target, UnitWeight[g.id])

Unexplained(g, target) == Abs(target - Repeats(g, target) * UnitWeight[g.id])

\* The groups that explain the weight about as well as the basket does.
Viable(S, z, groups, strong) ==
    LET target == Abs(NetDelta(S, z))
        gap == BaseTolerance + (IF UnsupportedFragments(ActiveEntries(S[z].basket), strong)
                                THEN PerItemTolerance ELSE 0)
    IN  {g \in groups :
            /\ g.id \in strong /\ g.priced
            /\ Repeats(g, target) >= 2 /\ Repeats(g, target) <= RepeatCap(S[z], g)
            /\ Unexplained(g, target) <= BaseTolerance + PerItemTolerance * Repeats(g, target)
            /\ Unexplained(g, target) - Residual(S, z) <= gap}

MostRepeated(viable, target) ==
    LeastBy(viable, LAMBDA g : <<-g.triggers, -g.regular, g.rank, -g.conf,
                                 Unexplained(g, target), g.first[1], g.first[2]>>)

\* The basket stays when all of it was seen again and again, unless the best
\* group is its only product and explains more of the weight.
ReplacedBy(S, z, best, strong) ==
    LET target == Abs(NetDelta(S, z))
        kinds == {e.id : e \in ToSet(ActiveEntries(S[z].basket))}
    IN  IF kinds \subseteq strong
           /\ (kinds # {best.id} \/ Residual(S, z) <= Unexplained(best, target))
        THEN <<>>
        ELSE <<[id |-> best.id, count |-> Repeats(best, target), units |-> <<>>]>>

ReplacementAmong(S, z, groups, strong) ==
    LET active == ActiveEntries(S[z].basket)
        viable == Viable(S, z, groups, strong)
    IN  IF \/ Blocked(S, z) \/ NetDelta(S, z) >= 0
           \/ Abs(NetDelta(S, z)) <= BaseTolerance \/ active = <<>>
           \/ (Len(active) <= 1 /\ SumOver(active, LAMBDA e : e.count) < 4)
           \/ viable = {}
        THEN <<>>
        ELSE ReplacedBy(S, z, MostRepeated(viable, Abs(NetDelta(S, z))), strong)

Strong(groups) == {g.id : g \in {h \in groups : StrongEvidence(h)}}

\* _select_close_final_weight_replacement: <<>> or the one entry that replaces
\* the basket, a product seen again and again that explains the weight.
Replacement(S, z) ==
    LET among(groups) == ReplacementAmong(S, z, groups, Strong(groups))
    IN  among(CandidateGroups(S[z]))

\* _close_full_delta_match_tolerance
FullDeltaTolerance(n) ==
    IF n <= 1 THEN AtLeast(BaseTolerance, SingleTolerance)
    ELSE BaseTolerance + PerItemTolerance * n

\* _apply_unresolved_close_weight_mismatch_guard: TRUE when the basket does
\* not explain what went away.
Mismatch(S, z) ==
    LET active == ActiveEntries(S[z].basket) IN
    /\ NetDelta(S, z) < 0 /\ ~Blocked(S, z) /\ active # <<>>
    /\ Residual(S, z) > FullDeltaTolerance(SumOver(active, LAMBDA e : e.count))

WithReplacement(s, entries) ==
    IF entries = <<>> THEN s ELSE [s EXCEPT !.basket = entries]

ReplacedBaskets(S) ==
    IF Freezer THEN S ELSE OnEach(S, LAMBDA z : WithReplacement(S[z], Replacement(S, z)))

\* Mistake: the guard only reports the mismatch, as it does in a freezer.
FinalWeightCheckReporting(S) == ReplacedBaskets(S)

EmptiedWhereMismatched(S) ==
    OnEach(S, LAMBDA z :
        IF ~Freezer /\ Mismatch(S, z) THEN [S[z] EXCEPT !.basket = <<>>] ELSE S[z])

\* _apply_close_final_weight_validation.  A freezer keeps its basket; the
\* repair by a later candidate only runs in a freezer, after this return.
FinalWeightCheck(S) == EmptiedWhereMismatched(ReplacedBaskets(S))

-----------------------------------------------------------------------------
(* The signed net of all zones of a freezer.                                 *)

HasProducts(t) == \E k \in DOMAIN t.products : t.products[k].count > 0

\* _participants: the triggers that moved more than noise, chose a product
\* or mixed removals with returns, zone by zone as they arrived.
Participants(S) ==
    LET zones == ZoneOrder(S) IN
    FlattenSeq([k \in DOMAIN zones |->
        SelectSeq(S[zones[k]].triggers, LAMBDA t :
            Abs(t.delta) > FreezerTolerance \/ HasProducts(t) \/ t.mixed)])

\* _is_eligible
AggregateApplies(parts) ==
    \/ \E k \in DOMAIN parts : parts[k].mixed
    \/ Cardinality({parts[k].zone : k \in DOMAIN parts}) >= 2
    \/ Len(SelectSeq(parts, LAMBDA t : \/ Abs(t.delta) > FreezerTolerance
                                       \/ HasProducts(t) \/ t.candidates # <<>>)) >= 2

\* The products the participants of a zone decided on, whatever came back.
DecidedBasket(parts, z) ==
    LET known(t) == [t EXCEPT !.products = SelectSeq(@, LAMBDA q : UnitWeight[q.id] > 0)]
    IN  FoldLeft(LAMBDA b, t : HandleRemoval(b, known(t)), <<>>,
                 SelectSeq(parts, LAMBDA t : t.zone = z))

\* Position of a returned product, {} when nothing of it is known.
PositionKey(zone, side, pos) ==
    LET known == IF side \in {"unknown", "none"} THEN "none" ELSE side
    IN  IF zone = 0 \/ (known = "none" /\ pos = 0) THEN {} ELSE {<<zone, known, pos>>}

RemovalKeys(t) ==
    UNION {PositionKey(t.zone, t.removals[k].side, t.removals[k].pos) : k \in DOMAIN t.removals}

\* _selection_returned_position_context: a decided product was given back
\* and no later removal of it took place where it was put.
Suppressed(S, parts, p) ==
    LET zones == {parts[k].zone : k \in DOMAIN parts}
        hints == {h \in UNION {ToSet(S[z].hints) : z \in zones} : h.id = p}
        evidence == {t \in ToSet(parts) : \E k \in DOMAIN t.products :
                                             t.products[k].id = p /\ t.products[k].count > 0}
    IN  /\ hints # {}
        /\ ~\E h \in hints, t \in evidence :
               t.time > h.time /\ PositionKey(h.zone, h.side, h.pos) \cap RemovalKeys(t) # {}

\* _apply_freezer_close_aggregate: nothing is charged when the signed net of
\* the visit is no removal; else the baskets stay what the triggers decided,
\* or what the settled returns left.
FreezerAggregate(S) ==
    LET parts == Participants(S)
        zones == {parts[k].zone : k \in DOMAIN parts}
        net == SumOver(parts, LAMBDA t : t.delta)
        settled == \E z \in zones : S[z].reconciled
        decided == [z \in zones |-> DecidedBasket(parts, z)]
        weight == SumFunction([z \in zones |-> WeightOf(decided[z])])
        kinds == {p \in Products : \E z \in zones : CountOf(decided[z], p) > 0}
        suppressed == \E p \in kinds : Suppressed(S, parts, p)
        solved == \E k \in DOMAIN parts : \E q \in ToSet(parts[k].products) : q.count > 0 /\ q.solved
        with(baskets) == [z \in DOMAIN S |->
                             IF z \in zones THEN [S[z] EXCEPT !.basket = baskets[z]] ELSE S[z]]
    IN  CASE ~Freezer \/ parts = <<>> \/ ~AggregateApplies(parts) -> S
          [] /\ Freezer /\ parts # <<>> /\ AggregateApplies(parts)
             /\ net > FreezerTolerance \/ (Abs(net) <= FreezerTolerance /\ ~settled) ->
                with([z \in zones |-> <<>>])
          [] /\ Freezer /\ parts # <<>> /\ AggregateApplies(parts)
             /\ net < -FreezerTolerance /\ ~settled /\ ~suppressed /\ kinds # {}
             /\ (Abs(Abs(net) - weight) <= FreezerTolerance \/ solved) ->
                with(decided)
          [] OTHER -> S

-----------------------------------------------------------------------------
(* finalize_global_session: everything the store does to the baskets when    *)
(* CLOSE ends a visit, in one hold of its lock.                              *)

\* Mistake: returns that wait for CLOSE are settled after the weight check.
SettledLate(S) ==
    FreezerAggregate(SettleDeferredReturns(FinalWeightCheck(ValidateNetDelta(
        HandleCrossZoneReturns(AllRebuilt(S, TRUE))))))

Settled(S) ==
    FreezerAggregate(FinalWeightCheck(ValidateNetDelta(SettleDeferredReturns(
        HandleCrossZoneReturns(AllRebuilt(S, TRUE))))))
=============================================================================
