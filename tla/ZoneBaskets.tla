---------------------------- MODULE ZoneBaskets ----------------------------
(* The baskets of one door visit.  Customers take products and put them back *)
(* in any zone; each movement becomes a trigger, whose result reaches the    *)
(* door session store when its video is analysed, in any order (the store's  *)
(* add_trigger_with_global, door_session_store.py).  CLOSE settles them.     *)
(* Without a visit (no OPEN was seen) the store keeps the same sessions and  *)
(* never settles them together.                                              *)
EXTENDS CloseWeight

CONSTANTS
    Zones,        \* zone numbers
    Movements,    \* cabinet type -> what one trigger may be: [moved, taken, delta, products,
                  \*   returns, removals, hints, touches, candidates, mixed]
    MaxEvents     \* bound on the triggers of a visit

Sides == {"left", "right", "unknown", "none"}

\* What the decision on a trigger chose, and what the camera proposed for it.
Decided == [id : Products, count : Int, side : Sides, pos : Nat, solved : BOOLEAN]
Candidate == [id : Products, rank : Nat, conf : Nat, stock : Nat,
              regular : BOOLEAN, priced : BOOLEAN]

ASSUME ZonesAssumption ==
    /\ Zones \subseteq Nat \ {0} /\ MaxEvents \in Nat \ {0}
    /\ \A type \in DOMAIN Movements : \A m \in Movements[type] :
          m.delta \in Int /\ m.products \in Seq(Decided) /\ m.candidates \in Seq(Candidate)

VARIABLES
    visit,      \* _global_session is not None: OPEN was seen
    events,     \* the triggers, in the order in which they happened
    sessions,   \* _active_sessions: zone -> session record
    closed      \* CLOSE has settled the visit

vars == <<cabinet, visit, events, sessions, closed>>

NewSession(created) ==
    [created |-> created, triggers |-> <<>>, basket |-> <<>>, unmatched |-> <<>>,
     deferred |-> <<>>, cross |-> <<>>, hints |-> <<>>, reconciled |-> FALSE]

ResultIds == UNION {{sessions[z].triggers[k].id : k \in DOMAIN sessions[z].triggers} :
                    z \in DOMAIN sessions}

\* What was taken from zone f and not put back, in whichever zone.
HeldFrom(f, p) == SumOver(events, LAMBDA t : IF t.from = f THEN t.moved[p] ELSE 0)
Held(p) == SumOver(events, LAMBDA t : t.moved[p])

Init ==
    /\ cabinet \in DOMAIN Movements
    /\ visit \in BOOLEAN
    /\ events = <<>>
    /\ sessions = <<>>
    /\ closed = FALSE

\* The trigger of movement m in zone z, the n-th of the visit.
Trigger(m, z, f, n) ==
    [id |-> n, zone |-> z, from |-> f, time |-> n, moved |-> m.moved, taken |-> m.taken,
     delta |-> m.delta, products |-> m.products, returns |-> m.returns,
     removals |-> m.removals, hints |-> m.hints, touches |-> m.touches,
     candidates |-> m.candidates, mixed |-> m.mixed]

\* A movement in zone z: products taken from it, or put into it that were
\* taken from zone f.
Move(z, f, m) ==
    /\ ~closed /\ Len(events) < MaxEvents
    /\ m.delta < 0 => f = z
    /\ \A p \in Products : HeldFrom(f, p) + m.moved[p] >= 0
    /\ events' = Append(events, Trigger(m, z, f, Len(events) + 1))
    /\ UNCHANGED <<cabinet, visit, sessions, closed>>

\* The sessions with one of zone z among them.
Opened(z) ==
    [o \in DOMAIN sessions \union {z} |->
        IF o \in DOMAIN sessions THEN sessions[o] ELSE NewSession(Cardinality(ResultIds) + 1)]

\* The result of one trigger reaches the store, which opens the session of
\* its zone and rebuilds all of them.
AddTrigger(t) ==
    /\ ~closed /\ t.id \notin ResultIds
    /\ sessions' = Reaggregate([Opened(t.zone) EXCEPT ![t.zone].triggers = Append(@, t)], visit)
    /\ UNCHANGED <<cabinet, visit, events, closed>>

\* CLOSE ends the visit with the results it has.
Close ==
    /\ visit /\ ~closed
    /\ sessions' = Settled(sessions)
    /\ closed' = TRUE
    /\ UNCHANGED <<cabinet, visit, events>>

Next ==
    \/ \E z, f \in Zones, m \in Movements[cabinet] : Move(z, f, m)
    \/ \E k \in DOMAIN events : AddTrigger(events[k])
    \/ Close

Spec == Init /\ [][Next]_vars

-----------------------------------------------------------------------------

Complete == Cardinality(ResultIds) = Len(events)

\* A session is a well-formed record and no count of a basket is negative.
TypeOK ==
    /\ visit \in BOOLEAN /\ closed \in BOOLEAN
    /\ Len(events) <= MaxEvents
    /\ DOMAIN sessions \subseteq Zones
    /\ \A z \in DOMAIN sessions : \A k \in DOMAIN sessions[z].basket :
          sessions[z].basket[k].id \in Products /\ sessions[z].basket[k].count \in Nat

\* While the door is open, every unit a result put into a zone's basket is
\* still in it, was put back in that zone, or was matched with a return felt
\* in another zone; and the units listed are as many as the count billed.
UnitsAccounted ==
    ~closed /\ visit => \A z \in DOMAIN sessions, p \in Products :
        LET s == sessions[z]
            decided == SumOver(s.triggers, LAMBDA t : CountOf(t.products, p))
            back == SumOver(s.hints, LAMBDA h : IF h.id = p THEN h.count ELSE 0)
            elsewhere == SumFunction([o \in DOMAIN sessions |-> SumOver(sessions[o].cross,
                             LAMBDA r : IF r.target = z /\ r.id = p THEN 1 ELSE 0)])
        IN  /\ decided = CountOf(s.basket, p) + back + elsewhere
            /\ \A k \in DOMAIN s.basket : Len(s.basket[k].units) = s.basket[k].count

\* The camera named what was taken, in every removal.
SeenRight ==
    \A k \in DOMAIN events : \A p \in Products :
        CountOf(events[k].products, p) = events[k].taken[p]

\* Until CLOSE every return felt by a zone is in one place: it took units out
\* of its own zone, or units of other zones, or is kept as unmatched or as
\* waiting, never in two of these and never lost.  (By weight: the movements
\* of the instances weigh exactly what they move.)
ReturnsAccounted ==
    ~closed /\ SeenRight => \A z \in DOMAIN sessions :
        LET s == sessions[z]
            felt == SumOver(s.triggers, LAMBDA t :
                        (IF IsReturn(t) THEN t.delta ELSE 0) + SumOver(t.hints, LAMBDA h : h.weight))
        IN  felt = SumOver(s.unmatched, LAMBDA u : u.delta)
                    + SumOver(s.deferred, LAMBDA u : u.delta)
                    + SumOver(s.cross, LAMBDA r : r.delta)
                    + SumOver(s.hints, LAMBDA h : h.count * UnitWeight[h.id])

\* Whatever was taken or put back has exactly one effect on the baskets.
MovementsAccounted == UnitsAccounted /\ ReturnsAccounted

\* The results of every session as they would stand had they arrived in the
\* order in which things happened, in sessions opened in the order they were.
ReplayedInOrder ==
    Reaggregate(OnEach(sessions, LAMBDA z :
                    [sessions[z] EXCEPT
                        !.triggers = SetToSortSeq(ToSet(@), LAMBDA t, u : t.time < u.time)]),
                visit)

\* What the baskets hold depends on the order in which the results arrived only
\* through the order in which that opened the zones' sessions: whichever result
\* came first, and however often the baskets were rebuilt since, they hold what
\* the same results give when they arrive as things happened.  (The order of the
\* sessions themselves can matter: it decides between zones that explain a
\* return equally well, see StableKey.)
ArrivalOrderIsImmaterial ==
    LET replayed == ReplayedInOrder IN
    ~closed => \A z \in DOMAIN sessions, p \in Products :
        CountOf(sessions[z].basket, p) = CountOf(replayed[z].basket, p)

Billed(p) == SumFunction([z \in DOMAIN sessions |-> CountOf(sessions[z].basket, p)])
BilledWeight == SumFunction([z \in DOMAIN sessions |-> WeightOf(sessions[z].basket)])

\* A customer who put everything back, in whichever zones, pays nothing.
NothingHeldNothingBilled ==
    closed /\ Complete /\ SeenRight /\ (\A p \in Products : Held(p) = 0) => BilledWeight = 0

\* No zone ended the visit heavier than it began.
NoZoneGained ==
    \A z \in Zones : SumOver(events, LAMBDA t : IF t.zone = z THEN EffectiveDelta(t) ELSE 0) <= 0

HeldWeight == SumOver(SetToSeq(Products), LAMBDA p : Held(p) * UnitWeight[p])

\* The bill weighs what the customer holds, over all zones and whatever was
\* put back where, unless a zone of an ambient cabinet ended heavier than it
\* began.
BillWeighsWhatIsHeld ==
    closed /\ Complete /\ SeenRight /\ (NoZoneGained \/ Freezer) => BilledWeight = HeldWeight

\* Nothing that was carried off is left unpaid: returns are never credited
\* twice, nor for more than they weigh.
NothingUnpaid == closed /\ Complete /\ SeenRight => BilledWeight >= HeldWeight

\* What is held is billed: everything brought back costs nothing and nothing
\* kept is free.
BillIsFair == NothingHeldNothingBilled /\ NothingUnpaid

\* The loadcells lost weight with every trigger, and felt no return in any.
OnlyRemovals == \A k \in DOMAIN events : IsRemoval(events[k]) /\ events[k].hints = <<>>

\* What went away according to the loadcells of a session's zone.
Lost(s) == -SumOver(s.triggers, EffectiveDelta)

\* Whatever the camera saw, after a visit in which nothing was put back each
\* zone of an ambient cabinet pays for what weighs as much as its loadcells
\* lost, or for nothing that has a known weight.
BillFollowsTheScales ==
    closed /\ ~Freezer /\ OnlyRemovals =>
        \A z \in DOMAIN sessions :
            LET s == sessions[z]
                billed == ActiveEntries(s.basket)
                units == SumOver(billed, LAMBDA e : e.count)
            IN  billed = <<>> \/ Abs(WeightOf(s.basket) - Lost(s)) <= FullDeltaTolerance(units)
=============================================================================
