--------------------------- MODULE MCZoneBaskets ---------------------------
EXTENDS ZoneBaskets

Still == [p \in Products |-> 0]
Unplaced(p, n) == [id |-> p, count |-> n, side |-> "unknown", pos |-> 0, solved |-> FALSE]
Plain == [products |-> <<>>, returns |-> <<>>, removals |-> <<>>, hints |-> <<>>,
          touches |-> <<>>, candidates |-> <<>>, mixed |-> FALSE]

Take(p, n) == [Plain EXCEPT !.products = <<Unplaced(p, n)>>]
                  @@ [moved |-> [Still EXCEPT ![p] = n], taken |-> [Still EXCEPT ![p] = n],
            delta |-> -(n * UnitWeight[p])]
PutBack(moved) == Plain @@
    [moved |-> [p \in Products |-> -moved[p]], taken |-> Still,
     delta |-> SumOver(SetToSeq(Products), LAMBDA p : moved[p] * UnitWeight[p])]

\* What the zone's loadcell tells of a payload that rests at each of these
\* loads in turn.
Loadcell == INSTANCE LoadcellReading
    WITH Window <- 5, Threshold <- 15, MinChange <- 5, PairTolerance <- 5,
         EndpointMinSamples <- 10, EndpointMargin <- 15

Resting(loads) == FlattenSeq([k \in DOMAIN loads |-> [i \in 1..6 |-> <<loads[k]>>]])
Grams(mg) == mg \div 1000
ToldBy(a) ==
    [delta |-> Grams(a.decision),
     hints |-> [k \in DOMAIN Loadcell!MixedReturnHints(a) |->
                  [Loadcell!MixedReturnHints(a)[k] EXCEPT !.weight = Grams(@)]],
     mixed |-> \E d, e \in ToSet(a.segments) : d < 0 /\ e > 0]
Told(loads, freezer) == ToldBy(Loadcell!AnalyzeWeightDelta(Resting(loads), freezer))

\* One product taken and a heavier one put back in the same payload: an
\* ambient cabinet judges the lighter one and replays the other, a freezer
\* only sees that the zone gained.
Swap(p, q, loads, freezer) ==
    Told(loads, freezer)
        @@ [moved |-> [Still EXCEPT ![p] = 1, ![q] = -1],
            taken |-> [Still EXCEPT ![p] = 1],
            products |-> IF freezer THEN <<>> ELSE <<Unplaced(p, 1)>>]
        @@ Plain
Swaps(freezer) == {Swap(1, 2, <<1000, 900, 1060>>, freezer),
                   Swap(1, 2, <<1000, 1160, 1060>>, freezer)}

\* Two taken at once and one of them put back: one is judged, which is what
\* the zone lost.
TakeTwoKeepOne(p, freezer) ==
    Told(<<1000, 1000 - 2 * UnitWeight[p], 1000 - UnitWeight[p]>>, freezer)
        @@ Take(p, 1)

\* Freezer movements: every loadcell channel tells what it lost or got.
Channel(pos, w) == [side |-> IF pos = 1 THEN "left" ELSE "right", pos |-> pos, weight |-> w]
TakeAt(p, n, pos) ==
    LET c == Channel(pos, n * UnitWeight[p]) IN
    [Plain EXCEPT !.products = <<[id |-> p, count |-> n, side |-> c.side, pos |-> pos,
                                  solved |-> FALSE]>>,
                  !.removals = <<c>>]
        @@ [moved |-> [Still EXCEPT ![p] = n], taken |-> [Still EXCEPT ![p] = n],
            delta |-> -(n * UnitWeight[p])]
PutBackAt(p, n, pos) ==
    [Plain EXCEPT !.returns = <<Channel(pos, n * UnitWeight[p])>>]
        @@ [moved |-> [Still EXCEPT ![p] = -n], taken |-> Still, delta |-> n * UnitWeight[p]]
PutBackBoth ==
    [Plain EXCEPT !.returns = <<Channel(1, UnitWeight[1]), Channel(2, UnitWeight[2])>>]
        @@ [moved |-> [p \in Products |-> IF p <= 2 THEN -1 ELSE 0], taken |-> Still,
            delta |-> UnitWeight[1] + UnitWeight[2]]

\* The camera may take the third product, which weighs nearly what the first
\* does, or the second, whose weight does not fit, for the first.
Weights == (1 :> 100 @@ 2 :> 160 @@ 3 :> 102)

\* A product without a price is never what the weight check bills.
Proposal(p, rank, conf) ==
    [id |-> p, rank |-> rank, conf |-> conf, stock |-> 0, regular |-> TRUE, priced |-> TRUE]
SeenAs(p, n, decided, proposals) ==
    [Take(p, n) EXCEPT !.products = <<Unplaced(decided, n)>>, !.candidates = proposals]

TakenBySight ==
    {SeenAs(1, 1, 3, <<Proposal(3, 1, 20), Proposal(1, 2, 30)>>),
     SeenAs(1, 2, 2, <<Proposal(2, 5, 10), Proposal(1, 4, 20)>>),
     SeenAs(1, 2, 2, <<[Proposal(1, 1, 30) EXCEPT !.priced = FALSE]>>)}

AmbientMovements ==
    {Take(1, 1), Take(1, 2), Take(2, 1),
     PutBack([Still EXCEPT ![1] = 1]), PutBack([Still EXCEPT ![1] = 2]),
     PutBack([Still EXCEPT ![2] = 1]),
     PutBack([p \in Products |-> IF p <= 2 THEN 1 ELSE 0])}
        \union Swaps(FALSE)

FreezerMovements ==
    {TakeAt(1, 1, 1), TakeAt(2, 1, 2), TakeAt(1, 2, 2), PutBackAt(1, 1, 1), PutBackAt(1, 1, 2),
     PutBackBoth, TakeTwoKeepOne(1, TRUE)}
        \union Swaps(TRUE)

AllMovements == [ambient |-> AmbientMovements \union TakenBySight, freezer |-> FreezerMovements]
TakenBackMovements == [ambient |-> {Take(1, 1), TakeTwoKeepOne(1, FALSE)}]
=============================================================================
