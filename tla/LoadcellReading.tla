--------------------------- MODULE LoadcellReading ---------------------------
(***************************************************************************)
(* What one upload says about the weight on its shelf                      *)
(* (core/loadcell_stats.py) and what the service makes of it               *)
(* (service/trigger_service.py).  A payload is a sequence of samples, a    *)
(* sample the grams on each channel of the zone.  Means are in milligrams. *)
(***************************************************************************)
EXTENDS Integers, Sequences, SequencesExt, FiniteSets, FiniteSetsExt

CONSTANTS
  Window,             \* samples of a stable window (stable_window_size)
  Threshold,          \* its standard deviation in grams
  MinChange,          \* min_weight_change_grams
  PairTolerance,      \* of a movement and its reverse
  EndpointMinSamples, \* of the freezer's fallback, the time they must span included
  EndpointMargin      \* how near to the extremes its ends must be

Mg == 1000
Size(x) == IF x < 0 THEN -x ELSE x
Sum(s) == FoldLeft(LAMBDA a, b : a + b, 0, s)

\* round(x, 1) of a weight in milligrams.
Tenths(x) == ((x + 50) \div 100) * 100

\* The zone's load: its channels together (avg_loadcell_channels).
Totals(samples) == [i \in DOMAIN samples |-> Sum(samples[i])]

-----------------------------------------------------------------------------
(* Stable plateaus                                                         *)

Steady(values) ==
  LET n == Len(values)
      s == Sum(values)
  IN  n * Sum([i \in DOMAIN values |-> values[i] * values[i]]) - s * s
        < Threshold * Threshold * n * n

WindowAt(v, i) ==
  [from |-> i, to |-> i + Window - 1, sum |-> Sum(SubSeq(v, i, i + Window - 1)), n |-> Window]

StableWindows(v) ==
  LET starts == SelectSeq([i \in 1..(Len(v) - Window + 1) |-> i],
                          LAMBDA i : Steady(SubSeq(v, i, i + Window - 1)))
  IN  [k \in DOMAIN starts |-> WindowAt(v, starts[k])]

\* The distance of two means is compared over their common denominator.
Apart(p, w) == Size(p.sum * w.n - w.sum * p.n)
Close(p, w, grams) == Apart(p, w) <= grams * p.n * w.n

\* A window near the last plateau melts into it, or only prolongs it.
Collapse(plateaus, w) ==
  IF plateaus = <<>> THEN <<w>>
  ELSE LET p == Last(plateaus)
           near == w.from <= p.to + 1 /\ Close(p, w, Max({Threshold, MinChange}))
       IN  IF near
             THEN Append(Front(plateaus),
                         [p EXCEPT !.to = w.to, !.sum = @ + w.sum, !.n = @ + w.n])
             ELSE IF Apart(p, w) < MinChange * p.n * w.n
               THEN Append(Front(plateaus), [p EXCEPT !.to = w.to])
               ELSE Append(plateaus, w)

Plateaus(v) ==
  IF Len(v) < 2 * Window \/ Len(StableWindows(v)) < 2 THEN <<>>
  ELSE FoldLeft(Collapse, <<>>, StableWindows(v))

Mean(p) == (Mg * p.sum) \div p.n

-----------------------------------------------------------------------------
(* Movements                                                               *)

\* The changes from plateau to plateau, in order (_segments_from_plateaus).
Segments(plateaus) ==
  SelectSeq([i \in 1..(Len(plateaus) - 1) |-> Mean(plateaus[i + 1]) - Mean(plateaus[i])],
            LAMBDA d : Size(d) >= MinChange * Mg)

Reverse2(d, e) == /\ (d < 0) # (e < 0)
                  /\ Size(Size(d) - Size(e)) <= PairTolerance * Mg
Paired(pairs) == UNION {{p[1], p[2]} : p \in pairs}

\* Mistake: a movement may reverse two others.
PartnersAgain(d, pairs, i) == {j \in (i + 1)..Len(d) : Reverse2(d[i], d[j])}

Partners(d, pairs, i) ==
  {j \in (i + 1)..Len(d) : j \notin Paired(pairs) /\ Reverse2(d[i], d[j])}

\* Each movement is paired out with the first later one that reverses it.
Pairs(d) ==
  FoldLeft(LAMBDA pairs, i :
             IF i \in Paired(pairs) \/ Partners(d, pairs, i) = {} THEN pairs
             ELSE pairs \cup {<<i, Min(Partners(d, pairs, i))>>},
           {}, [i \in DOMAIN d |-> i])

Unpaired(d) == SelectSeq([i \in DOMAIN d |-> i], LAMBDA i : i \notin Paired(Pairs(d)))

TargetsAt(d, is) == [k \in DOMAIN is |-> [at |-> is[k], weight |-> Tenths(Size(d[is[k]]))]]
RemovalTargets(d) == TargetsAt(d, SelectSeq(Unpaired(d), LAMBDA i : d[i] < 0))
ReturnTargets(d) == TargetsAt(d, SelectSeq(Unpaired(d), LAMBDA i : d[i] > 0))

\* A freezer keeps to the net change when a payload holds both kinds.
Suppressed(d, freezer) == freezer /\ RemovalTargets(d) # <<>> /\ ReturnTargets(d) # <<>>

Removed(d) == Sum([k \in DOMAIN RemovalTargets(d) |-> -d[RemovalTargets(d)[k].at]])

\* The first purchase candidate, or the net change without any.
DecisionDelta(net, d, freezer) ==
  IF Suppressed(d, freezer) THEN net
  ELSE IF net < -MinChange * Mg THEN -Tenths(-net)
  ELSE IF RemovalTargets(d) # <<>> THEN -Tenths(Removed(d))
  ELSE net

-----------------------------------------------------------------------------
(* Channels                                                                *)

\* The plain mean of one channel over all samples a plateau reaches.
ChannelMean(samples, p, c) ==
  (Mg * Sum([i \in 1..(p.to - p.from + 1) |-> samples[p.from + i - 1][c]]))
    \div (p.to - p.from + 1)

ChannelDelta(samples, plateaus, c) ==
  ChannelMean(samples, Last(plateaus), c) - ChannelMean(samples, Head(plateaus), c)

\* What each channel lost or got, if it is enough to count.
ChannelMovements(samples, plateaus) ==
  LET ds == [c \in DOMAIN samples[1] |-> ChannelDelta(samples, plateaus, c)]
      cs == SelectSeq([c \in DOMAIN ds |-> c], LAMBDA c : Size(ds[c]) >= MinChange * Mg)
  IN  [k \in DOMAIN cs |-> [pos |-> cs[k], delta |-> ds[cs[k]]]]

\* Two channels or more that lost together what the zone lost.
ChannelRemovals(moves, net) ==
  IF /\ net < -MinChange * Mg
     /\ \A k \in DOMAIN moves : moves[k].delta < 0
     /\ Len(moves) >= 2
     /\ Size(Sum([k \in DOMAIN moves |-> -moves[k].delta]) - Size(net)) <= PairTolerance * Mg
    THEN moves ELSE <<>>

-----------------------------------------------------------------------------
(* analyze_weight_delta                                                    *)

\* Mistake: the zone began where it was before its last movement.
BaselineBefore(plateaus) == plateaus[Len(plateaus) - 1]

Baseline(plateaus) == Head(plateaus)

\* Nothing is known but where the samples begin and end.
Unconfirmed(delta, start, end) ==
  [valid |-> FALSE, delta |-> delta, start |-> start, end |-> end, decision |-> 0,
   reliable |-> FALSE, segments |-> <<>>, removals |-> <<>>, returns |-> <<>>, channels |-> <<>>,
   splits |-> <<>>]

ConfirmedBy(moves, plateaus, d, net, freezer) ==
  [valid |-> TRUE, delta |-> net, start |-> Mean(Baseline(plateaus)), end |-> Mean(Last(plateaus)),
   decision |-> DecisionDelta(net, d, freezer), reliable |-> TRUE, segments |-> d,
   removals |-> IF Suppressed(d, freezer) THEN <<>> ELSE RemovalTargets(d),
   returns |-> IF Suppressed(d, freezer) THEN <<>> ELSE ReturnTargets(d),
   channels |-> moves, splits |-> ChannelRemovals(moves, net)]

Confirmed(samples, plateaus, d, net, freezer) ==
  ConfirmedBy(ChannelMovements(samples, plateaus), plateaus, d, net, freezer)

TailSettled(v, plateaus) == Len(v) - Last(plateaus).to <= Window - 1

Stable(samples, v, plateaus, freezer) ==
  IF Len(plateaus) < 2 THEN Unconfirmed(0, Mg * Head(v), Mg * Last(v))
  ELSE IF ~TailSettled(v, plateaus)
    THEN Unconfirmed(0, Mean(Baseline(plateaus)), Mean(Last(plateaus)))
    ELSE Confirmed(samples, plateaus, Segments(plateaus),
                   Mean(Last(plateaus)) - Mean(Baseline(plateaus)), freezer)

\* Mistake: the ends are compared with the wrong extremes.
EndpointFitsSwapped(v) ==
  /\ Len(v) >= EndpointMinSamples
  /\ Last(v) - Head(v) < -MinChange
  /\ Head(v) - Min(Range(v)) <= EndpointMargin
  /\ Max(Range(v)) - Last(v) <= EndpointMargin

\* A freezer without stable history charges what the ends differ by, when
\* they are the extremes (_apply_endpoint_fallback_if_eligible).
EndpointFits(v) ==
  /\ Len(v) >= EndpointMinSamples
  /\ Last(v) - Head(v) < -MinChange
  /\ Max(Range(v)) - Head(v) <= EndpointMargin
  /\ Last(v) - Min(Range(v)) <= EndpointMargin

WithEndpoint(a, v, freezer) ==
  IF ~a.valid /\ freezer /\ EndpointFits(v)
    THEN [a EXCEPT !.decision = Mg * (Last(v) - Head(v)), !.reliable = TRUE]
    ELSE a

AnalyzeTotals(samples, v, freezer) ==
  IF Len(v) < 2 THEN Unconfirmed(0, 0, 0)
  ELSE WithEndpoint(IF Len(v) < 2 * Window
                      THEN Unconfirmed(Mg * (Last(v) - Head(v)), Mg * Head(v), Mg * Last(v))
                      ELSE Stable(samples, v, Plateaus(v), freezer),
                    v, freezer)

AnalyzeWeightDelta(samples, freezer) == AnalyzeTotals(samples, Totals(samples), freezer)

-----------------------------------------------------------------------------
(* enqueue_trigger                                                         *)

Enough(x) == x > MinChange * Mg
PositiveTrend(a) == Max({a.delta, a.end - a.start})
NegativeTrend(a) == Min({a.delta, a.decision, a.end - a.start})
ReturnStable(a) == a.delta > 0 /\ a.valid

\* The kind of request a payload makes, as the pipeline takes it.
Reading(a) ==
  IF Enough(PositiveTrend(a)) /\ ~ReturnStable(a) THEN "unstable_return"
  ELSE IF Enough(-NegativeTrend(a)) /\ ~a.reliable THEN "unstable_removal"
  ELSE IF ~Enough(Size(a.decision)) THEN "low_weight"
  ELSE IF a.decision > 0 THEN "return" ELSE "removal"

\* Units put back within a removal, before or after its first removal.
MixedReturnHints(a) ==
  IF a.decision >= 0 THEN <<>>
  ELSE [k \in DOMAIN a.returns |->
          [at |-> IF a.removals = <<>> \/ a.returns[k].at < Head(a.removals).at
                    THEN "before_removal" ELSE "after_removal",
           weight |-> a.returns[k].weight]]
=============================================================================
