---------------------------- MODULE ShelfUploads ----------------------------
(***************************************************************************)
(* A shelf under the hands of customers, and the payload uploaded of it.   *)
(* The zone holds one load after the other, each for some samples: it      *)
(* rests, or a hand leans on it in passing.  The upload may be cut off at  *)
(* any sample.                                                             *)
(***************************************************************************)
EXTENDS LoadcellReading

CONSTANTS
  Loads,    \* grams on each channel, the totals of two loads apart enough to be told apart
  Lengths,  \* how many samples a load may last
  MaxHolds  \* bound on the loads of one payload

ASSUME ShelfAssumption == Lengths \subseteq Nat \ {0} /\ MaxHolds \in Nat \ {0}

VARIABLES
  freezer,  \* the cabinet
  holds,    \* the loads so far, with their lengths
  told      \* the analysis of the payload, {} before the upload

vars == <<freezer, holds, told>>

Samples(hs) == FlattenSeq([k \in DOMAIN hs |-> [i \in 1..hs[k].n |-> hs[k].load]])

Init ==
  /\ freezer \in BOOLEAN
  /\ holds = <<>>
  /\ told = {}

Hold(load, n) ==
  /\ told = {} /\ Len(holds) < MaxHolds
  /\ holds # <<>> => Last(holds).load # load
  /\ holds' = Append(holds, [load |-> load, n |-> n])
  /\ UNCHANGED <<freezer, told>>

Upload ==
  /\ told = {} /\ holds # <<>>
  /\ told' = {AnalyzeWeightDelta(Samples(holds), freezer)}
  /\ UNCHANGED <<freezer, holds>>

Next == Upload \/ \E load \in Loads, n \in Lengths : Hold(load, n)

Spec == Init /\ [][Next]_vars

-----------------------------------------------------------------------------

Net == Mg * (Sum(Last(holds).load) - Sum(Head(holds).load))
AtRest == Head(holds).n >= Window /\ Last(holds).n >= Window

\* Nothing was put back, and no hand leaned on the shelf.
OnlyTaken ==
  \A k \in 1..(Len(holds) - 1) : Sum(holds[k + 1].load) < Sum(holds[k].load)

\* What the channels lost, if enough to count.
LostBy(c) == Mg * (Head(holds).load[c] - Last(holds).load[c])
Losers == {c \in DOMAIN Head(holds).load : LostBy(c) >= MinChange * Mg}

\* A payload that begins and ends at rest tells what the zone lost or gained,
\* whatever happened in between, however briefly (analyze_weight_delta): the
\* net change is the true one and never taken for unstable; a mere removal is
\* charged by exactly what left, told apart by channel when two lost.
RestIsRead ==
  \A a \in told : AtRest =>
    /\ a.delta = Net
    /\ Reading(a) \notin {"unstable_return", "unstable_removal"}
    /\ OnlyTaken /\ Enough(-Net) =>
         /\ Reading(a) = "removal" /\ a.decision = Net
         /\ Range(a.splits) = IF Cardinality(Losers) < 2 THEN {}
                              ELSE {[pos |-> c, delta |-> -LostBy(c)] : c \in Losers}

\* However the upload is cut off, a mere removal is never charged by more than
\* what left, and a freezer charges it as soon as there are samples enough.
RemovalIsCharged ==
  \A a \in told : OnlyTaken /\ Enough(-Net) =>
    /\ Reading(a) = "removal" => a.decision >= Net
    /\ freezer /\ Len(Samples(holds)) >= EndpointMinSamples => Reading(a) = "removal"

HintedWeight(a) ==
  Sum([k \in DOMAIN MixedReturnHints(a) |-> MixedReturnHints(a)[k].weight])

\* Pairing out leaves at most a tolerance per pair unexplained, rounding a
\* tenth of a gram per movement.
Slack(a) ==
  PairTolerance * Mg * Cardinality(Pairs(a.segments)) + 100 * Len(a.segments)

\* The movements that are not paired out (each with one other) add up to the
\* net change, however many plateaus, bumps and reversals a payload has; and
\* a zone that did not lose weight, but had something taken from it, is judged
\* by what was taken and replays what was put back: together the net change.
MovementsExplainNet ==
  \A a \in told : a.valid /\ ~freezer =>
    /\ Size(Sum([k \in DOMAIN a.returns |-> a.returns[k].weight])
              - Sum([k \in DOMAIN a.removals |-> a.removals[k].weight]) - a.delta) <= Slack(a)
    /\ a.decision < 0 /\ ~Enough(-a.delta) =>
         Size(a.decision + HintedWeight(a) - a.delta) <= Slack(a)
=============================================================================
