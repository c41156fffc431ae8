----------------------------- MODULE MCJudgement -----------------------------
(***************************************************************************)
(* Judgement on removals of a few products.  A scene is what the video and *)
(* Node say; every scene is judged at every target weight of its shelf.    *)
(***************************************************************************)
EXTENDS Judgement

CONSTANTS
  Shelves,      \* which of the shelves below are tried
  SegmentCounts, \* numbers of segment targets
  MaxTaken,      \* units taken at once
  Offsets        \* grams the scale is off

\* Unit weights by class.  On the first shelf two products weigh nearly the
\* same and about half of the third; on the second all are bottles.
ShelfWeights == <<<<120, 124, 250>>, <<500, 518, 500>>, <<60, 105, 180>>>>

\* What may have been put back just before: like a product of the first shelf.
Returns(shelf) == IF shelf = 1 THEN {{}, {120}} ELSE {{}}

Stocks == {<<4, 4, 4>>, <<1, 4, 4>>, <<4, 1, 0>>}

Products(shelf, stock, cell) ==
  [id \in 1..3 |-> [weight |-> ShelfWeights[shelf][id], stock |-> stock[id],
                    loadcell |-> id # cell]]

Seen(id, conf, votes, source, moved, gate) ==
  [id |-> id, conf |-> conf, votes |-> votes, raw |-> votes, source |-> source,
   moved |-> moved, gate |-> gate, fits |-> source # "vision"]

\* Clear, plain and faint sight of a class, and a rescue of each kind.
Sights(id) ==
  <<Seen(id, 60, 20, "vision", TRUE, TRUE), Seen(id, 25, 5, "vision", FALSE, TRUE),
    Seen(id, 10, 2, "vision", FALSE, FALSE),
    Seen(id, 20, 8, "threshold_rescue", FALSE, FALSE),
    Seen(id, 22, 4, "roi_rescue", TRUE, TRUE)>>

\* Candidates come in the order of the sights: by falling confidence, and the
\* rescued ones last.
Sightings(n) ==
  {s \in [1..n -> (1..3) \X (1..5)] :
     /\ \A i, j \in 1..n : i # j => s[i][1] # s[j][1]
     /\ \A i \in 1..(n - 1) : s[i][2] <= s[i + 1][2]}

Stage(id, conf, votes, sideConf, sideVotes, motion) ==
  [id |-> id, conf |-> conf, votes |-> votes, sideConf |-> sideConf,
   sideVotes |-> sideVotes, score |-> conf + sideConf, motion |-> motion,
   fits |-> FALSE, ranked |-> FALSE]

Stages == {<<>>, <<Stage(3, 50, 24, 50, 6, TRUE)>>, <<Stage(2, 15, 5, 0, 0, FALSE)>>,
           <<Stage(3, 20, 6, 10, 2, FALSE), Stage(1, 55, 30, 55, 8, TRUE)>>}

Scene(shelf, stock, cell, segments, back, stage, s) ==
  [target |-> 0, segments |-> segments, returned |-> back, stage |-> stage,
   products |-> Products(shelf, stock, cell),
   cands |-> [i \in DOMAIN s |-> Sights(s[i][1])[s[i][2]]]]

\* Scenes of one or two candidates alone, of three on a full shelf, and of a
\* stage trace with one candidate or none.
Scenes ==
  UNION {{Scene(shelf, stock, 0, k, back, <<>>, s) :
            stock \in Stocks, k \in SegmentCounts, back \in Returns(shelf),
            s \in Sightings(1) \cup Sightings(2)} : shelf \in Shelves}
  \cup
  {Scene(shelf, <<4, 4, 4>>, 0, k, {}, <<>>, s) :
     shelf \in Shelves \cap {1}, k \in SegmentCounts, s \in Sightings(3)}
  \cup
  {Scene(shelf, <<4, 4, 4>>, cell, 1, {}, stage, s) :
     shelf \in Shelves, cell \in {0, 3}, stage \in Stages,
     s \in Sightings(0) \cup Sightings(1)}

\* What a scene shows once the weight is known: no sold-out class is allowed
\* as a candidate, a rescue needs the weight, and so does a stage's gate.
Aim(scene, target) ==
  LET Off(id) == Gap(target, scene.products[id].weight)
      Shown(c) == /\ scene.products[c.id].stock > 0
                  /\ c.source \in RescueSources =>
                       /\ Off(c.id) <= RescueTolerance
                       /\ \/ c.source = "roi_rescue"
                          \/ c.raw >= NoMotionMinRawVotes /\ Off(c.id) <= NoMotionMaxResidual
      Weighed(e) == [e EXCEPT !.fits = /\ scene.products[e.id].stock > 0
                                       /\ Off(e.id) <= RescueTolerance]
  IN  [scene EXCEPT
         !.target = target,
         !.cands = SelectSeq(@, Shown),
         !.stage = [i \in DOMAIN @ |-> Weighed(@[i])]]

\* The weights of up to MaxTaken products, a few grams more or less.
Targets(scene) ==
  {a * scene.products[1].weight + b * scene.products[2].weight
     + c * scene.products[3].weight + off :
     <<a, b, c, off>> \in {q \in (0..MaxTaken) \X (0..MaxTaken) \X (0..MaxTaken) \X Offsets :
                              q[1] + q[2] + q[3] \in 1..MaxTaken}}

\* What is judged here are removals as the proofs mean them.
ASSUME ScenesAssumption ==
  \A scene \in Scenes : \A target \in Targets(scene) :
    IsRemoval(Aim(scene, target)) /\ NamedInStock(Aim(scene, target))

Init == removal \in Scenes /\ verdict = None
Next == \E target \in Targets(removal) : JudgeRemoval(Aim(removal, target))
Spec == Init /\ [][Next]_vars
=============================================================================
