---------------------------- MODULE VideoEvidence ----------------------------
(***************************************************************************)
(* What a trigger's videos say about the products that moved               *)
(* (video/video_processor.py, video/voting_ensemble.py and                 *)
(* vision/hand_path_tracker.py), as operators on what the detector saw.    *)
(*                                                                         *)
(* A frame is the sequence of its detections, each                         *)
(*   [class, conf, x, y, size]  confidence in percent, position and side   *)
(* of a square box in units of 5 pixels; at most one hand in a frame.  A   *)
(* clip is what one analysis is given: the frames of each camera, the      *)
(* weight change and the classes of the active products.                   *)
(*                                                                         *)
(* seen is what the analysis has gathered so far:                          *)
(*   kept  per camera, the detections that vote (pending_votes, trackers)  *)
(*   low   detections below the confidence threshold (of both cameras, in  *)
(*         the order they were inferred)                                   *)
(*   cut   side detections out of the region of interest                   *)
(*   path  all detections of the top camera (hand path tracker)            *)
(* Every entry is a detection with its camera and the number of its frame. *)
(***************************************************************************)
EXTENDS Sequencing

CONSTANTS
  Vision,  \* config.vision and the cabinet's profile, a record
  Hand     \* hand_class_id

Camera == {"top", "side"}

\* What the detector saw of one product or hand in a frame.
Detection == [class : Nat, conf : Nat, x : Int, y : Int, size : Nat]

Larger(a, b) == IF a >= b THEN a ELSE b
Smaller(a, b) == IF a <= b THEN a ELSE b

Largest(S) == CHOOSE n \in S : \A m \in S : m <= n

Square(a, b) == (a.x - b.x) * (a.x - b.x) + (a.y - b.y) * (a.y - b.y)

\* Distance between two centres, rounded down.
Distance(a, b) ==
  CHOOSE n \in 0..300 : n * n <= Square(a, b) /\ Square(a, b) < (n + 1) * (n + 1)

-----------------------------------------------------------------------------
(* One detection *)

\* _threshold_for_camera
Threshold(c) ==
  IF c = "side" /\ ~Vision.freezer THEN Vision.side_confidence_threshold
                                   ELSE Vision.top_confidence_threshold

\* _freezer_roi_accepts
FreezerRoi(d) ==
  \/ ~Vision.top_roi_enabled
  \/ IF Vision.lower_region THEN d.y >= Vision.freezer_roi_y_split
                            ELSE d.y <= Vision.freezer_roi_y_split

\* _top_roi_accepts: no direction, no region.
TopRoi(d, delta) ==
  \/ ~Vision.top_roi_enabled \/ delta = 0
  \/ d.y >= Vision.top_roi_y_split

\* _side_roi_accepts, the soft margin included.
SideRoi(d) == d.x <= Vision.side_roi_x_max + Vision.side_roi_soft_margin

InRoi(c, d, delta) ==
  IF Vision.freezer THEN FreezerRoi(d)
  ELSE IF c = "top" THEN TopRoi(d, delta) ELSE SideRoi(d)

\* _low_confidence_roi_eligible: no soft margin for a weak detection.
LowEligible(c, d, delta) ==
  IF c = "side" /\ ~Vision.freezer THEN d.x <= Vision.side_roi_x_max
                                   ELSE InRoi(c, d, delta)

\* _record_low_confidence_detection; in a freezer the confidence floor keeps
\* every weak detection out.
IsLow(c, d, delta) ==
  /\ d.class # Hand /\ d.conf < Threshold(c)
  /\ LowEligible(c, d, delta) /\ ~Vision.freezer

\* _record_roi_filtered_detection
IsCut(c, d, delta) ==
  /\ d.class # Hand /\ d.conf >= Threshold(c)
  /\ c = "side" /\ ~Vision.freezer /\ ~SideRoi(d)

IsKept(c, d, delta) ==
  d.class # Hand /\ d.conf >= Threshold(c) /\ InRoi(c, d, delta)

-----------------------------------------------------------------------------
(* One frame *)

NothingSeen ==
  [kept |-> [c \in Camera |-> <<>>], low |-> <<>>, cut |-> <<>>, path |-> <<>>]

Entries(c, n, frame) ==
  [i \in DOMAIN frame |-> [camera |-> c, frame |-> n, det |-> frame[i]]]

\* _detect_frame: the detector looks for the active products, on the top
\* camera for the hand too, and weak hands are dropped.
Detected(c, frame, allowed) ==
  Only(frame, {d \in ToSet(frame) :
    /\ d.class \in allowed \/ (c = "top" /\ allowed # {} /\ d.class = Hand)
    /\ d.class = Hand => d.conf >= Vision.hand_confidence_threshold})

\* What the inference loop adds for frame n of camera c.
AddFrame(seen, c, n, clip) ==
  LET new == Entries(c, n, Detected(c, clip.frames[c][n + 1], clip.allowed))
      delta == clip.delta
  IN
  [kept |-> [seen.kept EXCEPT
               ![c] = @ \o Only(new, {e \in ToSet(new) : IsKept(c, e.det, delta)})],
   low  |-> seen.low \o Only(new, {e \in ToSet(new) : IsLow(c, e.det, delta)}),
   cut  |-> seen.cut \o Only(new, {e \in ToSet(new) : IsCut(c, e.det, delta)}),
   path |-> IF c = "top" THEN seen.path \o new ELSE seen.path]

-----------------------------------------------------------------------------
(* Movement *)

OfClass(entries, k) == Only(entries, {e \in ToSet(entries) : e.det.class = k})

Classes(entries) == {entries[i].det.class : i \in DOMAIN entries}

\* BboxTracker.has_motion: the box moved by a tenth of its size, and by the
\* least displacement, from first to last or from one detection to the next.
HasMotion(entries) ==
  LET size == Largest({entries[i].det.size : i \in DOMAIN entries})
      far  == Larger(Vision.motion_min_displacement, size \div 10)
      D(i, j) == Square(entries[i].det, entries[j].det)
  IN \/ D(1, Len(entries)) >= far * far
     \/ \E i \in 1..Len(entries) - 1 : D(i, i + 1) >= far * far

\* Classes whose votes _apply_motion_filter_and_votes puts in the ensemble.
Voted(entries) == {k \in Classes(entries) : HasMotion(OfClass(entries, k))}

-----------------------------------------------------------------------------
(* Votes: VotingEnsemble.combine *)

Count(entries, k) == Len(OfClass(entries, k))

Best(entries) == Largest({0} \cup {entries[i].det.conf : i \in DOMAIN entries})

\* Position of a class in the dictionary of votes.
FirstAt(entries, k) ==
  CHOOSE i \in DOMAIN entries :
    entries[i].det.class = k /\ \A j \in 1..i - 1 : entries[j].det.class # k

\* Most detections of a class in one frame of a camera.
InstanceHint(entries) ==
  Largest({1} \cup {Cardinality({j \in DOMAIN entries : entries[j].frame = entries[i].frame}) :
                      i \in DOMAIN entries})

\* Confidence of both cameras, in hundredths of a percent.
Weighted(top, side) ==
  Smaller(10000,
          IF top > 0 /\ side > 0
          THEN top * Vision.top_weight + side * Vision.side_weight
                 + Smaller(top, side) * Vision.common_class_bonus
          ELSE IF top > 0 THEN top * Vision.top_weight ELSE side * Vision.side_weight)

VoteResult(k, tops, sides, order) ==
  [class |-> k, votes |-> Len(tops) + Len(sides),
   weighted |-> Weighted(Best(tops), Best(sides)),
   hint |-> Larger(InstanceHint(tops), InstanceHint(sides)), order |-> order]

\* A class's detections on a camera, none when the box did not move there.
Moved(entries, k) == IF k \in Voted(entries) THEN OfClass(entries, k) ELSE <<>>

Combine(tops, sides) ==
  {VoteResult(k, Moved(tops, k), Moved(sides, k),
              IF k \in Voted(tops) THEN FirstAt(tops, k)
                                   ELSE Len(tops) + FirstAt(sides, k)) :
     k \in Voted(tops) \cup Voted(sides)}

\* The first n of a set of results in the order of the sort (a stable one).
Limited(S, n, Before(_, _)) == {v \in S : Cardinality({w \in S : Before(w, v)}) < n}

Stronger(v, w) ==
  v.weighted > w.weighted \/ (v.weighted = w.weighted /\ v.order < w.order)

\* At least min_vote_ratio percent of the frames, or min_vote_count votes.
EnoughVotes(v, frames) ==
  \/ frames > 0 /\ v.votes * 100 >= Vision.min_vote_ratio * frames
  \/ frames = 0 /\ Vision.min_vote_ratio = 0
  \/ v.votes >= Vision.min_vote_count

-----------------------------------------------------------------------------
(* The hand's path: HandPathTracker, with one hand in a frame *)

FrameWindow == 2
MinHandDetections == 3
MinPathLength == 6

\* Half the diagonal of a square box.
Radius(d) == (d.size * 7) \div 10

InPathRoi(e) == ~Vision.freezer \/ FreezerRoi(e.det)

Follows(track, e) ==
  /\ e.frame - Last(track).frame <= FrameWindow
  /\ Distance(Last(track).det, e.det) <= Vision.max_distance

\* _assign_hand_detections: the nearest track that may go on, or a new one.
AddHand(tracks, e) ==
  LET open == {i \in DOMAIN tracks : Follows(tracks[i], e)}
      Gap(i) == Distance(Last(tracks[i]).det, e.det)
  IN IF open = {} THEN Append(tracks, <<e>>)
     ELSE LET t == CHOOSE i \in open :
                     \A j \in open \ {i} :
                       Gap(i) < Gap(j) \/ (Gap(i) = Gap(j) /\ i < j)
          IN [tracks EXCEPT ![t] = Append(@, e)]

\* _track_is_valid
ValidTrack(track) ==
  /\ Len(track) >= MinHandDetections
  /\ FoldLeft(LAMBDA sum, i : sum + Distance(track[i].det, track[i + 1].det), 0,
              [i \in 1..Len(track) - 1 |-> i]) >= MinPathLength

ValidTracks(path) ==
  LET hands == SelectSeq(path, LAMBDA e : e.det.class = Hand /\ InPathRoi(e))
      tracks == FoldLeft(AddHand, <<>>, hands)
  IN {tracks[i] : i \in {j \in DOMAIN tracks : ValidTrack(tracks[j])}}

\* A product's box and a hand near it in time (_product_interaction_metrics).
Near(hand, e) ==
  /\ hand.frame - e.frame \in (0 - FrameWindow)..FrameWindow
  /\ LET reach == Radius(hand.det) + Radius(e.det) \div 2
         box   == e.det.size \div 2 + Radius(hand.det)
     IN \/ Distance(hand.det, e.det) <= Smaller(Vision.max_distance, reach)
        \/ /\ hand.det.x - e.det.x \in (0 - box)..box
           /\ hand.det.y - e.det.y \in (0 - box)..box

\* Classes with a box of the top camera near a valid track.
Handled(path) ==
  LET near == {i \in DOMAIN path : path[i].det.class # Hand /\ InPathRoi(path[i])}
  IN {path[i].det.class : i \in {j \in near :
        \E t \in ValidTracks(path) : \E h \in DOMAIN t : Near(t[h], path[j])}}

\* _apply_hand_path_filter_with_trace: a filter that would leave nothing, or
\* that saw no candidate near a hand, leaves everything.
HandPathFilter(results, path) ==
  LET near == {v \in results : v.class \in Handled(path)}
  IN IF near = {} THEN results ELSE near

-----------------------------------------------------------------------------
(* Rescue candidates: weak or misplaced detections that the weight may save *)

OfCamera(entries, c) == Only(entries, {e \in ToSet(entries) : e.camera = c})

MovedOn(entries, c) ==
  LET own == OfCamera(entries, c) IN own # <<>> /\ HasMotion(own)

\* _LowConfidenceClassStats.to_rescue_candidate and the mark of the conflict
\* with stronger evidence outside the region.
WeakCandidate(k, low, cut, order) ==
  LET mine == OfClass(low, k) IN
  [class |-> k, votes |-> Len(mine), best |-> Best(mine),
   cameras |-> Cardinality({mine[i].camera : i \in DOMAIN mine}),
   moved |-> \E c \in Camera : MovedOn(mine, c),
   conflict |-> \E i \in DOMAIN cut :
                  cut[i].det.class = k /\ cut[i].det.conf >= Vision.side_confidence_threshold,
   order |-> order]

StrongerWeak(v, w) ==
  \/ v.cameras > w.cameras
  \/ v.cameras = w.cameras /\ v.votes > w.votes
  \/ v.cameras = w.cameras /\ v.votes = w.votes /\ v.best > w.best
  \/ v.cameras = w.cameras /\ v.votes = w.votes /\ v.best = w.best /\ v.order < w.order

\* _build_threshold_rescue_candidates
ThresholdRescue(low, cut, allowed) ==
  LET all == {WeakCandidate(k, low, cut, FirstAt(low, k)) : k \in Classes(low) \cap allowed}
  IN Limited({v \in all : v.moved \/ v.votes >= Vision.no_motion_min_votes},
             Vision.rescue_max_candidates, StrongerWeak)

SumX(entries) == FoldLeft(LAMBDA sum, e : sum + e.det.x, 0, entries)

LongestStep(entries) ==
  Largest({0} \cup {Square(entries[i].det, entries[i + 1].det) : i \in 1..Len(entries) - 1})

MisplacedCandidate(k, cut, order) ==
  LET mine == OfClass(cut, k) IN
  [class |-> k, votes |-> Len(mine), best |-> Best(mine), step |-> LongestStep(mine),
   order |-> order]

\* _roi_rescue_rejection_reason: no motion, or too far right on average.
RoiRescuable(mine) ==
  /\ HasMotion(mine)
  /\ SumX(mine) <= Len(mine) * (Vision.side_roi_x_max + Vision.roi_rescue_over_limit)

StrongerMisplaced(v, w) ==
  \/ v.votes > w.votes
  \/ v.votes = w.votes /\ v.best > w.best
  \/ v.votes = w.votes /\ v.best = w.best /\ v.step > w.step
  \/ v.votes = w.votes /\ v.best = w.best /\ v.step = w.step /\ v.order < w.order

\* _build_roi_rescue_candidates
RoiRescue(cut, allowed) ==
  LET ok == {k \in Classes(cut) \cap allowed : RoiRescuable(OfClass(cut, k))}
  IN Limited({MisplacedCandidate(k, cut, FirstAt(cut, k)) : k \in ok},
             Vision.rescue_max_candidates, StrongerMisplaced)

-----------------------------------------------------------------------------
(* The result of an analysis *)

VoteResults(seen, frames, allowed) ==
  LET known == {v \in Combine(seen.kept["top"], seen.kept["side"]) : v.class \in allowed}
  IN Limited({v \in HandPathFilter(known, seen.path) : EnoughVotes(v, frames)},
             Vision.top_k, Stronger)

Result(seen, frames, allowed) ==
  [votes |-> VoteResults(seen, frames, allowed),
   weak |-> IF Vision.freezer THEN {} ELSE ThresholdRescue(seen.low, seen.cut, allowed),
   misplaced |-> IF Vision.freezer THEN {} ELSE RoiRescue(seen.cut, allowed)]

-----------------------------------------------------------------------------
(* process_videos: one camera after the other, every frame given *)

\* _process_single_video
SeenOfVideo(seen, c, numbers, clip) ==
  FoldLeft(LAMBDA s, n : AddFrame(s, c, n, clip), seen, numbers)

\* The result of inferring, camera by camera, the frames with the given
\* numbers (counted from 0).
Sequential(clip, numbers) ==
  LET top  == SeenOfVideo(NothingSeen, "top", numbers["top"], clip)
      both == SeenOfVideo(top, "side", numbers["side"], clip)
  IN Result(both, Len(numbers["top"]) + Len(numbers["side"]), clip.allowed)
=============================================================================
