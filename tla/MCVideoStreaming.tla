--------------------------- MODULE MCVideoStreaming ---------------------------
(* Clips for VideoStreaming: classes 1 and 2, the hand is 0. *)
EXTENDS VideoStreaming

MCVision ==
  [freezer |-> FALSE, lower_region |-> FALSE, freezer_roi_y_split |-> 48,
   top_confidence_threshold |-> 70, side_confidence_threshold |-> 70,
   hand_confidence_threshold |-> 40,
   top_roi_enabled |-> TRUE, top_roi_y_split |-> 48,
   side_roi_x_max |-> 80, side_roi_soft_margin |-> 1,
   motion_min_displacement |-> 2, max_distance |-> 30,
   top_weight |-> 60, side_weight |-> 40, common_class_bonus |-> 20,
   min_vote_ratio |-> 5, min_vote_count |-> 2, top_k |-> 1,
   no_motion_min_votes |-> 3, rescue_max_candidates |-> 1, roi_rescue_over_limit |-> 0]

D(k, conf, x, y) == [class |-> k, conf |-> conf, x |-> x, y |-> y, size |-> 20]

\* The hand passes product 1, product 2 stands still and then moves.  Every
\* second frame is skipped, and would say something else.
Skipped == <<D(2, 99, 10, 90)>>
HandAt(x) == D(0, 60, x, 60)
TopFrames == <<<<HandAt(20), D(1, 80, 22, 60)>>, Skipped,
               <<HandAt(24), D(1, 90, 30, 60), D(2, 75, 70, 60)>>, Skipped,
               <<HandAt(28), D(2, 95, 76, 60)>>>>
\* Weak detections of product 1 too, and a strong one too far right.
SideFrames == <<<<D(2, 80, 40, 50), D(1, 50, 40, 50), D(1, 90, 84, 50)>>, Skipped,
                <<D(2, 85, 60, 50), D(1, 50, 60, 50), D(1, 90, 81, 50)>>>>
\* Equal weak evidence on both cameras.
WeakTop  == <<<<D(1, 50, 20, 60)>>, Skipped, <<D(1, 50, 30, 60)>>>>
WeakSide == <<<<D(2, 50, 20, 60)>>, Skipped, <<D(2, 50, 30, 60)>>>>

Clip(top, side, given, expected) ==
  [frames |-> [c \in Camera |-> IF c = "top" THEN top ELSE side],
   given |-> [c \in Camera |-> c \in given], expected |-> [c \in Camera |-> c \in expected],
   delta |-> -1, allowed |-> {1, 2}]

MCClips ==
  {Clip(TopFrames, SubSeq(SideFrames, 1, 1), Camera, Camera),
   Clip(WeakTop, SideFrames, Camera, Camera),
   Clip(WeakTop, WeakSide, Camera, Camera),
   Clip(TopFrames, <<>>, {"top"}, {"top"}),
   Clip(<<>>, SubSeq(SideFrames, 1, 1), Camera, Camera),
   Clip(<<>>, <<>>, {}, {})}

\* One frame more than the queue holds.
MCLongClip == {Clip(TopFrames, WeakSide, Camera, Camera)}
=============================================================================
