-------------------------- MODULE MCTriggerPipeline --------------------------
(* Small instances of the trigger pipeline for TLC. *)
EXTENDS PipelineProperties

CONSTANTS c1, c2

\* Two clips of one zone: what the registry's fallback needs.
OneZone == {1}
TwoClips == {c1, c2}
TwoClipsOneZone == [c \in TwoClips |-> 1]

\* One clip, which may come again after it left the duplicate cache.
OneClip == {c1}
OneClipOneZone == [c \in OneClip |-> 1]
=============================================================================
