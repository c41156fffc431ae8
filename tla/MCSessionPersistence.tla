------------------------ MODULE MCSessionPersistence ------------------------
(* Small instances of the persistence of baskets for TLC. *)
EXTENDS SessionPersistence

CONSTANTS t1, t2, loop

OneZone == {1}
TwoZones == {1, 2}
TwoThreads == {t1, t2}
=============================================================================
