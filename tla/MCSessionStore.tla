--------------------------- MODULE MCSessionStore ---------------------------
(* Small instances of the session store for TLC. *)
EXTENDS SessionStore

CONSTANTS s1, s2, s3

ThreeSessions == {s1, s2, s3}
TwoZones == {1, 2}
ThreeInTwoZones == [s \in ThreeSessions |-> IF s = s3 THEN 2 ELSE 1]
=============================================================================
