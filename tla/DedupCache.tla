------------------------------ MODULE DedupCache ------------------------------
(***************************************************************************)
(* The duplicate-request cache of TriggerService                           *)
(* (service/trigger_service.py, _dedup_cache).                             *)
(*                                                                         *)
(* The key of an entry is a hash of the zone and of the two video files of *)
(* a request: here, the clip.  An entry holds the session id it answers    *)
(* with and its age in ticks.  The code drops expired entries when the     *)
(* next request looks the cache up; nothing reads the cache in between, so *)
(* an entry leaves here on the tick that makes it older than DedupTTL.     *)
(***************************************************************************)
EXTENDS Naturals, FiniteSets

CONSTANTS
  Clip,      \* the video pairs cameras upload
  DedupTTL,  \* DEDUP_TTL_SECONDS, in ticks
  DedupMax   \* DEDUP_MAX_SIZE

ASSUME DedupAssumption == DedupTTL \in Nat /\ DedupMax \in Nat \ {0}

EmptyCache == [c \in {} |-> [sid |-> 0, age |-> 0]]

\* The sets of keys a lookup may keep.  A cache at its limit is shrunk to one
\* entry below it, oldest first, before the key is looked up, whether or not
\* the key is already there.
Kept(cache) ==
  IF Cardinality(DOMAIN cache) < DedupMax
    THEN {DOMAIN cache}
    ELSE {K \in SUBSET DOMAIN cache :
            /\ Cardinality(K) = DedupMax - 1
            /\ \A young \in K, old \in DOMAIN cache \ K :
                 cache[young].age <= cache[old].age}

\* What _check_duplicate may leave of the cache.
LookedUp(cache) == {[c \in K |-> cache[c]] : K \in Kept(cache)}

Registered(cache, c, s) ==
  [k \in DOMAIN cache \cup {c} |->
     IF k = c THEN [sid |-> s, age |-> 0] ELSE cache[k]]

\* One tick later: every entry is older, the expired ones are gone.
Aged(cache) ==
  [c \in {k \in DOMAIN cache : cache[k].age < DedupTTL} |->
     [cache[c] EXCEPT !.age = @ + 1]]

=============================================================================
