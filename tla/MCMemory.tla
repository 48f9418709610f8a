------------------------------ MODULE MCMemory ------------------------------
(* A small instance of Memory.  The calls of the zone and those of the hunk *)
(* and the cache share no variable, so that each part is explored with the  *)
(* other one at rest.                                                       *)
EXTENDS Memory

CONSTANTS u1, u2, u3

HunkAtRest == Len(hunk.ends) = 1 /\ hunk.high = 0 /\ cache = EmptyCache
ZoneAtRest == Used = {} /\ rover = Start

MCNext ==
    \/ ZoneCall /\ HunkAtRest
    \/ CacheCall /\ ZoneAtRest

MCSpec == Memory_Init /\ [][MCNext]_vars

Owners == Permutations(User)
=============================================================================
