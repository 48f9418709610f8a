------------------------------- MODULE Memory -------------------------------
(***************************************************************************)
(* The engine's memory: Memory_Init takes the zone from the bottom of the  *)
(* hunk and the level's data are allocated above it; the calls of the      *)
(* zone, the hunk and the cache follow one another in any order until one  *)
(* of them calls Sys_Error.                                                *)
(***************************************************************************)
EXTENDS Zone, Cache

\* Memory_Init calls Sys_Error when the zone does not fit into the hunk.
ASSUME MemoryAssumption == HunkTotal(ZoneSize) <= hunk_size

vars == <<zoneVars, cacheVars>>

Running == zoneFailed = 0 /\ failed = 0

Memory_Init ==
    /\ ZoneInit
    /\ hunk = [ends |-> <<HunkTotal(ZoneSize)>>, low |-> HunkTotal(ZoneSize),
               high |-> 0, tempactive |-> FALSE, tempmark |-> 0]
    /\ cache = EmptyCache /\ calling = NoCall
    /\ failed = 0 /\ recent = {} /\ moved = {}

ZoneCall == Running /\ calling = NoCall /\ ZoneNext /\ UNCHANGED cacheVars

\* A search of the zone goes on to its end first, and so does a loop of these.
CacheCall == Running /\ ~Searching /\ CacheNext /\ UNCHANGED zoneVars

Spec == Memory_Init /\ [][ZoneCall \/ CacheCall]_vars

-----------------------------------------------------------------------------
(* The types of the variables of the zone, the hunk and the cache.          *)
TypeOK == ZoneTypeOK /\ CacheTypeOK

(* Sys_Error is called for want of memory only when there is none: in the   *)
(* zone no free block is large enough, wherever the rover was, and in the   *)
(* hunk there would not be room for the data with an empty cache.           *)
GivesUpOnlyWhenFull == NotFoundOnlyWhenFull /\ FailsOnlyWhenFull

(* The variables keep their types; cached data overlaps neither other       *)
(* cached data nor the hunk, whose lowest block is always the zone; and the *)
(* pointers of the owners, the blocks and the order of last use agree.      *)
MemoryInv ==
    /\ TypeOK
    /\ CacheInRoom /\ PointersAgree
    /\ hunk.ends[1] = HunkTotal(ZoneSize)
=============================================================================
