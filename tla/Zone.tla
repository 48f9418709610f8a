-------------------------------- MODULE Zone --------------------------------
(***************************************************************************)
(* The zone: the heap of small strings and structures (commands, aliases,  *)
(* cvars, command lines), a ring of blocks linked both ways in the order   *)
(* of their addresses, with a rover where the next search starts.          *)
(*                                                                         *)
(* The blocks are a function from the addresses in the ring, of which one, *)
(* Blocklist, is zone->blocklist with the tag of a used block and no size. *)
(* Z_Malloc is an action for each turn of its search; no other call comes  *)
(* between them.  The only tag the program uses is 1.                      *)
(***************************************************************************)
EXTENDS Integers, FiniteSets

CONSTANTS
    ZoneSize,       \* -zone
    Start,          \* sizeof(memzone_t)
    BlockHeader,    \* sizeof(memblock_t)
    Marker,         \* the int at the end of a block: 4
    Align,          \* 8
    MINFRAGMENT,
    ZoneRequests    \* the sizes asked for

ASSUME ZoneAssumption ==
    /\ Start \in Nat \ {0} /\ ZoneSize \in Nat /\ Start < ZoneSize
    /\ BlockHeader \in Nat \ {0} /\ Marker \in Nat
    /\ Align \in Nat \ {0} /\ MINFRAGMENT \in Nat
    /\ ZoneRequests \subseteq Nat

VARIABLES
    zone,       \* the blocks
    rover,      \* mainzone->rover
    search,     \* the search of Z_TagMalloc, if one is going on
    zoneFailed  \* what Z_Malloc gave up on (Sys_Error), or zero

zoneVars == <<zone, rover, search, zoneFailed>>

Blocklist == 0
Idle == [size |-> 0]
Ring == DOMAIN zone
Blocks == Ring \ {Blocklist}

ZoneAligned(n) == ((n + Align - 1) \div Align) * Align
BlockSize(request) == ZoneAligned(request + BlockHeader + Marker)

\* Z_ClearZone
ZoneInit ==
    /\ zone = [a \in {Blocklist, Start} |->
                IF a = Blocklist THEN [size |-> 0, tag |-> 1, next |-> Start, prev |-> Start]
                ELSE [size |-> ZoneSize - Start, tag |-> 0, next |-> Blocklist, prev |-> Blocklist]]
    /\ rover = Start
    /\ search = Idle
    /\ zoneFailed = 0

-----------------------------------------------------------------------------
(* Z_Free                                                                  *)

\* The free block a takes over the block b after it.
Absorb(z, a, b) ==
    LET after == z[b].next
    IN  [x \in DOMAIN z \ {b} |->
            [z[x] EXCEPT !.size = IF x = a THEN @ + z[b].size ELSE @,
                         !.next = IF x = a THEN after ELSE @,
                         !.prev = IF x = after THEN a ELSE @]]

Freed(b) == [zone EXCEPT ![b].tag = 0]

\* (mutant) The rover stays on a block that was taken over.
RoverAfter_Stays(b, front) == rover

RoverAfter(b, front) ==
    IF rover = b /\ front # b THEN front
    ELSE IF rover = zone[b].next /\ zone[zone[b].next].tag = 0 THEN front
    ELSE rover

\* The block that b is part of when it is free.
Whole(b) == IF zone[zone[b].prev].tag = 0 THEN zone[b].prev ELSE b

JoinNext(z, front) ==
    IF z[z[front].next].tag = 0 THEN Absorb(z, front, z[front].next) ELSE z

JoinPrev(z, front, b) == IF front # b THEN Absorb(z, front, b) ELSE z

Z_Free(b) ==
    /\ search = Idle /\ zoneFailed = 0
    /\ b \in Blocks /\ zone[b].tag # 0
    /\ zone' = JoinNext(JoinPrev(Freed(b), Whole(b), b), Whole(b))
    /\ rover' = RoverAfter(b, Whole(b))
    /\ UNCHANGED <<search, zoneFailed>>

-----------------------------------------------------------------------------
(* Z_Malloc, Z_TagMalloc                                                   *)

\* (mutant) The search ends two blocks before the one it began with.
SearchStart_Early == zone[zone[rover].prev].prev

SearchStart == zone[rover].prev

Z_Malloc(request) ==
    /\ search = Idle /\ zoneFailed = 0
    /\ search' = [size |-> BlockSize(request), base |-> rover, rover |-> rover,
                  start |-> SearchStart]
    /\ UNCHANGED <<zone, rover, zoneFailed>>

Searching == search # Idle

\* A turn of the loop: past a used block the base moves on as well.
BaseNext ==
    IF zone[search.rover].tag # 0 THEN zone[search.rover].next ELSE search.base

Suits(a) == zone[a].tag = 0 /\ zone[a].size >= search.size

SearchOn ==
    /\ Searching
    /\ search.rover # search.start
    /\ ~Suits(BaseNext)
    /\ search' = [search EXCEPT !.base = BaseNext,
                                !.rover = zone[search.rover].next]
    /\ UNCHANGED <<zone, rover, zoneFailed>>

\* Z_TagMalloc returns NULL, on which Z_Malloc calls Sys_Error.
NotFound ==
    /\ Searching
    /\ search.rover = search.start
    /\ zoneFailed' = search.size
    /\ search' = Idle
    /\ UNCHANGED <<zone, rover>>

\* (mutant) The block after the one that is split keeps its link back.
Split_NoBackLink(b, size) ==
    LET new == b + size
    IN  [x \in Ring \cup {new} |->
            CASE x = new -> [size |-> zone[b].size - size, tag |-> 0,
                             next |-> zone[b].next, prev |-> b]
              [] x = b -> [zone[b] EXCEPT !.size = size, !.next = new]
              [] OTHER -> zone[x]]

Split(b, size) ==
    LET new == b + size
    IN  [x \in Ring \cup {new} |->
            CASE x = new -> [size |-> zone[b].size - size, tag |-> 0,
                             next |-> zone[b].next, prev |-> b]
              [] x = b -> [zone[b] EXCEPT !.size = size, !.next = new]
              [] OTHER -> [zone[x] EXCEPT !.prev = IF x = zone[b].next THEN new ELSE @]]

Carved(b, size) ==
    IF zone[b].size - size > MINFRAGMENT THEN Split(b, size) ELSE zone

Found ==
    /\ Searching
    /\ search.rover # search.start
    /\ Suits(BaseNext)
    /\ zone' = [Carved(BaseNext, search.size) EXCEPT ![BaseNext].tag = 1]
    /\ rover' = Carved(BaseNext, search.size)[BaseNext].next
    /\ search' = Idle
    /\ UNCHANGED zoneFailed

ZoneNext ==
    \/ \E request \in ZoneRequests : Z_Malloc(request)
    \/ SearchOn
    \/ NotFound
    \/ Found
    \/ \E b \in Blocks : Z_Free(b)

ZoneSpec == ZoneInit /\ [][ZoneNext]_zoneVars

-----------------------------------------------------------------------------
Block == [size : Nat, tag : {0, 1}, next : Nat, prev : Nat]

(* The types of the zone's variables; the rover and a search stay in the    *)
(* ring.                                                                    *)
ZoneTypeOK ==
    /\ Ring \subseteq 0 .. ZoneSize - 1 /\ Blocklist \in Ring
    /\ zone \in [Ring -> Block]
    /\ rover \in Ring
    /\ zoneFailed \in Nat
    /\ search = Idle \/ search \in [size : Nat, base : Ring, rover : Ring, start : Ring]

(* "There is never any space between memblocks, and there will never be two *)
(* contiguous free memblocks" (zone.cpp:33): what Z_CheckHeap looks for,    *)
(* and the ring ends where the zone does.                                   *)
HeapConsistent ==
    /\ zone[Blocklist].next = Start
    /\ \A a \in Blocks :
        /\ IF a + zone[a].size = ZoneSize THEN zone[a].next = Blocklist
           ELSE zone[a].next = a + zone[a].size
        /\ zone[zone[a].next].prev = a
        /\ zone[a].tag = 0 => zone[zone[a].next].tag # 0

(* Z_Malloc gives up only when no free block is large enough, wherever the  *)
(* rover was.                                                               *)
NotFoundOnlyWhenFull ==
    zoneFailed # 0 => \A a \in Blocks : zone[a].tag = 0 => zone[a].size < zoneFailed

Used == {a \in Blocks : zone[a].tag # 0}

(* Memory in use stays in use with its size until it is freed itself: a     *)
(* step frees one block at most, and a search none.                         *)
UsedStays ==
    [][/\ \A a \in Used \cap Used' : zone'[a].size = zone[a].size
       /\ \A a, b \in Used \ Used' : a = b
       /\ Searching => Used \subseteq Used']_zoneVars
=============================================================================
