-------------------------------- MODULE Cache --------------------------------
(***************************************************************************)
(* The hunk and the cache: the hunk grows from both ends of one region     *)
(* (the loaded level from below, one temporary buffer from above), and the *)
(* cache (models, sprites, decals, files) lives in the room between.  When *)
(* an end of the hunk grows, the cached blocks in its way are moved, or    *)
(* freed when there is no place for them; a block that does not fit makes  *)
(* the least recently used ones go.                                        *)
(*                                                                         *)
(* The loops of Cache_FreeLow, Cache_FreeHigh, Cache_Alloc and             *)
(* Cache_Force_Flush are an action for each turn; no other call comes      *)
(* between them.  The list of the cache's blocks and the list by last use  *)
(* are sequences of blocks and of their addresses.  The high end is used   *)
(* for temporary buffers only, so Hunk_HighMark and Hunk_HighAllocName are *)
(* part of Hunk_TempAlloc.  recent and moved are history.                  *)
(***************************************************************************)
EXTENDS Integers, SequencesExt, FiniteSets

CONSTANTS
    User,           \* cache_user_t: the owners of cached data
    NULL,
    hunk_size,
    HunkHeader,     \* sizeof(hunk_t)
    CacheHeader,    \* sizeof(cache_system_t)
    Alignment,      \* 16
    HunkRequests, TempRequests, CacheRequests   \* the sizes asked for

ASSUME CacheAssumption ==
    /\ hunk_size \in Nat
    /\ HunkHeader \in Nat \ {0} /\ CacheHeader \in Nat \ {0}
    /\ Alignment \in Nat \ {0}
    /\ HunkRequests \subseteq Nat /\ TempRequests \subseteq Nat
    /\ CacheRequests \subseteq Nat \ {0}
    /\ NULL \notin Nat

VARIABLES
    hunk,       \* where the blocks of the low hunk end; used at both ends;
                \* hunk_tempactive, hunk_tempmark
    cache,      \* the blocks, the list by last use (the most recent first),
                \* the owners' pointers
    calling,    \* the call whose loop is going on, if any
    failed,     \* what Sys_Error was called for, or zero
    recent,     \* <<u, v>>: u used its data after v did
    moved       \* owners whose data was moved since they used it

cacheVars == <<hunk, cache, calling, failed, recent, moved>>

NoCall == [call |-> "none"]

Aligned(n) == ((n + Alignment - 1) \div Alignment) * Alignment
HunkTotal(size) == Aligned(size) + HunkHeader
CacheTotal(size) == Aligned(size + CacheHeader)

Room(h) == hunk_size - h.high - h.low

-----------------------------------------------------------------------------
(* The cache, as operators on its state c between the ends of the hunk h   *)

EmptyCache == [blocks |-> <<>>, lru |-> <<>>, data |-> [u \in User |-> NULL]]

End(b) == b.addr + b.size

\* The address below the i-th block where the room before it begins.
GapStart(c, h, i) == IF i = 1 THEN h.low ELSE End(c.blocks[i - 1])

\* (mutant) The room after the last block is taken to reach the hunk's end.
GapEnd_Top(c, h, i) == IF i <= Len(c.blocks) THEN c.blocks[i].addr ELSE hunk_size

GapEnd(c, h, i) == IF i <= Len(c.blocks) THEN c.blocks[i].addr ELSE hunk_size - h.high

\* Cache_TryAlloc looks at the gaps from below; nobottom leaves out the one
\* under the first block.
Gaps(c, h, size, nobottom) ==
    {i \in 1 .. Len(c.blocks) + 1 :
        /\ GapEnd(c, h, i) - GapStart(c, h, i) >= size
        /\ nobottom => i # 1}

Fits(c, h, size) == Gaps(c, h, size, FALSE) # {}

\* The new block is the most recently used; its owner has no pointer yet.
Placed(c, h, size, nobottom, user) ==
    LET i == Min(Gaps(c, h, size, nobottom))
        new == [addr |-> GapStart(c, h, i), size |-> size, user |-> user]
    IN  [c EXCEPT !.blocks = InsertAt(@, i, new), !.lru = <<new.addr>> \o @]

PlaceOf(addr, s) == CHOOSE i \in DOMAIN s : s[i] = addr
BlockAt(c, addr) == CHOOSE i \in DOMAIN c.blocks : c.blocks[i].addr = addr

\* Cache_Free
CacheFreed(c, user) ==
    LET addr == c.data[user]
    IN  [c EXCEPT !.blocks = RemoveAt(@, BlockAt(c, addr)),
                  !.lru = RemoveAt(@, PlaceOf(addr, @)),
                  !.data[user] = NULL]

\* (mutant) The owner keeps its pointer to the place the block was moved from.
CacheMoved_Stale(c, h, b) ==
    IF Gaps(c, h, b.size, TRUE) = {} THEN CacheFreed(c, b.user)
    ELSE LET placed == Placed(c, h, b.size, TRUE, b.user)
         IN  [CacheFreed(placed, b.user) EXCEPT !.data[b.user] = b.addr]

\* Cache_Move
CacheMoved(c, h, b) ==
    IF Gaps(c, h, b.size, TRUE) = {} THEN CacheFreed(c, b.user)
    ELSE LET placed == Placed(c, h, b.size, TRUE, b.user)
         IN  [CacheFreed(placed, b.user) EXCEPT !.data[b.user] = Head(placed.lru)]

Owner(c, addr) == c.blocks[BlockAt(c, addr)].user

\* (mutant) The most recently used block goes first.
Victim_Recent(c) == Owner(c, Head(c.lru))

\* The owner of the least recently used block
Victim(c) == Owner(c, Last(c.lru))

MadeRecent(c, user) ==
    [c EXCEPT !.lru = <<c.data[user]>> \o RemoveAt(@, PlaceOf(c.data[user], @))]

-----------------------------------------------------------------------------
(* History                                                                 *)

\* Owners without data are of no interest to the history.
Remember(newer, relocated) ==
    /\ recent' = {p \in newer : cache'.data[p[1]] # NULL /\ cache'.data[p[2]] # NULL}
    /\ moved' = {u \in relocated : cache'.data[u] # NULL}

Touch(user) ==
    Remember({user} \X (User \ {user}) \cup {p \in recent : p[1] # user /\ p[2] # user},
             moved \ {user})

-----------------------------------------------------------------------------
(* The loops                                                               *)

Move(b) ==
    /\ cache' = CacheMoved(cache, hunk, b)
    /\ Remember(recent, moved \cup {b.user})

Free(user) ==
    /\ cache' = CacheFreed(cache, user)
    /\ Remember(recent, moved)

Return ==
    /\ calling' = NoCall
    /\ UNCHANGED <<cache, recent, moved>>

\* The low end is at its new place already.
Below == cache.blocks # <<>> /\ Head(cache.blocks).addr < hunk.low

Cache_FreeLow ==
    /\ calling.call = "Cache_FreeLow"
    /\ \/ Below /\ Move(Head(cache.blocks)) /\ UNCHANGED calling
       \/ ~Below /\ Return
    /\ UNCHANGED <<hunk, failed>>

Above == cache.blocks # <<>> /\ End(Last(cache.blocks)) > hunk_size - hunk.high

\* prev is the address of the block moved last.
Cache_FreeHigh ==
    /\ calling.call = "Cache_FreeHigh"
    /\ LET b == Last(cache.blocks)
       IN  \/ /\ Above
              /\ IF b.addr = calling.prev THEN Free(b.user) ELSE Move(b)
              /\ calling' = [calling EXCEPT !.prev = b.addr]
           \/ ~Above /\ Return
    /\ UNCHANGED <<hunk, failed>>

Evict ==
    /\ calling.call = "Cache_Alloc"
    /\ ~Fits(cache, hunk, calling.size) /\ cache.blocks # <<>>
    /\ Free(Victim(cache))
    /\ UNCHANGED <<hunk, calling, failed>>

Place ==
    /\ calling.call = "Cache_Alloc"
    /\ Fits(cache, hunk, calling.size)
    /\ LET placed == Placed(cache, hunk, calling.size, FALSE, calling.user)
       IN  cache' = [placed EXCEPT !.data[calling.user] = Head(placed.lru)]
    /\ Touch(calling.user)
    /\ calling' = NoCall
    /\ UNCHANGED <<hunk, failed>>

NoPlace ==
    /\ calling.call = "Cache_Alloc"
    /\ ~Fits(cache, hunk, calling.size) /\ cache.blocks = <<>>
    /\ failed' = calling.size
    /\ calling' = NoCall
    /\ UNCHANGED <<hunk, cache, recent, moved>>

Flush ==
    /\ calling.call = "Cache_Force_Flush"
    /\ \/ cache.blocks # <<>> /\ Free(Head(cache.blocks).user) /\ UNCHANGED calling
       \/ cache.blocks = <<>> /\ Return
    /\ UNCHANGED <<hunk, failed>>

-----------------------------------------------------------------------------
(* Calls                                                                   *)

Ready == failed = 0 /\ calling = NoCall

Hunk_AllocName(size) ==
    /\ Ready
    /\ Room(hunk) >= HunkTotal(size)
    /\ hunk' = [hunk EXCEPT !.low = @ + HunkTotal(size),
                            !.ends = Append(@, hunk.low + HunkTotal(size))]
    /\ calling' = [call |-> "Cache_FreeLow"]
    /\ UNCHANGED <<cache, failed, recent, moved>>

Hunk_AllocFails(size) ==
    /\ Ready
    /\ Room(hunk) < HunkTotal(size)
    /\ failed' = HunkTotal(size)
    /\ UNCHANGED <<hunk, cache, calling, recent, moved>>

\* A mark is where the low end was when n blocks were allocated.
Hunk_FreeToLowMark(n) ==
    /\ Ready
    /\ n < Len(hunk.ends)
    /\ hunk' = [hunk EXCEPT !.low = hunk.ends[n], !.ends = SubSeq(@, 1, n)]
    /\ UNCHANGED <<cache, calling, failed, recent, moved>>

\* The high end without the temporary buffer: Hunk_HighMark
WithoutTemp == IF hunk.tempactive THEN hunk.tempmark ELSE hunk.high

Hunk_TempAlloc(size) ==
    LET total == HunkTotal(Aligned(size))
        h == [hunk EXCEPT !.tempactive = TRUE, !.tempmark = WithoutTemp,
                          !.high = WithoutTemp]
    IN  /\ Ready
        /\ IF Room(h) < total
           THEN hunk' = h /\ UNCHANGED calling
           ELSE /\ hunk' = [h EXCEPT !.high = @ + total]
                /\ calling' = [call |-> "Cache_FreeHigh", prev |-> NULL]
        /\ UNCHANGED <<cache, failed, recent, moved>>

Cache_Check(user) ==
    /\ Ready
    /\ cache.data[user] # NULL
    /\ cache' = MadeRecent(cache, user)
    /\ Touch(user)
    /\ UNCHANGED <<hunk, calling, failed>>

Cache_Free(user) ==
    /\ Ready
    /\ cache.data[user] # NULL
    /\ Free(user)
    /\ UNCHANGED <<hunk, calling, failed>>

Cache_Alloc(user, size) ==
    /\ Ready
    /\ cache.data[user] = NULL
    /\ calling' = [call |-> "Cache_Alloc", user |-> user, size |-> CacheTotal(size)]
    /\ UNCHANGED <<hunk, cache, failed, recent, moved>>

Cache_Force_Flush ==
    /\ Ready
    /\ calling' = [call |-> "Cache_Force_Flush"]
    /\ UNCHANGED <<hunk, cache, failed, recent, moved>>

CacheNext ==
    \/ Cache_FreeLow
    \/ Cache_FreeHigh
    \/ Evict \/ Place \/ NoPlace
    \/ Flush
    \/ \E size \in HunkRequests : Hunk_AllocName(size) \/ Hunk_AllocFails(size)
    \/ \E n \in DOMAIN hunk.ends : Hunk_FreeToLowMark(n)
    \/ \E size \in TempRequests : Hunk_TempAlloc(size)
    \/ \E user \in User : Cache_Check(user) \/ Cache_Free(user)
    \/ \E user \in User, size \in CacheRequests : Cache_Alloc(user, size)
    \/ Cache_Force_Flush

-----------------------------------------------------------------------------
Calls ==
    {NoCall} \cup [call : {"Cache_FreeLow", "Cache_Force_Flush"}]
    \cup [call : {"Cache_FreeHigh"}, prev : Nat \cup {NULL}]
    \cup [call : {"Cache_Alloc"}, user : User, size : Nat]

(* The types; the hunk's two ends do not meet.                              *)
CacheTypeOK ==
    /\ hunk \in [ends : Seq(Nat), low : Nat, high : Nat, tempactive : BOOLEAN,
                 tempmark : Nat]
    /\ hunk.low + hunk.high <= hunk_size
    /\ hunk.tempactive => hunk.tempmark <= hunk.high
    /\ cache \in [blocks : Seq([addr : Nat, size : Nat, user : User]), lru : Seq(Nat),
                  data : [User -> Nat \cup {NULL}]]
    /\ calling \in Calls
    /\ failed \in Nat /\ moved \subseteq User /\ recent \subseteq User \X User

(* Cached data overlaps no other cached data, nor the hunk unless its way   *)
(* is being cleared; the hunk's blocks follow one another from the bottom   *)
(* (Hunk_Check).                                                            *)
CacheInRoom ==
    /\ hunk.ends # <<>> /\ hunk.low = Last(hunk.ends)
    /\ \A i, j \in DOMAIN hunk.ends : i < j => hunk.ends[i] < hunk.ends[j]
    /\ \A i, j \in DOMAIN cache.blocks : i < j => End(cache.blocks[i]) <= cache.blocks[j].addr
    /\ calling.call \notin {"Cache_FreeLow", "Cache_FreeHigh"} => \A i \in DOMAIN cache.blocks :
        /\ hunk.low <= cache.blocks[i].addr
        /\ End(cache.blocks[i]) <= hunk_size - hunk.high

(* An owner's pointer is null or the address of the one block that is its   *)
(* own, also when the block was moved, thrown out or flushed; and the list  *)
(* by last use holds each block once.                                       *)
PointersAgree ==
    /\ \A u \in User :
        {b.addr : b \in {x \in ToSet(cache.blocks) : x.user = u}} =
            IF cache.data[u] = NULL THEN {} ELSE {cache.data[u]}
    /\ ToSet(cache.lru) = {b.addr : b \in ToSet(cache.blocks)}
    /\ Len(cache.lru) = Len(cache.blocks)

(* Cache_Alloc gives up only when the data would not fit into an empty      *)
(* cache, the hunk only when it has no room even so.                        *)
FailsOnlyWhenFull == failed # 0 => failed > Room(hunk)

(* What is thrown out for new data was used less recently by its owner than *)
(* all other data, unless that was moved since: a moved block counts as     *)
(* just used.                                                               *)
LeastRecentlyUsedGoes ==
    [][calling.call = "Cache_Alloc" =>
         \A u, v \in User :
            /\ cache.data[u] # NULL /\ cache'.data[u] = NULL
            /\ cache.data[v] # NULL /\ v # u
            /\ v \notin moved
            => <<v, u>> \in recent]_cacheVars
=============================================================================
