---------------------------- MODULE MemoryProofs ----------------------------
(***************************************************************************)
(* The engine's memory is consistent, for every size of the zone, of the   *)
(* hunk, of their headers and of the requests, and any number of owners.   *)
(*                                                                         *)
(* The zone: HeapConsistent is not inductive: Z_Free has a block freed and *)
(* not yet joined in the middle, and a split has to know that no block     *)
(* begins inside another.  The inductive invariant is a well-formed ring,  *)
(* a property of the blocks whatever their tags, and, between calls, no    *)
(* two free blocks in a row.  The search of Z_TagMalloc has an invariant   *)
(* of its own, SearchInv.                                                  *)
(*                                                                         *)
(* The cache: the blocks are in order without overlap, the list by last    *)
(* use has the address of each once, and every owner's pointer is that of  *)
(* its block; an end of the hunk reaches into the cache only while the     *)
(* loop that clears its way goes on.  Of two owners, the one whose data    *)
(* comes first in the list is one whose data was moved or one who used it  *)
(* later.                                                                  *)
(***************************************************************************)
EXTENDS Memory, SequenceTheorems, WellFoundedInduction, TLAPS

After(x, size) == IF x + size = ZoneSize THEN Blocklist ELSE x + size

Typed(z) ==
    /\ DOMAIN z \subseteq 0 .. ZoneSize - 1
    /\ Blocklist \in DOMAIN z
    /\ z \in [DOMAIN z -> [size : Nat, tag : {0, 1}, next : DOMAIN z, prev : DOMAIN z]]
    /\ z[Blocklist].tag = 1 /\ z[Blocklist].next = Start

(* The links back are the inverse of the links on. *)
Linked(z) ==
    \A x \in DOMAIN z : z[z[x].next].prev = x /\ z[z[x].prev].next = x

(* Each block ends where the next begins, the last where the zone does. *)
Contiguous(z) ==
    \A x \in DOMAIN z \ {Blocklist} :
        /\ z[x].size > 0 /\ x + z[x].size <= ZoneSize
        /\ z[x].next = After(x, z[x].size)

(* No block begins inside another. *)
Apart(z) ==
    \A x, y \in DOMAIN z \ {Blocklist} : x < y => x + z[x].size <= y

WellFormed(z) == Typed(z) /\ Linked(z) /\ Contiguous(z) /\ Apart(z)

NoTwoFree(z) == \A x \in DOMAIN z : z[x].tag = 0 => z[z[x].next].tag # 0

SearchType == [size : Nat \ {0}, base : Ring, rover : Ring, start : Ring]

ZoneInv ==
    /\ WellFormed(zone)
    /\ NoTwoFree(zone)
    /\ rover \in Ring
    /\ zoneFailed \in Nat
    /\ search = Idle \/ search \in SearchType

-----------------------------------------------------------------------------
(* Rings.                                                                  *)

(* A block is its own neighbour on neither side. *)
LEMMA NextIsAnother ==
    ASSUME NEW z, WellFormed(z), NEW x \in DOMAIN z, x # Blocklist
    PROVE  /\ x \in Nat /\ z[x].next \in DOMAIN z
           /\ z[x].next = Blocklist \/ z[x].next > x
           /\ z[x].next # x /\ z[x].prev # x
<1>1. /\ x \in Nat /\ z[x].next \in DOMAIN z /\ z[x].size \in Nat /\ z[x].prev \in DOMAIN z
  BY ZoneAssumption DEF WellFormed, Typed
<1>2. z[x].size > 0 /\ z[x].next = After(x, z[x].size)
  BY DEF WellFormed, Contiguous
<1>3. z[x].next = Blocklist \/ z[x].next > x
  BY <1>1, <1>2 DEF After
<1>4. z[x].next # x
  BY <1>1, <1>3
<1>5. z[x].prev # x
  BY <1>1, <1>4 DEF WellFormed, Linked
<1> QED
  BY <1>1, <1>3, <1>4, <1>5

Tagged(z, b, t) == [z EXCEPT ![b].tag = t]

(* The tags play no part in the form of the ring. *)
LEMMA TagKeeps ==
    ASSUME NEW z, WellFormed(z), NEW b \in DOMAIN z, b # Blocklist, NEW t \in {0, 1},
           NEW w, w = Tagged(z, b, t)
    PROVE  /\ WellFormed(w)
           /\ DOMAIN w = DOMAIN z
           /\ w[b].tag = t
           /\ \A x \in DOMAIN z : x # b => w[x].tag = z[x].tag
           /\ \A x \in DOMAIN z : w[x].size = z[x].size /\ w[x].next = z[x].next
<1> DEFINE Element == [size : Nat, tag : {0, 1}, next : DOMAIN z, prev : DOMAIN z]
<1>1. z \in [DOMAIN z -> Element] /\ Blocklist \in DOMAIN z
  BY DEF WellFormed, Typed
<1>2. /\ DOMAIN w = DOMAIN z
      /\ \A x \in DOMAIN z \ {b} : w[x] = z[x]
      /\ w[b] = [z[b] EXCEPT !.tag = t]
      /\ w = [x \in DOMAIN z |-> w[x]]
  BY <1>1 DEF Tagged
<1>3. \A x \in DOMAIN z : z[x] \in Element
  BY <1>1
<1>4. /\ w[b].size = z[b].size /\ w[b].next = z[b].next
      /\ w[b].prev = z[b].prev /\ w[b].tag = t /\ w[b] \in Element
  BY <1>2, <1>3
<1>5. \A x \in DOMAIN z : /\ w[x].size = z[x].size /\ w[x].next = z[x].next
                         /\ w[x].prev = z[x].prev
  BY <1>2, <1>4
<1>6. \A x \in DOMAIN z : w[x] \in Element
  BY <1>2, <1>3, <1>4
<1>7. w \in [DOMAIN z -> Element]
  BY <1>2, <1>6
<1>8. Typed(w)
  BY <1>1, <1>2, <1>5, <1>7 DEF WellFormed, Typed
<1>9. Linked(w)
  <2> SUFFICES ASSUME NEW x \in DOMAIN z
               PROVE  w[w[x].next].prev = x /\ w[w[x].prev].next = x
    BY <1>2 DEF Linked
  <2>1. z[x].next \in DOMAIN z /\ z[x].prev \in DOMAIN z
    BY <1>3
  <2> QED
    BY <1>5, <2>1 DEF WellFormed, Linked
<1>10. Contiguous(w)
  BY <1>2, <1>5 DEF WellFormed, Contiguous
<1>11. Apart(w)
  BY <1>2, <1>5 DEF WellFormed, Apart
<1> QED
  BY <1>2, <1>4, <1>5, <1>8, <1>9, <1>10, <1>11 DEF WellFormed

(* Taking over the block after keeps the ring well-formed, whatever the    *)
(* tags, and changes nothing else of the other blocks than their links.    *)
LEMMA AbsorbKeeps ==
    ASSUME NEW z, WellFormed(z), NEW a \in DOMAIN z, a # Blocklist,
           NEW b, b = z[a].next, b # Blocklist
    PROVE  /\ WellFormed(Absorb(z, a, b))
           /\ DOMAIN Absorb(z, a, b) = DOMAIN z \ {b}
           /\ b \in DOMAIN z /\ a # b
           /\ Absorb(z, a, b)[a].next = z[b].next
           /\ \A x \in DOMAIN z \ {b} :
                /\ Absorb(z, a, b)[x].tag = z[x].tag
                /\ x # a => /\ Absorb(z, a, b)[x].size = z[x].size
                            /\ Absorb(z, a, b)[x].next = z[x].next
<1> DEFINE r == Absorb(z, a, b)
           after == z[b].next
           D == DOMAIN z \ {b}
<1>1. /\ b \in DOMAIN z /\ a # b /\ b > a /\ after \in DOMAIN z /\ after # b
      /\ a \in Nat /\ b \in Nat
  BY NextIsAnother
<1>2. \A x \in DOMAIN z : /\ z[x].size \in Nat /\ z[x].tag \in {0, 1}
                          /\ z[x].next \in DOMAIN z /\ z[x].prev \in DOMAIN z
                          /\ x \in Nat /\ x <= ZoneSize - 1
  BY ZoneAssumption DEF WellFormed, Typed
<1>3. DOMAIN r = D
  BY DEF Absorb
<1>4. \A x \in D :
        /\ r[x] = [size |-> r[x].size, tag |-> r[x].tag,
                   next |-> r[x].next, prev |-> r[x].prev]
        /\ r[x].size = IF x = a THEN z[x].size + z[b].size ELSE z[x].size
        /\ r[x].tag = z[x].tag
        /\ r[x].next = IF x = a THEN after ELSE z[x].next
        /\ r[x].prev = IF x = after THEN a ELSE z[x].prev
  <2> SUFFICES ASSUME NEW x \in D
               PROVE  /\ r[x] = [size |-> r[x].size, tag |-> r[x].tag,
                                 next |-> r[x].next, prev |-> r[x].prev]
                      /\ r[x].size = IF x = a THEN z[x].size + z[b].size ELSE z[x].size
                      /\ r[x].tag = z[x].tag
                      /\ r[x].next = IF x = a THEN after ELSE z[x].next
                      /\ r[x].prev = IF x = after THEN a ELSE z[x].prev
    OBVIOUS
  <2>1. z[x] \in [size : Nat, tag : {0, 1}, next : DOMAIN z, prev : DOMAIN z]
    BY DEF WellFormed, Typed
  <2>2. r[x] = [z[x] EXCEPT !.size = IF x = a THEN @ + z[b].size ELSE @,
                            !.next = IF x = a THEN after ELSE @,
                            !.prev = IF x = after THEN a ELSE @]
    BY DEF Absorb
  <2> HIDE DEF r, after
  <2> QED
    BY <2>1, <2>2
<1>4a. r = [x \in D |-> r[x]]
  BY DEF Absorb
<1>4b. /\ r[a].size = z[a].size + z[b].size
       /\ \A x \in D : x # a => r[x].size = z[x].size
       /\ \A x \in D : r[x].size \in Nat
  <2>1. a \in D
    BY <1>1
  <2>2. r[a].size = z[a].size + z[b].size
    BY <1>4, <2>1
  <2>3. \A x \in D : x # a => r[x].size = z[x].size
    BY <1>4
  <2>4. z[a].size \in Nat /\ z[b].size \in Nat
    BY <1>1, <1>2
  <2>5. r[a].size \in Nat
    BY <2>2, <2>4
  <2> QED
    BY <1>2, <2>2, <2>3, <2>5
<1> HIDE DEF r
<1>5. z[b].prev = a /\ z[after].prev = b
  BY <1>1 DEF WellFormed, Linked
<1>6. \A x \in D : /\ x # a => z[x].next # b /\ z[x].next # after
                   /\ x # after => z[x].prev # b /\ z[x].prev # a
  BY <1>1, <1>2, <1>5 DEF WellFormed, Linked
<1>7. Typed(r)
  <2>1. a \in D /\ after \in D /\ Blocklist \in D
    BY <1>1 DEF WellFormed, Typed
  <2>2. \A x \in D : r[x] \in [size : Nat, tag : {0, 1}, next : D, prev : D]
    <3> SUFFICES ASSUME NEW x \in D
                 PROVE  r[x] \in [size : Nat, tag : {0, 1}, next : D, prev : D]
      OBVIOUS
    <3>1. r[x].size \in Nat /\ r[x].tag \in {0, 1}
      BY <1>2, <1>4, <1>4b
    <3>2. r[x].next \in D /\ r[x].prev \in D
      BY <1>1, <1>2, <1>4, <1>6, <2>1, ZenonT(30)
    <3>3. r[x] = [size |-> r[x].size, tag |-> r[x].tag,
                  next |-> r[x].next, prev |-> r[x].prev]
      BY <1>4, Zenon
    <3> QED
      BY <3>1, <3>2, <3>3
  <2>3. r \in [D -> [size : Nat, tag : {0, 1}, next : D, prev : D]]
    BY <2>2, <1>3, <1>4a
  <2>4. r[Blocklist].tag = 1 /\ r[Blocklist].next = Start
    BY <1>4, <2>1 DEF WellFormed, Typed
  <2>5. D \subseteq 0 .. ZoneSize - 1
    BY DEF WellFormed, Typed
  <2> QED
    BY <1>3, <2>1, <2>3, <2>4, <2>5 DEF Typed
<1>8. Linked(r)
  <2> SUFFICES ASSUME NEW x \in D
               PROVE  r[r[x].next].prev = x /\ r[r[x].prev].next = x
    BY <1>3 DEF Linked
  <2>1. a \in D /\ after \in D
    BY <1>1
  <2>2. r[r[x].next].prev = x
    <3>1. CASE x = a
      BY <1>4, <2>1, <3>1
    <3>2. CASE x # a
      <4>1. r[x].next = z[x].next /\ z[x].next \in D /\ z[x].next # after
        BY <1>2, <1>4, <1>6, <3>2
      <4>2. r[z[x].next].prev = z[z[x].next].prev
        BY <1>4, <4>1
      <4> QED
        BY <4>1, <4>2 DEF WellFormed, Linked
    <3> QED
      BY <3>1, <3>2
  <2>3. r[r[x].prev].next = x
    <3>1. CASE x = after
      BY <1>4, <2>1, <3>1
    <3>2. CASE x # after
      <4>1. r[x].prev = z[x].prev /\ z[x].prev \in D /\ z[x].prev # a
        BY <1>2, <1>4, <1>6, <3>2
      <4>2. r[z[x].prev].next = z[z[x].prev].next
        BY <1>4, <4>1
      <4> QED
        BY <4>1, <4>2 DEF WellFormed, Linked
    <3> QED
      BY <3>1, <3>2
  <2> QED
    BY <2>2, <2>3
<1>9. \A x \in DOMAIN z \ {Blocklist} :
        /\ z[x].size > 0 /\ x + z[x].size <= ZoneSize
        /\ z[x].next = After(x, z[x].size)
  BY DEF WellFormed, Contiguous
<1>10. b = a + z[a].size
  BY <1>1, <1>9 DEF After
<1>11. Contiguous(r)
  <2> SUFFICES ASSUME NEW x \in D \ {Blocklist}
               PROVE  /\ r[x].size > 0 /\ x + r[x].size <= ZoneSize
                      /\ r[x].next = After(x, r[x].size)
    BY <1>3 DEF Contiguous
  <2>1. CASE x = a
    <3>1. /\ r[a].size = z[a].size + z[b].size /\ r[a].next = after
          /\ z[a].size \in Nat /\ z[b].size \in Nat
      BY <1>1, <1>2, <1>4
    <3>2. a + r[a].size = b + z[b].size
      BY <1>1, <1>10, <3>1
    <3>3. z[b].size > 0 /\ b + z[b].size <= ZoneSize /\ after = After(b, z[b].size)
      BY <1>1, <1>9
    <3> QED
      BY <2>1, <3>1, <3>2, <3>3, <1>1 DEF After
  <2>2. CASE x # a
    BY <2>2, <1>4, <1>9
  <2> QED
    BY <2>1, <2>2
<1>12. Apart(r)
  <2> SUFFICES ASSUME NEW x \in D \ {Blocklist}, NEW y \in D \ {Blocklist}, x < y
               PROVE  x + r[x].size <= y
    BY <1>3 DEF Apart
  <2>1. x + z[x].size <= y
    BY DEF WellFormed, Apart
  <2>2. CASE x = a
    <3>1. b <= y /\ b # y /\ y \in Nat
      BY <1>2, <1>10, <2>1, <2>2
    <3>2. b < y
      BY <1>1, <3>1
    <3>3a. b + z[b].size <= y
      <4>1. Apart(z) /\ b \in DOMAIN z \ {Blocklist} /\ y \in DOMAIN z \ {Blocklist}
        BY <1>1 DEF WellFormed
      <4> QED
        BY <3>2, <4>1 DEF Apart
    <3>3. a + r[a].size = b + z[b].size
      <4>1. r[a].size = z[a].size + z[b].size
        BY <1>4b
      <4>2. z[a].size \in Nat /\ z[b].size \in Nat /\ a \in Nat
        BY <1>1, <1>2
      <4> QED
        BY <4>1, <4>2, <1>10
    <3> QED
      BY <2>2, <3>3, <3>3a
  <2>3. CASE x # a
    BY <1>4, <2>1, <2>3
  <2> QED
    BY <2>2, <2>3
<1>13. r[a].next = after
  BY <1>1, <1>4
<1>14. \A x \in D : /\ r[x].tag = z[x].tag
                    /\ x # a => r[x].size = z[x].size /\ r[x].next = z[x].next
  BY <1>4
<1>15. WellFormed(r)
  BY <1>7, <1>8, <1>11, <1>12 DEF WellFormed
<1> QED
  BY <1>1, <1>3, <1>13, <1>14, <1>15 DEF r

(* Splitting a block that is larger than what is asked for. *)
LEMMA SplitKeeps ==
    ASSUME WellFormed(zone), NEW b \in Blocks, NEW size \in Nat \ {0},
           size < zone[b].size
    PROVE  /\ WellFormed(Split(b, size))
           /\ DOMAIN Split(b, size) = Ring \cup {b + size}
           /\ b + size \notin Ring
           /\ Split(b, size)[b].next = b + size
           /\ Split(b, size)[b + size].next = zone[b].next
           /\ Split(b, size)[b + size].tag = 0
           /\ \A x \in Ring : /\ Split(b, size)[x].tag = zone[x].tag
                              /\ x # b => /\ Split(b, size)[x].size = zone[x].size
                                          /\ Split(b, size)[x].next = zone[x].next
<1> DEFINE r == Split(b, size)
           new == b + size
           after == zone[b].next
           D == Ring \cup {new}
           Element(R) == [size : Nat, tag : {0, 1}, next : R, prev : R]
<1>1. /\ b \in Ring /\ b # Blocklist /\ b \in Nat /\ after \in Ring /\ after # b
      /\ new \in Nat /\ new > b
  BY NextIsAnother DEF Blocks, Ring
<1>2. \A x \in Ring : /\ zone[x].size \in Nat /\ zone[x].tag \in {0, 1}
                      /\ zone[x].next \in Ring /\ zone[x].prev \in Ring
                      /\ x \in Nat /\ x <= ZoneSize - 1
  BY ZoneAssumption DEF WellFormed, Typed, Ring
<1>3. \A x \in Ring \ {Blocklist} :
        /\ zone[x].size > 0 /\ x + zone[x].size <= ZoneSize
        /\ zone[x].next = After(x, zone[x].size)
  BY DEF WellFormed, Contiguous, Ring
<1>4. \A x, y \in Ring \ {Blocklist} : x < y => x + zone[x].size <= y
  BY DEF WellFormed, Apart, Ring
<1>5. b + zone[b].size <= ZoneSize /\ zone[b].size \in Nat /\ new < b + zone[b].size
  BY <1>1, <1>2, <1>3
<1>6. new \notin Ring /\ new # Blocklist
  <2>1. new # Blocklist
    BY <1>1 DEF Blocklist
  <2>2. ASSUME new \in Ring PROVE FALSE
    BY <1>1, <1>4, <1>5, <2>1, <2>2
  <2> QED
    BY <2>1, <2>2
<1>7. /\ DOMAIN r = D /\ r = [x \in D |-> r[x]]
      /\ r[new] = [size |-> zone[b].size - size, tag |-> 0, next |-> after, prev |-> b]
      /\ r[b] = [zone[b] EXCEPT !.size = size, !.next = new]
      /\ \A x \in Ring \ {b} :
            r[x] = [zone[x] EXCEPT !.prev = IF x = after THEN new ELSE @]
  BY <1>1, <1>6 DEF Split
<1> HIDE DEF r
<1>8. \A x \in Ring : zone[x] \in Element(Ring)
  BY DEF WellFormed, Typed, Ring
<1>9. /\ r[b].size = size /\ r[b].tag = zone[b].tag /\ r[b].next = new
      /\ r[b].prev = zone[b].prev /\ r[b] \in Element(D)
  BY <1>1, <1>7, <1>8
<1>10. /\ r[new].size = zone[b].size - size /\ r[new].tag = 0
       /\ r[new].next = after /\ r[new].prev = b /\ r[new] \in Element(D)
  BY <1>1, <1>5, <1>7
<1>11. ASSUME NEW x \in Ring, x # b
       PROVE  /\ r[x].size = zone[x].size /\ r[x].tag = zone[x].tag
              /\ r[x].next = zone[x].next
              /\ r[x].prev = IF x = after THEN new ELSE zone[x].prev
              /\ r[x] \in Element(D)
  <2>1. r[x] = [zone[x] EXCEPT !.prev = IF x = after THEN new ELSE @]
    BY <1>7, <1>11
  <2>2. zone[x] \in Element(Ring)
    BY <1>8
  <2> HIDE DEF new, after
  <2> QED
    BY <2>1, <2>2
<1>12. Typed(r)
  <2>1. \A x \in D : r[x] \in Element(D)
    BY <1>9, <1>10, <1>11
  <2>2. r \in [D -> Element(D)]
    BY <2>1, <1>7
  <2>3. Blocklist \in Ring /\ zone[Blocklist].tag = 1 /\ zone[Blocklist].next = Start
    BY DEF WellFormed, Typed, Ring
  <2>4. r[Blocklist].tag = 1 /\ r[Blocklist].next = Start
    BY <1>1, <1>11, <2>3
  <2>5. D \subseteq 0 .. ZoneSize - 1
    BY <1>1, <1>2, <1>5, ZoneAssumption
  <2> QED
    BY <1>7, <2>2, <2>3, <2>4, <2>5 DEF Typed
<1>13. \A x \in Ring : zone[zone[x].next].prev = x /\ zone[zone[x].prev].next = x
  BY DEF WellFormed, Linked, Ring
<1>14. Linked(r)
  <2> SUFFICES ASSUME NEW x \in D
               PROVE  r[r[x].next].prev = x /\ r[r[x].prev].next = x
    BY <1>7 DEF Linked
  <2>1. zone[after].prev = b
    BY <1>1, <1>13
  <2>2. CASE x = new
    BY <1>1, <1>9, <1>10, <1>11, <2>2
  <2>3. CASE x = b
    <3>1. zone[b].prev \in Ring /\ zone[b].prev # b /\ zone[zone[b].prev].next = b
      BY <1>1, <1>2, <1>13, NextIsAnother DEF Ring
    <3> QED
      BY <1>9, <1>10, <1>11, <2>3, <3>1
  <2>4. CASE x \in Ring /\ x # b
    <3>1. /\ zone[x].next \in Ring /\ zone[x].next # after
          /\ zone[zone[x].next].prev = x
      BY <1>1, <1>2, <1>13, <2>1, <2>4
    <3>2. r[r[x].next].prev = x
      BY <1>9, <1>11, <2>4, <3>1
    <3>3. CASE x = after
      BY <1>10, <1>11, <2>4, <3>2, <3>3
    <3>4. CASE x # after
      <4>1. /\ zone[x].prev \in Ring /\ zone[x].prev # b
            /\ zone[zone[x].prev].next = x
        BY <1>1, <1>2, <1>13, <2>4, <3>4
      <4> QED
        BY <1>11, <2>4, <3>2, <3>4, <4>1
    <3> QED
      BY <3>3, <3>4
  <2> QED
    BY <2>2, <2>3, <2>4
<1>15. Contiguous(r)
  <2> SUFFICES ASSUME NEW x \in D \ {Blocklist}
               PROVE  /\ r[x].size > 0 /\ x + r[x].size <= ZoneSize
                      /\ r[x].next = After(x, r[x].size)
    BY <1>7 DEF Contiguous
  <2>1. CASE x = new
    <3>1. new + r[new].size = b + zone[b].size
      BY <1>1, <1>5, <1>10
    <3>2. r[new].size > 0
      BY <1>1, <1>5, <1>10
    <3>3. after = After(b, zone[b].size)
      BY <1>1, <1>3
    <3> QED
      BY <1>5, <1>10, <2>1, <3>1, <3>2, <3>3 DEF After
  <2>2. CASE x = b
    BY <1>1, <1>5, <1>9, <2>2, ZoneAssumption DEF After
  <2>3. CASE x \in Ring /\ x # b
    BY <1>3, <1>11, <2>3
  <2> QED
    BY <2>1, <2>2, <2>3
<1>16. Apart(r)
  <2> SUFFICES ASSUME NEW x \in D \ {Blocklist}, NEW y \in D \ {Blocklist}, x < y
               PROVE  x + r[x].size <= y
    BY <1>7 DEF Apart
  <2>1. CASE x \in Ring /\ x # b /\ y \in Ring
    BY <1>4, <1>11, <2>1
  <2>2. CASE x \in Ring /\ x # b /\ y = new
    <3>1. x \in Nat /\ zone[x].size \in Nat
      BY <1>2, <2>2
    <3>2. x < b
      <4>1. ASSUME b < x PROVE FALSE
        <5>1. b + zone[b].size <= x
          BY <1>1, <1>4, <2>2, <4>1
        <5> QED
          BY <1>1, <1>5, <2>2, <3>1, <5>1
      <4> QED
        BY <1>1, <2>2, <3>1, <4>1
    <3>3. x + zone[x].size <= b
      BY <1>1, <1>4, <2>2, <3>2
    <3> QED
      BY <1>1, <1>11, <2>2, <3>1, <3>3
  <2>3. CASE x = b
    <3>1. y \in Nat
      BY <1>1, <1>2
    <3>2. CASE y = new
      BY <1>1, <1>9, <2>3, <3>2
    <3>3. CASE y # new
      <4>1. b + zone[b].size <= y
        BY <1>1, <1>4, <2>3, <3>3
      <4> QED
        BY <1>1, <1>5, <1>9, <2>3, <3>1, <4>1
    <3> QED
      BY <3>2, <3>3
  <2>4. CASE x = new
    <3>1. y \in Ring /\ y \in Nat /\ b < y
      BY <1>1, <1>2, <2>4
    <3>2. b + zone[b].size <= y
      BY <1>1, <1>4, <3>1
    <3> QED
      BY <1>1, <1>5, <1>10, <2>4, <3>1, <3>2
  <2> QED
    BY <2>1, <2>2, <2>3, <2>4
<1>17. WellFormed(r)
  BY <1>12, <1>14, <1>15, <1>16 DEF WellFormed
<1>18. \A x \in Ring : /\ r[x].tag = zone[x].tag
                       /\ x # b => r[x].size = zone[x].size /\ r[x].next = zone[x].next
  BY <1>9, <1>11
<1> QED
  BY <1>6, <1>7, <1>9, <1>10, <1>17, <1>18 DEF r

-----------------------------------------------------------------------------
(* Z_Free.                                                                 *)

(* The block freed, joined with its free neighbours. *)
Joined(b) == JoinNext(JoinPrev(Freed(b), Whole(b), b), Whole(b))

LEMMA FreeFacts ==
    ASSUME WellFormed(zone), NoTwoFree(zone), rover \in Ring,
           NEW b \in Blocks, zone[b].tag # 0
    PROVE  /\ WellFormed(Joined(b)) /\ NoTwoFree(Joined(b))
           /\ RoverAfter(b, Whole(b)) \in DOMAIN Joined(b)
           /\ b \in DOMAIN Joined(b) => Joined(b)[b].tag = 0
           /\ \A x \in Used : x # b => /\ x \in DOMAIN Joined(b)
                                       /\ Joined(b)[x].tag # 0
                                       /\ Joined(b)[x].size = zone[x].size
<1> DEFINE n == zone[b].next
<1>1. /\ b \in Ring /\ b # Blocklist /\ n \in Ring /\ n # b
      /\ n = Blocklist \/ n > b
      /\ zone[b].prev \in Ring /\ zone[b].prev # b
      /\ zone[zone[b].prev].next = b
  BY NextIsAnother DEF Blocks, Ring, WellFormed, Typed, Linked
<1>2. PICK f : f = Freed(b)
  OBVIOUS
<1>3. /\ WellFormed(f) /\ DOMAIN f = Ring /\ f[b].tag = 0
      /\ \A x \in Ring : x # b => f[x].tag = zone[x].tag
      /\ \A x \in Ring : f[x].size = zone[x].size /\ f[x].next = zone[x].next
  <2>1. f = Tagged(zone, b, 0)
    BY <1>2 DEF Freed, Tagged
  <2>2. b \in DOMAIN zone /\ b # Blocklist /\ 0 \in {0, 1}
    BY <1>1 DEF Ring
  <2>3. /\ WellFormed(f) /\ DOMAIN f = DOMAIN zone /\ f[b].tag = 0
        /\ \A x \in DOMAIN zone : x # b => f[x].tag = zone[x].tag
        /\ \A x \in DOMAIN zone : f[x].size = zone[x].size /\ f[x].next = zone[x].next
    BY <2>1, <2>2, TagKeeps, SMTT(30)
  <2> QED
    BY <2>3 DEF Ring
<1>4. zone[Blocklist].tag # 0 /\ \A x \in Ring : zone[x].tag = 0 => zone[zone[x].next].tag # 0
  BY DEF WellFormed, Typed, NoTwoFree, Ring
<1>5a. PICK front : front = Whole(b)
  OBVIOUS
<1>5. \/ front = b /\ zone[zone[b].prev].tag # 0
      \/ /\ front = zone[b].prev /\ zone[front].tag = 0
         /\ front # b /\ front # Blocklist /\ zone[front].next = b
  BY <1>1, <1>4, <1>5a DEF Whole
<1>6. front \in Ring /\ front # Blocklist /\ f[front].tag = 0
  BY <1>1, <1>3, <1>5
<1> DEFINE G == IF front = b THEN Ring ELSE Ring \ {b}
<1>7a. PICK g : g = JoinPrev(f, front, b)
  OBVIOUS
<1>7. /\ WellFormed(g) /\ DOMAIN g = G /\ g[front].next = n
      /\ \A x \in G : g[x].tag = f[x].tag
      /\ \A x \in G : x # front => g[x].size = zone[x].size /\ g[x].next = zone[x].next
  <2>1. CASE front = b
    BY <1>1, <1>3, <1>7a, <2>1 DEF JoinPrev
  <2>2. CASE front # b
    <3>1. g = Absorb(f, front, b)
      BY <1>7a, <2>2 DEF JoinPrev
    <3>2. b = f[front].next /\ f[b].next = n /\ front \in DOMAIN f
      BY <1>1, <1>3, <1>5, <1>6, <2>2
    <3>3. /\ WellFormed(g) /\ DOMAIN g = DOMAIN f \ {b} /\ g[front].next = f[b].next
          /\ \A x \in DOMAIN f \ {b} :
                /\ g[x].tag = f[x].tag
                /\ x # front => g[x].size = f[x].size /\ g[x].next = f[x].next
      <4>1. WellFormed(f) /\ front # Blocklist /\ b # Blocklist
        BY <1>1, <1>3, <1>6
      <4>2. /\ WellFormed(Absorb(f, front, b)) /\ DOMAIN Absorb(f, front, b) = DOMAIN f \ {b}
            /\ Absorb(f, front, b)[front].next = f[b].next
            /\ \A x \in DOMAIN f \ {b} :
                 /\ Absorb(f, front, b)[x].tag = f[x].tag
                 /\ x # front => /\ Absorb(f, front, b)[x].size = f[x].size
                             /\ Absorb(f, front, b)[x].next = f[x].next
        BY <3>1, <3>2, <4>1, AbsorbKeeps, SMTT(30)
      <4> QED
        BY <3>1, <4>2
    <3> QED
      BY <1>3, <2>2, <3>2, <3>3
  <2> QED
    BY <2>1, <2>2
<1>8. n # front /\ n \in G /\ front \in G
  <2>1. front = b \/ front < b
    <3>1. zone[front].next = b /\ front # Blocklist => b > front
      BY <1>1, <1>6, NextIsAnother DEF Ring
    <3> QED
      BY <1>5, <3>1
  <2>2. n # front
    BY <1>1, <1>6, <2>1, ZoneAssumption DEF WellFormed, Typed, Ring, Blocklist
  <2> QED
    BY <1>1, <1>6, <2>2
<1>9. g[n].tag = zone[n].tag
  BY <1>1, <1>3, <1>7, <1>8
<1> DEFINE H == IF zone[n].tag = 0 THEN G \ {n} ELSE G
           end == IF zone[n].tag = 0 THEN zone[n].next ELSE n
<1>10a. PICK h : h = JoinNext(g, front)
  OBVIOUS
<1>10. /\ WellFormed(h) /\ DOMAIN h = H /\ h[front].next = end
       /\ \A x \in H : h[x].tag = f[x].tag
       /\ \A x \in H : x # front => h[x].size = zone[x].size /\ h[x].next = zone[x].next
  <2>1. CASE zone[n].tag # 0
    BY <1>7, <1>9, <1>10a, <2>1 DEF JoinNext
  <2>2. CASE zone[n].tag = 0
    <3>1. h = Absorb(g, front, n) /\ n = g[front].next /\ front \in DOMAIN g
      BY <1>7, <1>8, <1>9, <1>10a, <2>2 DEF JoinNext
    <3>2. n # Blocklist
      BY <1>4, <2>2
    <3>3. g[n].next = zone[n].next
      BY <1>7, <1>8
    <3>4. /\ WellFormed(h) /\ DOMAIN h = DOMAIN g \ {n} /\ h[front].next = g[n].next
          /\ \A x \in DOMAIN g \ {n} :
                /\ h[x].tag = g[x].tag
                /\ x # front => h[x].size = g[x].size /\ h[x].next = g[x].next
      <4> HIDE DEF n
      <4>1. WellFormed(g) /\ front # Blocklist
        BY <1>6, <1>7
      <4>2. /\ WellFormed(Absorb(g, front, n)) /\ DOMAIN Absorb(g, front, n) = DOMAIN g \ {n}
            /\ Absorb(g, front, n)[front].next = g[n].next
            /\ \A x \in DOMAIN g \ {n} :
                 /\ Absorb(g, front, n)[x].tag = g[x].tag
                 /\ x # front => /\ Absorb(g, front, n)[x].size = g[x].size
                             /\ Absorb(g, front, n)[x].next = g[x].next
        BY <3>1, <3>2, <4>1, AbsorbKeeps, SMTT(30)
      <4> QED
        BY <3>1, <4>2
    <3> QED
      BY <1>7, <2>2, <3>3, <3>4
  <2> QED
    BY <2>1, <2>2
<1>11. h = Joined(b)
  BY <1>2, <1>5a, <1>7a, <1>10a DEF Joined
<1>12. front \in H /\ (b \in H => b = front)
  BY <1>8
<1>13. NoTwoFree(h)
  <2> SUFFICES ASSUME NEW x \in H, h[x].tag = 0
               PROVE  h[h[x].next].tag # 0
    BY <1>10 DEF NoTwoFree
  <2>0. h[x].next \in H
    BY <1>10 DEF WellFormed, Typed
  <2>1. CASE x = front
    <3>1. end # b
      <4>1. CASE zone[n].tag # 0
        BY <1>1, <4>1
      <4>2. CASE zone[n].tag = 0
        <5>1. n # Blocklist /\ n > b
          BY <1>1, <1>4, <4>2
        <5>2. zone[n].next = Blocklist \/ zone[n].next > n
          BY <1>1, <5>1, NextIsAnother DEF Ring
        <5>3. b \in Nat /\ n \in Nat
          BY <1>1, <5>1, NextIsAnother DEF Ring
        <5> QED
          BY <1>1, <4>2, <5>1, <5>2, <5>3, NextIsAnother DEF Ring
      <4> QED
        BY <4>1, <4>2
    <3>2. zone[end].tag # 0
      BY <1>1, <1>4
    <3>3. end \in H /\ end \in Ring
      BY <1>10, <2>0, <2>1
    <3> QED
      BY <1>3, <1>10, <2>1, <3>1, <3>2, <3>3
  <2>2. CASE x # front
    <3>1. x \in Ring /\ x # b /\ zone[x].tag = 0 /\ h[x].next = zone[x].next
      BY <1>3, <1>10, <1>12, <2>2
    <3>2. zone[x].next # b
      <4> SUFFICES ASSUME zone[x].next = b PROVE FALSE
        OBVIOUS
      <4>1. zone[b].prev = x
        BY <3>1 DEF WellFormed, Linked, Ring
      <4> QED
        BY <1>5, <2>2, <3>1, <4>1
    <3>3. zone[zone[x].next].tag # 0
      BY <1>4, <3>1
    <3>4. zone[x].next \in H /\ zone[x].next \in Ring
      BY <2>0, <3>1
    <3> QED
      BY <1>3, <1>10, <3>1, <3>2, <3>3, <3>4
  <2> QED
    BY <2>1, <2>2
<1>14. RoverAfter(b, front) \in H
  <2>1. n # b
    BY <1>1
  <2> QED
    BY <1>8, <1>12, <2>1 DEF RoverAfter
<1>15. b \in H => h[b].tag = 0
  BY <1>3, <1>10
<1>16. \A x \in Used : x # b => /\ x \in H /\ h[x].tag # 0
                               /\ h[x].size = zone[x].size
  <2> SUFFICES ASSUME NEW x \in Used, x # b
               PROVE  x \in H /\ h[x].tag # 0 /\ h[x].size = zone[x].size
    OBVIOUS
  <2>1. x \in Ring /\ zone[x].tag # 0
    BY DEF Used, Blocks
  <2>2. x # front /\ x \in H
    BY <1>5, <2>1
  <2> QED
    BY <1>3, <1>10, <2>1, <2>2
<1> QED
  BY <1>10, <1>11, <1>13, <1>14, <1>15, <1>16, <1>5a

-----------------------------------------------------------------------------
(* Z_TagMalloc.                                                            *)

LEMMA SizePositive ==
    ASSUME NEW request \in Nat
    PROVE  BlockSize(request) \in Nat \ {0}
<1> DEFINE a == request + BlockHeader + Marker + Align - 1
           q == a \div Align
<1>1. a \in Nat /\ a >= Align /\ Align \in Nat \ {0}
  BY ZoneAssumption
<1>2. q \in Nat /\ a < Align * q + Align
  BY <1>1, Z3
<1>3. q # 0
  BY <1>1, <1>2
<1>4. q * Align \in Nat \ {0}
  BY <1>1, <1>2, <1>3, Z3
<1> QED
  BY <1>4 DEF BlockSize, ZoneAligned

LEMMA FoundFacts ==
    ASSUME ZoneInv, search # Idle, Suits(BaseNext)
    PROVE  LET b == BaseNext
               r == Carved(b, search.size)
               z == [r EXCEPT ![b].tag = 1]
           IN  /\ WellFormed(z) /\ NoTwoFree(z)
               /\ r[b].next \in DOMAIN z
               /\ \A x \in Used : /\ x \in DOMAIN z /\ z[x].tag # 0
                                   /\ z[x].size = zone[x].size
<1> DEFINE b == BaseNext
           size == search.size
           r == Carved(b, size)
           z == [r EXCEPT ![b].tag = 1]
<1>1. /\ size \in Nat \ {0} /\ search.base \in Ring /\ search.rover \in Ring
      /\ WellFormed(zone) /\ NoTwoFree(zone)
  BY DEF ZoneInv, SearchType
<1>2. \A x \in Ring : zone[x].size \in Nat /\ zone[x].next \in Ring /\ zone[x].tag \in {0, 1}
  BY <1>1 DEF WellFormed, Typed, Ring
<1>3. b \in Ring
  BY <1>1, <1>2 DEF BaseNext
<1>4. zone[b].tag = 0 /\ zone[b].size >= size
  BY DEF Suits
<1>5. b \in Blocks
  BY <1>1, <1>3, <1>4 DEF Blocks, WellFormed, Typed
<1> HIDE DEF b, size
<1>6. zone[b].next # b
  BY <1>1, <1>5, NextIsAnother DEF Blocks, Ring
<1>7. /\ WellFormed(r) /\ Ring \subseteq DOMAIN r
      /\ \A x \in Ring : r[x].tag = zone[x].tag
      /\ \A x \in Ring \ {b} : r[x].size = zone[x].size /\ r[x].next = zone[x].next
      /\ \A x \in DOMAIN r \ Ring : r[x].next = zone[b].next
      /\ r[b].next # b
  <2>1. CASE zone[b].size - size > MINFRAGMENT
    <3>1. r = Split(b, size)
      BY <2>1 DEF Carved
    <3>2. size < zone[b].size
      BY <1>1, <1>2, <1>3, <2>1, ZoneAssumption
    <3>3. b + size # b /\ b \in Ring
      <4>1. b \in Ring /\ b # Blocklist
        BY <1>3, <1>5 DEF Blocks
      <4>2. b \in Nat /\ size \in Nat \ {0}
        BY <1>1, <1>2, <4>1, NextIsAnother DEF Ring
      <4> QED
        BY <4>1, <4>2
    <3>4. /\ WellFormed(r) /\ DOMAIN r = Ring \cup {b + size}
          /\ r[b].next = b + size /\ r[b + size].next = zone[b].next
          /\ \A x \in Ring : /\ r[x].tag = zone[x].tag
                             /\ x # b => /\ r[x].size = zone[x].size
                                         /\ r[x].next = zone[x].next
      <4> HIDE DEF r
      <4>1. size \in Nat \ {0} /\ WellFormed(zone)
        BY <1>1
      <4> QED
        BY <1>5, <3>1, <3>2, <4>1, SplitKeeps, Zenon
    <3> HIDE DEF r
    <3> QED
      BY <3>3, <3>4
  <2>2. CASE ~(zone[b].size - size > MINFRAGMENT)
    BY <1>1, <1>6, <2>2 DEF Carved, Ring
  <2> QED
    BY <2>1, <2>2
<1> HIDE DEF r
<1>8. /\ DOMAIN z = DOMAIN r
      /\ \A x \in DOMAIN r : /\ z[x].size = r[x].size /\ z[x].next = r[x].next
                             /\ z[x].prev = r[x].prev
                             /\ x # b => z[x].tag = r[x].tag
                             /\ z[x] \in [size : Nat, tag : {0, 1}, next : DOMAIN r, prev : DOMAIN r]
      /\ z[b].tag = 1
      /\ z \in [DOMAIN r -> [size : Nat, tag : {0, 1}, next : DOMAIN r, prev : DOMAIN r]]
  <2>1. r \in [DOMAIN r -> [size : Nat, tag : {0, 1}, next : DOMAIN r, prev : DOMAIN r]]
    BY <1>7 DEF WellFormed, Typed
  <2>2. b \in DOMAIN r
    BY <1>3, <1>7
  <2>3. DOMAIN z = DOMAIN r /\ \A x \in DOMAIN r \ {b} : z[x] = r[x]
    BY <2>1
  <2>4. z[b] = [r[b] EXCEPT !.tag = 1]
    BY <2>1, <2>2
  <2>5. z = [x \in DOMAIN r |-> z[x]]
    BY <2>1
  <2>6. \A x \in DOMAIN r : r[x] \in [size : Nat, tag : {0, 1}, next : DOMAIN r, prev : DOMAIN r]
    BY <2>1
  <2> HIDE DEF z
  <2>7. z[b] \in [size : Nat, tag : {0, 1}, next : DOMAIN r, prev : DOMAIN r]
    BY <2>2, <2>4, <2>6
  <2>8. \A x \in DOMAIN r : z[x] \in [size : Nat, tag : {0, 1}, next : DOMAIN r, prev : DOMAIN r]
    BY <2>3, <2>6, <2>7
  <2>9. z \in [DOMAIN r -> [size : Nat, tag : {0, 1}, next : DOMAIN r, prev : DOMAIN r]]
    BY <2>5, <2>8
  <2>10. /\ z[b].size = r[b].size /\ z[b].next = r[b].next
         /\ z[b].prev = r[b].prev /\ z[b].tag = 1
    BY <2>2, <2>4, <2>6
  <2> QED
    BY <2>3, <2>8, <2>9, <2>10
<1> HIDE DEF z
<1>9. WellFormed(z)
  <2>1. Typed(z)
    BY <1>3, <1>5, <1>7, <1>8 DEF WellFormed, Typed, Blocks
  <2>2. Linked(z)
    BY <1>7, <1>8 DEF WellFormed, Typed, Linked
  <2>3. Contiguous(z)
    BY <1>7, <1>8 DEF WellFormed, Contiguous
  <2>4. Apart(z)
    BY <1>7, <1>8 DEF WellFormed, Apart
  <2> QED
    BY <2>1, <2>2, <2>3, <2>4 DEF WellFormed
<1>10. \A x \in Ring : zone[x].tag = 0 => zone[zone[x].next].tag # 0
  BY <1>1 DEF NoTwoFree, Ring
<1>11. \A x \in Ring : zone[x].tag # 0 => z[x].tag # 0
  BY <1>3, <1>7, <1>8
<1>12. NoTwoFree(z)
  <2> SUFFICES ASSUME NEW x \in DOMAIN r, z[x].tag = 0
               PROVE  z[z[x].next].tag # 0
    BY <1>8 DEF NoTwoFree
  <2>1. CASE x \in Ring
    <3>1. x # b /\ zone[x].tag = 0 /\ z[x].next = zone[x].next
      BY <1>7, <1>8, <2>1
    <3> QED
      BY <1>2, <1>10, <1>11, <2>1, <3>1
  <2>2. CASE x \notin Ring
    <3>1. z[x].next = zone[b].next
      BY <1>7, <1>8, <2>2
    <3> QED
      BY <1>2, <1>3, <1>4, <1>10, <1>11, <3>1
  <2> QED
    BY <2>1, <2>2
<1>13. r[b].next \in DOMAIN z
  BY <1>3, <1>7, <1>8 DEF WellFormed, Typed
<1>14. \A x \in Used : /\ x \in DOMAIN z /\ z[x].tag # 0
                       /\ z[x].size = zone[x].size
  <2> SUFFICES ASSUME NEW x \in Used
               PROVE  x \in DOMAIN z /\ z[x].tag # 0 /\ z[x].size = zone[x].size
    OBVIOUS
  <2>1. x \in Ring /\ zone[x].tag # 0 /\ x # b
    BY <1>4 DEF Used, Blocks
  <2> QED
    BY <1>7, <1>8, <1>11, <2>1
<1> QED
  BY <1>9, <1>12, <1>13, <1>14 DEF z, r, b, size

-----------------------------------------------------------------------------
(* The inductive invariant.                                                *)

LEMMA ZoneInitEstablishes == ZoneInit => ZoneInv
<1> SUFFICES ASSUME ZoneInit PROVE ZoneInv
  OBVIOUS
<1> DEFINE D == {Blocklist, Start}
           Element == [size : Nat, tag : {0, 1}, next : D, prev : D]
           head == [size |-> 0, tag |-> 1, next |-> Start, prev |-> Start]
           only == [size |-> ZoneSize - Start, tag |-> 0, next |-> Blocklist, prev |-> Blocklist]
<1>1. Start # Blocklist /\ Start \in Nat /\ Start < ZoneSize /\ Start > 0
      /\ ZoneSize \in Nat /\ Blocklist = 0
  BY ZoneAssumption DEF Blocklist
<1>2. zone = [x \in D |-> IF x = Blocklist THEN head ELSE only]
  BY DEF ZoneInit
<1>3. /\ DOMAIN zone = D /\ zone[Blocklist] = head /\ zone[Start] = only
      /\ zone = [x \in D |-> zone[x]]
  BY <1>1, <1>2
<1>4. head \in Element /\ only \in Element
  BY <1>1
<1>5. zone \in [D -> Element]
  BY <1>2, <1>4
<1>6. /\ zone[Blocklist].next = Start /\ zone[Blocklist].prev = Start
      /\ zone[Blocklist].tag = 1
      /\ zone[Start].next = Blocklist /\ zone[Start].prev = Blocklist
      /\ zone[Start].size = ZoneSize - Start
  BY <1>3
<1>7. Typed(zone)
  BY <1>1, <1>3, <1>5, <1>6 DEF Typed
<1>8. Linked(zone)
  BY <1>3, <1>6 DEF Linked
<1>9. Contiguous(zone)
  BY <1>1, <1>3, <1>6 DEF Contiguous, After
<1>10. Apart(zone)
  BY <1>1, <1>3 DEF Apart
<1>11. NoTwoFree(zone)
  BY <1>3, <1>6 DEF NoTwoFree
<1> QED
  BY <1>3, <1>7, <1>8, <1>9, <1>10, <1>11 DEF ZoneInv, WellFormed, ZoneInit, Ring

LEMMA ZoneStepKeeps == ZoneInv /\ [ZoneNext]_zoneVars => ZoneInv'
<1> SUFFICES ASSUME ZoneInv, [ZoneNext]_zoneVars PROVE ZoneInv'
  OBVIOUS
<1>1. /\ WellFormed(zone) /\ NoTwoFree(zone) /\ rover \in Ring
      /\ zone[rover].prev \in Ring
      /\ \A x \in Ring : zone[x].next \in Ring
  BY DEF ZoneInv, WellFormed, Typed, Ring
<1>2. ASSUME NEW request \in ZoneRequests, Z_Malloc(request)
      PROVE  ZoneInv'
  <2>1. BlockSize(request) \in Nat \ {0}
    BY SizePositive, ZoneAssumption
  <2>2. search' \in [size : Nat \ {0}, base : Ring, rover : Ring, start : Ring]
    BY <1>1, <1>2, <2>1 DEF Z_Malloc, SearchStart
  <2> QED
    BY <1>2, <2>2 DEF Z_Malloc, ZoneInv, SearchType, Ring
<1>3. CASE SearchOn
  <2>1. search \in SearchType /\ BaseNext \in Ring
    BY <1>1, <1>3 DEF SearchOn, Searching, ZoneInv, SearchType, BaseNext
  <2>2. search' \in SearchType
    BY <1>1, <1>3, <2>1 DEF SearchOn, SearchType
  <2> QED
    BY <1>3, <2>2 DEF SearchOn, ZoneInv, SearchType, Ring
<1>4. CASE NotFound
  <2>1. search.size \in Nat
    BY <1>4 DEF NotFound, Searching, ZoneInv, SearchType
  <2> QED
    BY <1>4, <2>1 DEF NotFound, ZoneInv, Ring
<1>5. CASE Found
  BY <1>5, FoundFacts DEF Found, Searching, ZoneInv, Ring
<1>6. ASSUME NEW b \in Blocks, Z_Free(b)
      PROVE  ZoneInv'
  <2>1. zone' = Joined(b) /\ rover' = RoverAfter(b, Whole(b))
    BY <1>6 DEF Z_Free, Joined
  <2>2. /\ WellFormed(Joined(b)) /\ NoTwoFree(Joined(b))
        /\ RoverAfter(b, Whole(b)) \in DOMAIN Joined(b)
    BY <1>1, <1>6, FreeFacts DEF Z_Free
  <2> QED
    BY <1>6, <2>1, <2>2 DEF Z_Free, ZoneInv, Ring
<1>7. CASE UNCHANGED zoneVars
  BY <1>7 DEF zoneVars, ZoneInv, SearchType, Ring
<1> QED
  BY <1>2, <1>3, <1>4, <1>5, <1>6, <1>7 DEF ZoneNext

LEMMA ZoneInvHolds == ZoneSpec => []ZoneInv
  BY ZoneInitEstablishes, ZoneStepKeeps, PTL DEF ZoneSpec

(* The variables of the zone keep their types; the rover and a search stay *)
(* on blocks that exist, whichever block is freed or split.                *)
THEOREM ZoneTypes == ZoneSpec => []ZoneTypeOK
<1>1. ZoneInv => ZoneTypeOK
  <2> SUFFICES ASSUME ZoneInv PROVE ZoneTypeOK
    OBVIOUS
  <2>1. /\ Ring \subseteq 0 .. ZoneSize - 1 /\ Blocklist \in Ring
        /\ zone \in [Ring -> [size : Nat, tag : {0, 1}, next : Ring, prev : Ring]]
    BY DEF ZoneInv, WellFormed, Typed, Ring
  <2>2. Ring \subseteq Nat
    BY <2>1, ZoneAssumption
  <2>3. zone \in [Ring -> Block]
    BY <2>1, <2>2 DEF Block
  <2> QED
    BY <2>1, <2>3 DEF ZoneInv, ZoneTypeOK, SearchType
<1> QED
  BY <1>1, ZoneInvHolds, PTL

(* There is no space between blocks, the links back agree with the links   *)
(* on, and no two free blocks follow one another: what Z_CheckHeap looks   *)
(* for, after any sequence of Z_Malloc and Z_Free.                         *)
THEOREM HeapIsConsistent == ZoneSpec => []HeapConsistent
<1>1. ZoneInv => HeapConsistent
  BY DEF ZoneInv, WellFormed, Typed, Linked, Contiguous, NoTwoFree, After,
         HeapConsistent, Blocks, Ring
<1> QED
  BY <1>1, ZoneInvHolds, PTL

(* Memory in use stays in use with its size until it is freed itself.      *)
THEOREM UsedMemoryStays == ZoneSpec => UsedStays
<1> DEFINE Stays == /\ \A a \in Used \cap Used' : zone'[a].size = zone[a].size
                    /\ \A a, b \in Used \ Used' : a = b
                    /\ Searching => Used \subseteq Used'
<1>1. ZoneInv /\ [ZoneNext]_zoneVars => [Stays]_zoneVars
  <2> SUFFICES ASSUME ZoneInv, ZoneNext PROVE Stays
    OBVIOUS
  <2>1. CASE zone' = zone
    BY <2>1 DEF Used, Blocks, Ring
  <2>2. CASE Found
    BY <2>2, FoundFacts DEF Found, Searching, Used, Blocks, Ring
  <2>3. ASSUME NEW b \in Blocks, Z_Free(b)
        PROVE  Stays
    <3>1. zone' = Joined(b) /\ ~Searching
      BY <2>3 DEF Z_Free, Joined, Searching
    <3>2. /\ b \in DOMAIN Joined(b) => Joined(b)[b].tag = 0
          /\ \A x \in Used : x # b => /\ x \in DOMAIN Joined(b)
                                      /\ Joined(b)[x].tag # 0
                                      /\ Joined(b)[x].size = zone[x].size
      BY <2>3, FreeFacts DEF Z_Free, ZoneInv
    <3>3. \A x \in Used : x # b => x \in Used' /\ zone'[x].size = zone[x].size
      BY <3>1, <3>2 DEF Used, Blocks, Ring
    <3>4. b \notin Used'
      BY <3>1, <3>2 DEF Used, Blocks, Ring
    <3> QED
      BY <3>1, <3>3, <3>4
  <2> QED
    BY <2>1, <2>2, <2>3 DEF ZoneNext, Z_Malloc, SearchOn, NotFound
<1> QED
  BY <1>1, ZoneInvHolds, PTL DEF ZoneSpec, UsedStays

-----------------------------------------------------------------------------
(* The search.                                                             *)

(* The blocks from the rover of the zone on to that of the search, round   *)
(* the ring in the order of addresses.                                     *)
Passed(a) == IF rover <= search.rover THEN rover <= a /\ a < search.rover
             ELSE rover <= a \/ a < search.rover

Refused(a) == zone[a].tag = 0 => zone[a].size < search.size

(* The base is the rover, and was tried unless it is the first, or it is   *)
(* the free block before it, which was.                                    *)
BaseBehind ==
    \/ search.base = search.rover /\ (search.rover = rover \/ Refused(search.rover))
    \/ zone[search.base].tag = 0 /\ zone[search.base].next = search.rover

SearchInv ==
    /\ \A a \in Blocks : a >= Start
    /\ Searching =>
        /\ zoneFailed = 0
        /\ search.start = zone[rover].prev
        /\ \A a \in Ring : Passed(a) => Refused(a)
        /\ BaseBehind
    /\ NotFoundOnlyWhenFull

(* What follows a block in the ring follows it in memory, or nothing does. *)
LEMMA RingOrder ==
    ASSUME WellFormed(zone), \A a \in Blocks : a >= Start, NEW x \in Ring
    PROVE  /\ x \in Nat /\ zone[x].next \in Ring /\ zone[x].prev \in Ring
           /\ zone[x].next # x /\ zone[x].prev # x
           /\ zone[zone[x].next].prev = x /\ zone[zone[x].prev].next = x
           /\ \/ zone[x].next > x /\ \A y \in Ring : y <= x \/ y >= zone[x].next
              \/ zone[x].next = Blocklist /\ \A y \in Ring : y <= x
<1>1. /\ Ring \subseteq Nat /\ zone[x].next \in Ring /\ zone[x].prev \in Ring
      /\ zone[zone[x].next].prev = x /\ zone[zone[x].prev].next = x
      /\ \A y \in Ring : y < ZoneSize /\ zone[y].size \in Nat
      /\ zone[Blocklist].next = Start /\ Blocklist = 0 /\ Blocklist \in Ring
      /\ Start \in Nat /\ Start > 0 /\ ZoneSize \in Nat
  BY ZoneAssumption DEF WellFormed, Typed, Linked, Ring, Blocklist
<1>2. CASE x = Blocklist
  BY <1>1, <1>2 DEF Blocks
<1>3. CASE x # Blocklist
  <2>1. /\ zone[x].next = After(x, zone[x].size) /\ zone[x].size > 0
        /\ x + zone[x].size <= ZoneSize
        /\ \A y \in Ring \ {Blocklist} : x < y => x + zone[x].size <= y
    BY <1>3 DEF WellFormed, Contiguous, Apart, Ring
  <2>2. x # 0 /\ x \in Nat /\ zone[x].size \in Nat
    BY <1>1, <1>3
  <2>3. \A y \in Ring : y <= x \/ x + zone[x].size <= y
    BY <1>1, <2>1, <2>2
  <2>4. CASE x + zone[x].size = ZoneSize
    <3>1. zone[x].next = Blocklist /\ \A y \in Ring : y <= x
      BY <1>1, <2>1, <2>3, <2>4 DEF After
    <3> QED
      BY <1>1, <2>2, <3>1
  <2>5. CASE x + zone[x].size # ZoneSize
    <3>1. zone[x].next = x + zone[x].size
      BY <2>1, <2>5 DEF After
    <3> QED
      BY <1>1, <2>1, <2>2, <2>3, <3>1
  <2> QED
    BY <2>4, <2>5
<1> QED
  BY <1>2, <1>3

(* A turn of the search passes the block its rover was on, and no other.   *)
LEMMA TurnPasses ==
    ASSUME ZoneInv, SearchInv, SearchOn
    PROVE  SearchInv'
<1> DEFINE x == search.rover
           n == zone[x].next
<1>1. /\ WellFormed(zone) /\ \A a \in Blocks : a >= Start
      /\ x \in Ring /\ rover \in Ring /\ search.base \in Ring /\ search.size \in Nat
      /\ search \in SearchType
  BY DEF ZoneInv, SearchInv, SearchOn, Searching, SearchType
<1>2. /\ zone' = zone /\ rover' = rover /\ zoneFailed' = zoneFailed
      /\ search'.size = search.size /\ search'.start = search.start
      /\ search'.base = BaseNext /\ search'.rover = n
      /\ Searching /\ x # search.start /\ ~Suits(BaseNext)
      /\ Ring' = Ring /\ Blocks' = Blocks
  BY <1>1 DEF SearchOn, SearchType, Ring, Blocks
<1>3. /\ zoneFailed = 0 /\ search.start = zone[rover].prev
      /\ \A a \in Ring : Passed(a) => Refused(a)
      /\ BaseBehind
  BY <1>2 DEF SearchInv
<1>4. /\ x \in Nat /\ n \in Ring /\ n \in Nat /\ rover \in Nat /\ n # x /\ n # rover
      /\ \/ n > x /\ \A y \in Ring : y <= x \/ y >= n
         \/ n = Blocklist /\ \A y \in Ring : y <= x
      /\ Ring \subseteq Nat
  <2>1. /\ x \in Nat /\ n \in Ring /\ n # x /\ zone[n].prev = x
        /\ \/ n > x /\ \A y \in Ring : y <= x \/ y >= n
           \/ n = Blocklist /\ \A y \in Ring : y <= x
    BY <1>1, RingOrder
  <2>2. Ring \subseteq Nat
    BY <1>1, ZoneAssumption DEF WellFormed, Typed, Ring
  <2> QED
    BY <1>1, <1>2, <1>3, <2>1, <2>2
<1>5. \A a \in Ring : Passed(a)' => Passed(a) \/ a = x
  BY <1>1, <1>2, <1>4 DEF Passed, Blocklist
<1>6. \A a \in Ring : zone[a].tag \in {0, 1} /\ zone[a].size \in Nat
  BY <1>1 DEF WellFormed, Typed, Ring
<1>7. CASE zone[x].tag # 0
  <2>1. BaseNext = n
    BY <1>7 DEF BaseNext
  <2>2. Refused(x) /\ Refused(n)
    BY <1>1, <1>2, <1>4, <1>6, <1>7, <2>1 DEF Refused, Suits
  <2>3. \A a \in Ring : Passed(a)' => Refused(a)'
    BY <1>2, <1>3, <1>5, <2>2 DEF Refused
  <2>4. BaseBehind'
    BY <1>2, <2>1, <2>2 DEF BaseBehind, Refused
  <2> QED
    BY <1>1, <1>2, <1>3, <2>3, <2>4 DEF SearchInv, NotFoundOnlyWhenFull
<1>8. CASE zone[x].tag = 0
  <2>1. search.base = x
    BY <1>1, <1>3, <1>8 DEF BaseBehind, ZoneInv, NoTwoFree, Ring
  <2>2. BaseNext = x
    BY <1>8, <2>1 DEF BaseNext
  <2>3. Refused(x)
    BY <1>1, <1>2, <1>6, <1>8, <2>2 DEF Refused, Suits
  <2>4. \A a \in Ring : Passed(a)' => Refused(a)'
    BY <1>2, <1>3, <1>5, <2>3 DEF Refused
  <2>5. BaseBehind'
    BY <1>2, <1>8, <2>2 DEF BaseBehind
  <2> QED
    BY <1>1, <1>2, <1>3, <2>4, <2>5 DEF SearchInv, NotFoundOnlyWhenFull
<1> QED
  BY <1>7, <1>8

(* When the rover is back at the start every block was passed but the      *)
(* start itself, and that one was tried or is in use.                      *)
LEMMA RoundTheRing ==
    ASSUME ZoneInv, SearchInv, NotFound
    PROVE  SearchInv'
<1>1. /\ WellFormed(zone) /\ \A a \in Blocks : a >= Start
      /\ search.rover \in Ring /\ rover \in Ring /\ search.base \in Ring
      /\ search.size \in Nat
  BY DEF ZoneInv, SearchInv, NotFound, Searching, SearchType
<1>2. /\ zoneFailed' = search.size /\ search' = Idle /\ zone' = zone /\ rover' = rover
      /\ search.rover = search.start /\ search.start = zone[rover].prev
      /\ \A a \in Ring : Passed(a) => Refused(a)
      /\ BaseBehind
  BY DEF NotFound, SearchInv
<1> DEFINE x == search.rover
<1>3. /\ x \in Nat /\ rover \in Nat /\ Ring \subseteq Nat /\ zone[x].next = rover
      /\ x # rover
      /\ \/ rover > x /\ \A y \in Ring : y <= x \/ y >= rover
         \/ rover = Blocklist /\ \A y \in Ring : y <= x
  <2>1. /\ rover \in Nat /\ x # rover /\ zone[x].next = rover
    BY <1>1, <1>2, RingOrder
  <2>2. /\ x \in Nat
        /\ \/ zone[x].next > x /\ \A y \in Ring : y <= x \/ y >= zone[x].next
           \/ zone[x].next = Blocklist /\ \A y \in Ring : y <= x
    BY <1>1, RingOrder
  <2>3. Ring \subseteq Nat
    BY <1>1, ZoneAssumption DEF WellFormed, Typed, Ring
  <2> QED
    BY <2>1, <2>2, <2>3
<1>4. \A a \in Ring : Passed(a) \/ a = x
  <2> SUFFICES ASSUME NEW a \in Ring, a # x PROVE Passed(a)
    OBVIOUS
  <2>1. a \in Nat /\ x \in Nat /\ rover \in Nat
    BY <1>3
  <2>2. CASE rover > x /\ (a <= x \/ a >= rover)
    BY <2>1, <2>2 DEF Passed
  <2>3. CASE rover = 0 /\ a <= x
    BY <2>1, <2>3 DEF Passed
  <2> QED
    BY <1>3, <2>2, <2>3 DEF Blocklist
<1>5. Refused(x)
  BY <1>1, <1>2, <1>3 DEF BaseBehind, Refused, ZoneInv, NoTwoFree, Ring
<1>6. \A a \in Ring : zone[a].tag = 0 => zone[a].size < search.size
  BY <1>2, <1>4, <1>5 DEF Refused
<1> QED
  BY <1>1, <1>2, <1>6 DEF SearchInv, Searching, NotFoundOnlyWhenFull, Ring, Blocks

LEMMA SearchStepKeeps == ZoneInv /\ SearchInv /\ [ZoneNext]_zoneVars => SearchInv'
<1> SUFFICES ASSUME ZoneInv, SearchInv, [ZoneNext]_zoneVars PROVE SearchInv'
  OBVIOUS
<1>1. /\ WellFormed(zone) /\ \A a \in Blocks : a >= Start
      /\ rover \in Ring /\ Ring \subseteq Nat /\ rover \in Nat
  BY ZoneAssumption DEF ZoneInv, SearchInv, WellFormed, Typed, Ring
<1>2. ASSUME NEW request \in ZoneRequests, Z_Malloc(request)
      PROVE  SearchInv'
  <2>1. /\ zone' = zone /\ rover' = rover /\ zoneFailed' = 0 /\ zoneFailed = 0
        /\ search'.base = rover /\ search'.rover = rover
        /\ search'.start = zone[rover].prev
    BY <1>2 DEF Z_Malloc, SearchStart
  <2>2. ASSUME NEW a \in Ring PROVE ~Passed(a)'
    <3>1. a \in Nat /\ rover \in Nat
      BY <1>1
    <3>2. Passed(a)' <=> IF rover <= rover THEN rover <= a /\ a < rover
                         ELSE rover <= a \/ a < rover
      BY <2>1 DEF Passed
    <3> QED
      BY <3>1, <3>2
  <2>3. BaseBehind'
    BY <2>1 DEF BaseBehind
  <2> QED
    BY <1>1, <2>1, <2>2, <2>3 DEF SearchInv, NotFoundOnlyWhenFull, Ring, Blocks
<1>3. CASE Found
  <2>1. /\ zoneFailed' = zoneFailed /\ zoneFailed = 0 /\ search' = Idle
        /\ zone' = [Carved(BaseNext, search.size) EXCEPT ![BaseNext].tag = 1]
        /\ search.size \in Nat
    BY <1>3 DEF Found, Searching, SearchInv, ZoneInv, SearchType
  <2>2. BaseNext \in Blocks
    <3>1. search.base \in Ring /\ search.rover \in Ring
      BY <1>3 DEF Found, Searching, ZoneInv, SearchType
    <3>2. zone[Blocklist].tag = 1 /\ \A x \in Ring : zone[x].next \in Ring
      BY <1>1 DEF WellFormed, Typed, Ring
    <3>3. BaseNext \in Ring
      BY <3>1, <3>2 DEF BaseNext
    <3>4. zone[BaseNext].tag = 0
      BY <1>3 DEF Found, Suits
    <3> QED
      BY <3>2, <3>3, <3>4 DEF Blocks
  <2>3. Ring' \subseteq Ring \cup {BaseNext + search.size}
    BY <2>1 DEF Carved, Split, Ring
  <2>4. BaseNext + search.size >= Start
    BY <1>1, <2>1, <2>2, ZoneAssumption DEF Blocks
  <2>5. \A a \in Blocks' : a >= Start
    BY <1>1, <2>3, <2>4 DEF Blocks
  <2> QED
    BY <2>1, <2>5 DEF SearchInv, Searching, NotFoundOnlyWhenFull
<1>4. ASSUME NEW b \in Blocks, Z_Free(b)
      PROVE  SearchInv'
  <2>1. /\ zone' = JoinNext(JoinPrev(Freed(b), Whole(b), b), Whole(b))
        /\ zoneFailed = 0 /\ zoneFailed' = 0 /\ search' = Idle
    BY <1>4 DEF Z_Free
  <2>2. ASSUME NEW z, NEW p, NEW q
        PROVE  /\ DOMAIN JoinNext(z, p) \subseteq DOMAIN z
               /\ DOMAIN JoinPrev(z, p, q) \subseteq DOMAIN z
    BY DEF JoinNext, JoinPrev, Absorb
  <2>3. DOMAIN Freed(b) = Ring
    BY DEF Freed, Ring
  <2>4. Ring' \subseteq Ring
    BY <2>1, <2>2, <2>3 DEF Ring
  <2> QED
    BY <1>1, <2>1, <2>4 DEF SearchInv, Searching, NotFoundOnlyWhenFull, Blocks
<1>5. CASE UNCHANGED zoneVars
  BY <1>5 DEF zoneVars, SearchInv, Searching, NotFoundOnlyWhenFull, Passed, Refused,
              BaseBehind, Blocks, Ring
<1> QED
  BY <1>2, <1>3, <1>4, <1>5, TurnPasses, RoundTheRing DEF ZoneNext

(* Z_TagMalloc goes round the whole ring before it returns NULL: when the  *)
(* zone gives up no free block is large enough, wherever the search began. *)
THEOREM NullOnlyWhenFull == ZoneSpec => []NotFoundOnlyWhenFull
<1>1. ZoneInit => SearchInv
  <2> SUFFICES ASSUME ZoneInit PROVE SearchInv
    OBVIOUS
  <2>1. Ring = {Blocklist, Start} /\ search = Idle /\ zoneFailed = 0
    BY DEF ZoneInit, Ring
  <2> QED
    BY <2>1, ZoneAssumption DEF SearchInv, Searching, NotFoundOnlyWhenFull, Blocks
<1>2. SearchInv => NotFoundOnlyWhenFull
  BY DEF SearchInv
<1> QED
  BY <1>1, <1>2, ZoneInvHolds, SearchStepKeeps, PTL DEF ZoneSpec

-----------------------------------------------------------------------------
(* The hunk and the cache                                                  *)

CacheBlock == [addr : Nat, size : Nat, user : User]

CacheType == [blocks : Seq(CacheBlock), lru : Seq(Nat), data : [User -> Nat \cup {NULL}]]

HunkType == [ends : Seq(Nat), low : Nat, high : Nat, tempactive : BOOLEAN, tempmark : Nat]

Elements(s) == {s[i] : i \in DOMAIN s}

Holds(c) == Elements(c.blocks)

Distinct(s) == \A i, j \in DOMAIN s : s[i] = s[j] => i = j

Before(s, x, y) == \E i, j \in DOMAIN s : i < j /\ s[i] = x /\ s[j] = y

InOrder(blocks) == \A x, y : Before(blocks, x, y) => End(x) <= y.addr

(* The blocks do not overlap, and the list by last use has each once.       *)
Listed(c) ==
    /\ c \in CacheType
    /\ \A b \in Holds(c) : b.size > 0
    /\ InOrder(c.blocks)
    /\ Len(c.lru) = Len(c.blocks) /\ Distinct(c.lru)
    /\ Elements(c.lru) = {b.addr : b \in Holds(c)}

(* The owners' pointers and the blocks agree.                               *)
Owned(c) ==
    /\ \A b \in Holds(c) : c.data[b.user] = b.addr
    /\ \A u \in User : c.data[u] # NULL => \E b \in Holds(c) : b.user = u

(* Of two owners the one whose data is before the other's in the list by    *)
(* last use is one whose data was moved, or one who used it later.          *)
ByUse(c, newer, relocated) ==
    \A u, v \in User :
        Before(c.lru, c.data[u], c.data[v]) => u \in relocated \/ <<u, v>> \in newer

(* What m holds and c does not lies between the ends of the hunk h or with  *)
(* a block of c below or above it.                                          *)
InGaps(m, c, h) ==
    \A x \in Holds(m) \ Holds(c) :
        /\ h.low <= x.addr \/ \E y \in Holds(c) : y.addr <= x.addr
        /\ End(x) <= hunk_size - h.high \/ \E y \in Holds(c) : End(x) <= y.addr

-----------------------------------------------------------------------------
(* Sequences                                                               *)

(* What r is when it is s with the element e put in at the place i, when it *)
(* is s without its i-th element, and when it is s with e in front.         *)
IsInserted(r, s, i, e) ==
    /\ Len(r) = Len(s) + 1
    /\ \A k \in 1 .. i - 1 : r[k] = s[k]
    /\ r[i] = e
    /\ \A k \in i + 1 .. Len(s) + 1 : r[k] = s[k - 1]

WithInserted(r, s, i, e) ==
    /\ Len(r) = Len(s) + 1
    /\ Elements(r) = Elements(s) \cup {e}
    /\ \A x, y : Before(r, x, y) =>
         \/ Before(s, x, y)
         \/ y = e /\ \E k \in 1 .. i - 1 : x = s[k]
         \/ x = e /\ \E k \in i .. Len(s) : y = s[k]

WithRemoved(r, s, e) ==
    /\ Len(r) = Len(s) - 1 /\ Distinct(r)
    /\ Elements(r) = Elements(s) \ {e}
    /\ \A x, y : Before(r, x, y) => Before(s, x, y)

WithPushed(r, s, e) ==
    /\ Len(r) = Len(s) + 1 /\ Distinct(r) /\ Head(r) = e
    /\ Elements(r) = Elements(s) \cup {e}
    /\ \A x, y : Before(r, x, y) => y # e /\ (x = e \/ Before(s, x, y))

LEMMA NatsHaveLeast ==
    ASSUME NEW S, S \subseteq Nat, S # {}
    PROVE  \E x \in S : \A y \in S : x <= y
<1>1. PICK x \in S : \A y \in S : <<y, x>> \notin OpToRel(<, Nat)
  BY NatLessThanWellFounded, WFMin
<1>2. ASSUME NEW y \in S PROVE x <= y
  <2>1. x \in Nat /\ y \in Nat /\ ~(y < x)
    BY <1>1 DEF OpToRel
  <2> QED
    BY <2>1
<1> QED
  BY <1>2

LEMMA MinIsIn ==
    ASSUME NEW S, S \subseteq Nat, S # {}
    PROVE  Min(S) \in S
<1> QED
  BY NatsHaveLeast DEF Min

LEMMA Parts ==
    ASSUME NEW S, NEW s \in Seq(S), NEW n \in Nat, n = Len(s), NEW i \in 1 .. n + 1
    PROVE  /\ SubSeq(s, 1, i - 1) \in Seq(S) /\ Len(SubSeq(s, 1, i - 1)) = i - 1
           /\ \A k \in 1 .. i - 1 : SubSeq(s, 1, i - 1)[k] = s[k]
           /\ SubSeq(s, i, n) \in Seq(S) /\ Len(SubSeq(s, i, n)) = n - i + 1
           /\ \A k \in 1 .. n - i + 1 : SubSeq(s, i, n)[k] = s[i + k - 1]
<1>1. 1 \in 1 .. n + 1 /\ i - 1 \in 1 - 1 .. n /\ \A k \in 1 .. i - 1 : 1 + k - 1 = k
  OBVIOUS
<1>2. /\ SubSeq(s, 1, i - 1) \in Seq(S) /\ Len(SubSeq(s, 1, i - 1)) = i - 1
      /\ \A k \in 1 .. i - 1 : SubSeq(s, 1, i - 1)[k] = s[k]
  BY <1>1, SubSeqProperties
<1>3. n \in i - 1 .. n
  OBVIOUS
<1>4. /\ SubSeq(s, i, n) \in Seq(S) /\ Len(SubSeq(s, i, n)) = n - i + 1
      /\ \A k \in 1 .. n - i + 1 : SubSeq(s, i, n)[k] = s[i + k - 1]
  BY <1>3, SubSeqProperties
<1> QED
  BY <1>2, <1>4

LEMMA Prefix ==
    ASSUME NEW S, NEW s \in Seq(S), NEW n \in 0 .. Len(s), NEW r, r = SubSeq(s, 1, n)
    PROVE  r \in Seq(S) /\ Len(r) = n /\ \A k \in 1 .. n : r[k] = s[k]
<1>1. PICK m \in Nat : m = Len(s)
  OBVIOUS
<1>2. 1 \in 1 .. m + 1 /\ n \in 1 - 1 .. m /\ \A k \in 1 .. n : 1 + k - 1 = k
  BY <1>1
<1> QED
  BY <1>1, <1>2, SubSeqProperties

LEMMA Concatenated ==
    ASSUME NEW S, NEW s \in Seq(S), NEW t \in Seq(S)
    PROVE  /\ s \o t \in Seq(S) /\ Len(s \o t) = Len(s) + Len(t)
           /\ \A i \in 1 .. Len(s) : (s \o t)[i] = s[i]
           /\ \A i \in 1 .. Len(t) : (s \o t)[Len(s) + i] = t[i]
<1>1. /\ s \o t \in Seq(S) /\ Len(s \o t) = Len(s) + Len(t)
      /\ \A i \in 1 .. Len(s) + Len(t) : (s \o t)[i] = IF i <= Len(s) THEN s[i] ELSE t[i - Len(s)]
  BY ConcatProperties, ZenonT(30)
<1> QED
  BY <1>1

LEMMA InsertFacts ==
    ASSUME NEW S, NEW s \in Seq(S), NEW i \in 1 .. Len(s) + 1, NEW e \in S
    PROVE  InsertAt(s, i, e) \in Seq(S) /\ IsInserted(InsertAt(s, i, e), s, i, e)
<1>0. PICK n \in Nat : n = Len(s)
  OBVIOUS
<1> DEFINE r == InsertAt(s, i, e)
           f == SubSeq(s, 1, i - 1)
           g == SubSeq(s, i, n)
           q == <<e>>
           h == f \o q
<1>1. /\ f \in Seq(S) /\ Len(f) = i - 1 /\ \A k \in 1 .. i - 1 : f[k] = s[k]
      /\ g \in Seq(S) /\ Len(g) = n - i + 1 /\ \A k \in 1 .. n - i + 1 : g[k] = s[i + k - 1]
  BY <1>0, Parts
<1>2. q \in Seq(S) /\ Len(q) = 1 /\ q[1] = e
  OBVIOUS
<1>3. r = h \o g
  BY <1>0 DEF InsertAt
<1> HIDE DEF f, g, q, r
<1>4. i - 1 \in Nat /\ n - i + 1 \in Nat /\ i \in Nat /\ 1 \in Nat /\ i - 1 + 1 = i
  BY <1>0
<1>5. /\ h \in Seq(S) /\ Len(h) = i
      /\ \A k \in 1 .. i - 1 : h[k] = s[k]
      /\ h[i] = e
  <2>1. /\ f \o q \in Seq(S) /\ Len(f \o q) = Len(f) + Len(q)
        /\ \A k \in 1 .. Len(f) : (f \o q)[k] = f[k]
        /\ \A k \in 1 .. Len(q) : (f \o q)[Len(f) + k] = q[k]
    <3>1. f \in Seq(S) /\ q \in Seq(S)
      BY <1>1, <1>2
    <3> QED
      BY <3>1, Concatenated
  <2> QED
    BY <1>1, <1>2, <1>4, <2>1
<1> HIDE DEF h
<1>6. /\ r \in Seq(S) /\ Len(r) = i + (n - i + 1)
      /\ \A k \in 1 .. i : r[k] = h[k]
      /\ \A k \in 1 .. n - i + 1 : r[i + k] = g[k]
  <2>1. /\ h \o g \in Seq(S) /\ Len(h \o g) = Len(h) + Len(g)
        /\ \A k \in 1 .. Len(h) : (h \o g)[k] = h[k]
        /\ \A k \in 1 .. Len(g) : (h \o g)[Len(h) + k] = g[k]
    <3>1. h \in Seq(S) /\ g \in Seq(S)
      BY <1>1, <1>5
    <3> QED
      BY <3>1, Concatenated
  <2> QED
    BY <1>1, <1>3, <1>5, <2>1
<1>7. \A k \in i + 1 .. n + 1 : r[k] = s[k - 1]
  <2> SUFFICES ASSUME NEW k \in i + 1 .. n + 1 PROVE r[k] = s[k - 1]
    OBVIOUS
  <2> DEFINE l == k - i
  <2>1. l \in 1 .. n - i + 1 /\ i + l = k /\ i + l - 1 = k - 1
    BY <1>0
  <2> HIDE DEF l
  <2>2. r[i + l] = g[l] /\ g[l] = s[i + l - 1]
    BY <1>1, <1>6, <2>1
  <2> QED
    BY <2>1, <2>2
<1>8. /\ r \in Seq(S) /\ Len(r) = Len(s) + 1
      /\ \A k \in 1 .. i - 1 : r[k] = s[k]
      /\ r[i] = e
      /\ \A k \in i + 1 .. Len(s) + 1 : r[k] = s[k - 1]
  BY <1>0, <1>4, <1>5, <1>6, <1>7
<1> QED
  BY <1>8 DEF r, IsInserted

LEMMA RemoveFacts ==
    ASSUME NEW S, NEW s \in Seq(S), NEW i \in 1 .. Len(s)
    PROVE  /\ RemoveAt(s, i) \in Seq(S) /\ Len(RemoveAt(s, i)) = Len(s) - 1
           /\ \A k \in 1 .. i - 1 : RemoveAt(s, i)[k] = s[k]
           /\ \A k \in i .. Len(s) - 1 : RemoveAt(s, i)[k] = s[k + 1]
<1>0. PICK n \in Nat : n = Len(s)
  OBVIOUS
<1> DEFINE r == RemoveAt(s, i)
           f == SubSeq(s, 1, i - 1)
           g == SubSeq(s, i + 1, n)
<1>1. f \in Seq(S) /\ Len(f) = i - 1 /\ \A k \in 1 .. i - 1 : f[k] = s[k]
  BY <1>0, Parts
<1>2. g \in Seq(S) /\ Len(g) = n - i /\ \A k \in 1 .. n - i : g[k] = s[i + k]
  <2>1. i + 1 \in 1 .. n + 1 /\ n - (i + 1) + 1 = n - i /\ \A k \in 1 .. n - i : i + 1 + k - 1 = i + k
    BY <1>0
  <2>2. /\ g \in Seq(S) /\ Len(g) = n - (i + 1) + 1
        /\ \A k \in 1 .. n - (i + 1) + 1 : g[k] = s[i + 1 + k - 1]
    BY <1>0, <2>1, Parts
  <2> QED
    BY <2>1, <2>2
<1>3. r = f \o g
  BY <1>0 DEF RemoveAt
<1> HIDE DEF f, g, r
<1>4. i - 1 \in Nat /\ n - i \in Nat /\ i - 1 + (n - i) = n - 1
  BY <1>0
<1>5. /\ r \in Seq(S) /\ Len(r) = i - 1 + (n - i)
      /\ \A k \in 1 .. i - 1 : r[k] = f[k]
      /\ \A k \in 1 .. n - i : r[i - 1 + k] = g[k]
  <2>1. /\ f \o g \in Seq(S) /\ Len(f \o g) = Len(f) + Len(g)
        /\ \A k \in 1 .. Len(f) : (f \o g)[k] = f[k]
        /\ \A k \in 1 .. Len(g) : (f \o g)[Len(f) + k] = g[k]
    <3>1. f \in Seq(S) /\ g \in Seq(S)
      BY <1>1, <1>2
    <3> QED
      BY <3>1, Concatenated
  <2> QED
    BY <1>1, <1>2, <1>3, <2>1
<1>6. \A k \in i .. n - 1 : r[k] = s[k + 1]
  <2> SUFFICES ASSUME NEW k \in i .. n - 1 PROVE r[k] = s[k + 1]
    OBVIOUS
  <2> DEFINE l == k - i + 1
  <2>1. l \in 1 .. n - i /\ i - 1 + l = k /\ i + l = k + 1
    BY <1>0
  <2> HIDE DEF l
  <2>2. r[i - 1 + l] = g[l] /\ g[l] = s[i + l]
    BY <1>2, <1>5, <2>1
  <2> QED
    BY <2>1, <2>2
<1>7. /\ r \in Seq(S) /\ Len(r) = Len(s) - 1
      /\ \A k \in 1 .. i - 1 : r[k] = s[k]
      /\ \A k \in i .. Len(s) - 1 : r[k] = s[k + 1]
  BY <1>0, <1>1, <1>4, <1>5, <1>6
<1> QED
  BY <1>7 DEF r

(* What is left when one of distinct elements is taken out.                 *)
LEMMA Removed ==
    ASSUME NEW S, NEW s \in Seq(S), NEW i \in DOMAIN s, Distinct(s), NEW r, r = RemoveAt(s, i)
    PROVE  r \in Seq(S) /\ WithRemoved(r, s, s[i])
<1>1. PICK n \in Nat : n = Len(s) /\ DOMAIN s = 1 .. n
  OBVIOUS
<1>2. /\ r \in Seq(S) /\ Len(r) = n - 1
      /\ \A k \in 1 .. i - 1 : r[k] = s[k]
      /\ \A k \in i .. n - 1 : r[k] = s[k + 1]
  <2>1. i \in 1 .. n
    BY <1>1
  <2>2. /\ RemoveAt(s, i) \in Seq(S) /\ Len(RemoveAt(s, i)) = Len(s) - 1
        /\ \A k \in 1 .. i - 1 : RemoveAt(s, i)[k] = s[k]
        /\ \A k \in i .. Len(s) - 1 : RemoveAt(s, i)[k] = s[k + 1]
    BY <1>1, <2>1, RemoveFacts
  <2> QED
    BY <1>1, <2>2
<1>3. DOMAIN r = 1 .. n - 1
  BY <1>1, <1>2
<1> DEFINE at(k) == IF k < i THEN k ELSE k + 1
<1>4. ASSUME NEW k \in 1 .. n - 1
      PROVE  r[k] = s[at(k)] /\ at(k) \in 1 .. n /\ at(k) # i
  <2>1. i \in 1 .. n
    BY <1>1
  <2>2. CASE k < i
    <3>1. k \in 1 .. i - 1 /\ k \in 1 .. n /\ at(k) = k
      BY <2>1, <2>2
    <3> QED
      BY <1>2, <2>2, <3>1
  <2>3. CASE ~(k < i)
    <3>1. k \in i .. n - 1 /\ k + 1 \in 1 .. n /\ at(k) = k + 1 /\ k + 1 # i
      BY <2>1, <2>3
    <3> QED
      BY <1>2, <3>1
  <2> QED
    BY <2>2, <2>3
<1>5. \A k \in 1 .. n : k # i => \E l \in 1 .. n - 1 : at(l) = k
  <2> SUFFICES ASSUME NEW k \in 1 .. n, k # i PROVE \E l \in 1 .. n - 1 : at(l) = k
    OBVIOUS
  <2>1. CASE k < i
    BY <1>1, <2>1
  <2>2. CASE k > i
    <3>1. k - 1 \in 1 .. n - 1 /\ ~(k - 1 < i) /\ at(k - 1) = k
      BY <1>1, <2>2
    <3> QED
      BY <3>1
  <2> QED
    BY <1>1, <2>1, <2>2
<1>6. \A k, l \in 1 .. n - 1 : k < l <=> at(k) < at(l)
  <2>1. i \in Int
    BY <1>1
  <2> SUFFICES ASSUME NEW k \in 1 .. n - 1, NEW l \in 1 .. n - 1 PROVE k < l <=> at(k) < at(l)
    OBVIOUS
  <2> QED
    BY <2>1
<1>10. \A k \in 1 .. n : k # i => \E l \in 1 .. n - 1 : r[l] = s[k]
  BY <1>4, <1>5
<1> HIDE DEF at
<1>7. Elements(r) = Elements(s) \ {s[i]}
  <2>1. ASSUME NEW k \in 1 .. n - 1 PROVE r[k] \in Elements(s) /\ r[k] # s[i]
    <3>1. at(k) \in DOMAIN s /\ at(k) # i /\ r[k] = s[at(k)]
      BY <1>1, <1>4
    <3> QED
      BY <3>1 DEF Elements, Distinct
  <2>2. \A k \in 1 .. n : s[k] # s[i] => s[k] \in Elements(r)
    BY <1>3, <1>10 DEF Elements
  <2>3. \A x \in Elements(r) : x \in Elements(s) /\ x # s[i]
    BY <1>3, <2>1 DEF Elements
  <2>4. \A x \in Elements(s) : x # s[i] => x \in Elements(r)
    BY <1>1, <2>2 DEF Elements
  <2> QED
    BY <2>3, <2>4
<1>8. Distinct(r)
  <2> SUFFICES ASSUME NEW k \in 1 .. n - 1, NEW l \in 1 .. n - 1, r[k] = r[l] PROVE k = l
    BY <1>3 DEF Distinct
  <2>1. at(k) \in DOMAIN s /\ at(l) \in DOMAIN s /\ s[at(k)] = s[at(l)]
    BY <1>1, <1>4
  <2>2. at(k) = at(l)
    BY <2>1 DEF Distinct
  <2>3. at(k) \in 1 .. n
    BY <1>4
  <2>4. ~(k < l) /\ ~(l < k)
    BY <1>6, <2>2, <2>3
  <2> QED
    BY <2>4
<1>9. ASSUME NEW x, NEW y, Before(r, x, y) PROVE Before(s, x, y)
  <2>1. PICK k, l \in 1 .. n - 1 : k < l /\ r[k] = x /\ r[l] = y
    BY <1>3, <1>9 DEF Before
  <2>2. /\ at(k) \in DOMAIN s /\ at(l) \in DOMAIN s
        /\ s[at(k)] = x /\ s[at(l)] = y
    BY <1>1, <1>4, <2>1
  <2>3. at(k) < at(l)
    BY <1>6, <2>1
  <2> QED
    BY <2>2, <2>3 DEF Before
<1> QED
  BY <1>1, <1>2, <1>7, <1>8, <1>9 DEF WithRemoved

(* A new element in front.                                                  *)
LEMMA Pushed ==
    ASSUME NEW S, NEW s \in Seq(S), NEW e \in S, e \notin Elements(s), Distinct(s),
           NEW r, r = <<e>> \o s
    PROVE  r \in Seq(S) /\ WithPushed(r, s, e)
<1>1. PICK n \in Nat : n = Len(s) /\ DOMAIN s = 1 .. n
  OBVIOUS
<1> DEFINE q == <<e>>
<1>2. q \in Seq(S) /\ Len(q) = 1 /\ q[1] = e /\ r = q \o s
  OBVIOUS
<1> HIDE DEF q
<1>3. /\ r \in Seq(S) /\ Len(r) = 1 + n
      /\ \A i \in 1 .. 1 : r[i] = q[i]
      /\ \A i \in 1 .. n : r[1 + i] = s[i]
  <2>1. /\ q \o s \in Seq(S) /\ Len(q \o s) = Len(q) + Len(s)
        /\ \A i \in 1 .. Len(q) : (q \o s)[i] = q[i]
        /\ \A i \in 1 .. Len(s) : (q \o s)[Len(q) + i] = s[i]
    BY <1>2, Concatenated
  <2> QED
    BY <1>1, <1>2, <2>1
<1>4. r[1] = e /\ DOMAIN r = 1 .. n + 1 /\ \A k \in 2 .. n + 1 : k - 1 \in 1 .. n /\ r[k] = s[k - 1]
  <2>1. \A k \in 2 .. n + 1 : k - 1 \in 1 .. n /\ 1 + (k - 1) = k
    OBVIOUS
  <2>2. \A k \in 2 .. n + 1 : k - 1 \in 1 .. n /\ r[k] = s[k - 1]
    BY <1>3, <2>1
  <2> QED
    BY <1>2, <1>3, <2>2
<1>5. \A k \in 2 .. n + 1 : r[k] # e /\ r[k] \in Elements(s)
  BY <1>1, <1>4 DEF Elements
<1>6. Elements(r) = Elements(s) \cup {e}
  <2>1. \A k \in 1 .. n : s[k] \in Elements(r)
    <3>1. \A k \in 1 .. n : k + 1 \in 1 .. n + 1 /\ r[1 + k] = s[k] /\ 1 + k = k + 1
      BY <1>3
    <3> QED
      BY <1>4, <3>1 DEF Elements
  <2>2. e \in Elements(r)
    BY <1>4 DEF Elements
  <2>3. \A k \in 1 .. n + 1 : r[k] \in Elements(s) \cup {e}
    BY <1>4, <1>5
  <2>4. \A x \in Elements(r) : x \in Elements(s) \cup {e}
    BY <1>4, <2>3 DEF Elements
  <2>5. \A x \in Elements(s) : x \in Elements(r)
    BY <1>1, <2>1 DEF Elements
  <2> QED
    BY <2>2, <2>4, <2>5
<1>7. Distinct(r)
  <2> SUFFICES ASSUME NEW k \in 1 .. n + 1, NEW l \in 1 .. n + 1, r[k] = r[l] PROVE k = l
    BY <1>4 DEF Distinct
  <2>1. CASE k = 1 \/ l = 1
    BY <1>4, <1>5, <2>1
  <2>2. CASE k \in 2 .. n + 1 /\ l \in 2 .. n + 1
    <3>1. k - 1 \in DOMAIN s /\ l - 1 \in DOMAIN s /\ s[k - 1] = s[l - 1]
      BY <1>1, <1>4, <2>2
    <3>2. k - 1 = l - 1
      BY <3>1 DEF Distinct
    <3> QED
      BY <3>2
  <2> QED
    BY <2>1, <2>2
<1>8. ASSUME NEW x, NEW y, Before(r, x, y) PROVE y # e /\ (x = e \/ Before(s, x, y))
  <2>1. PICK i, j \in 1 .. n + 1 : i < j /\ r[i] = x /\ r[j] = y
    BY <1>4, <1>8 DEF Before
  <2>2. j \in 2 .. n + 1
    BY <2>1
  <2>3. CASE i = 1
    BY <1>4, <1>5, <2>1, <2>2, <2>3
  <2>4. CASE i \in 2 .. n + 1
    <3>1. /\ i - 1 \in DOMAIN s /\ j - 1 \in DOMAIN s /\ i - 1 < j - 1
          /\ s[i - 1] = x /\ s[j - 1] = y
      BY <1>1, <1>4, <2>1, <2>2, <2>4
    <3> QED
      BY <1>5, <2>1, <2>2, <3>1 DEF Before
  <2> QED
    BY <2>1, <2>3, <2>4
<1>9. Head(r) = e
  BY <1>3, <1>4
<1> QED
  BY <1>1, <1>3, <1>6, <1>7, <1>8, <1>9 DEF WithPushed

(* A new element at a place of its own.                                     *)
LEMMA Inserted ==
    ASSUME NEW S, NEW s \in Seq(S), NEW i \in 1 .. Len(s) + 1, NEW e \in S,
           NEW r, r = InsertAt(s, i, e)
    PROVE  r \in Seq(S) /\ WithInserted(r, s, i, e)
<1>1. PICK n \in Nat : n = Len(s) /\ DOMAIN s = 1 .. n
  OBVIOUS
<1>2. /\ r \in Seq(S) /\ Len(r) = Len(s) + 1
      /\ \A k \in 1 .. i - 1 : r[k] = s[k]
      /\ r[i] = e
      /\ \A k \in i + 1 .. Len(s) + 1 : r[k] = s[k - 1]
  <2>1. r \in Seq(S) /\ IsInserted(r, s, i, e)
    BY InsertFacts
  <2> QED
    BY <2>1 DEF IsInserted
<1>3. DOMAIN r = 1 .. n + 1
  BY <1>1, <1>2
<1> DEFINE from(k) == IF k < i THEN k ELSE k - 1
<1>4. \A k \in 1 .. n + 1 : k # i => r[k] = s[from(k)] /\ from(k) \in 1 .. n
  BY <1>1, <1>2
<1>5. \A k \in 1 .. n : \E l \in 1 .. n + 1 : r[l] = s[k]
  <2> SUFFICES ASSUME NEW k \in 1 .. n PROVE \E l \in 1 .. n + 1 : r[l] = s[k]
    OBVIOUS
  <2>1. CASE k < i
    BY <1>1, <1>2, <2>1
  <2>2. CASE ~(k < i)
    <3>1. k + 1 \in i + 1 .. n + 1 /\ k + 1 - 1 = k /\ k + 1 \in 1 .. n + 1
      BY <1>1, <2>2
    <3>2. r[k + 1] = s[k + 1 - 1]
      BY <1>1, <1>2, <3>1
    <3> QED
      BY <3>1, <3>2
  <2> QED
    BY <2>1, <2>2
<1>6. Elements(r) = Elements(s) \cup {e}
  <2>1. ASSUME NEW x \in Elements(r) PROVE x \in Elements(s) \cup {e}
    <3>1. PICK k \in 1 .. n + 1 : r[k] = x
      BY <1>3 DEF Elements
    <3>2. CASE k = i
      BY <1>2, <3>1, <3>2
    <3>3. CASE k # i
      <4> HIDE DEF from
      <4>1. from(k) \in DOMAIN s /\ s[from(k)] = x
        BY <1>1, <1>4, <3>1, <3>3
      <4> QED
        BY <4>1 DEF Elements
    <3> QED
      BY <3>2, <3>3
  <2>2. \A x \in Elements(s) : x \in Elements(r)
    BY <1>1, <1>3, <1>5 DEF Elements
  <2>3. e \in Elements(r)
    BY <1>1, <1>2, <1>3 DEF Elements
  <2> QED
    BY <2>1, <2>2, <2>3
<1>7. ASSUME NEW x, NEW y, Before(r, x, y)
      PROVE  \/ Before(s, x, y)
             \/ y = e /\ \E k \in 1 .. i - 1 : x = s[k]
             \/ x = e /\ \E k \in i .. Len(s) : y = s[k]
  <2>1. PICK k, l \in 1 .. n + 1 : k < l /\ r[k] = x /\ r[l] = y
    BY <1>3, <1>7 DEF Before
  <2>2. CASE l = i
    BY <1>1, <1>2, <2>1, <2>2
  <2>3. CASE k = i
    <3>1. l - 1 \in i .. n /\ r[l] = s[l - 1]
      BY <1>1, <1>2, <2>1, <2>3
    <3> QED
      BY <1>1, <1>2, <2>1, <2>3, <3>1
  <2>4. CASE k # i /\ l # i
    <3>1. from(k) < from(l)
      BY <1>1, <2>1, <2>4
    <3> HIDE DEF from
    <3>2. from(k) \in 1 .. n /\ from(l) \in 1 .. n /\ s[from(k)] = x /\ s[from(l)] = y
      BY <1>4, <2>1, <2>4
    <3> QED
      BY <1>1, <3>1, <3>2 DEF Before
  <2> QED
    BY <2>2, <2>3, <2>4
<1> QED
  BY <1>2, <1>6, <1>7 DEF WithInserted

-----------------------------------------------------------------------------
(* The cache                                                               *)

LEMMA Types ==
    ASSUME NEW c, Listed(c)
    PROVE  /\ c.blocks \in Seq(CacheBlock) /\ c.lru \in Seq(Nat)
           /\ c.data \in [User -> Nat \cup {NULL}]
           /\ \A b \in Holds(c) : /\ b \in CacheBlock /\ b.addr \in Nat /\ b.user \in User
                                  /\ b.size \in Nat \ {0} /\ End(b) \in Nat /\ End(b) > b.addr
           /\ NULL \notin Nat
<1>1. /\ c.blocks \in Seq(CacheBlock) /\ c.lru \in Seq(Nat)
      /\ c.data \in [User -> Nat \cup {NULL}]
  BY DEF Listed, CacheType
<1>2. ASSUME NEW b \in Holds(c)
      PROVE  /\ b \in CacheBlock /\ b.addr \in Nat /\ b.user \in User
             /\ b.size \in Nat \ {0} /\ End(b) \in Nat /\ End(b) > b.addr
  <2>1. b \in CacheBlock
    BY <1>1 DEF Holds, Elements
  <2>2. b.size > 0
    BY DEF Listed
  <2> QED
    BY <2>1, <2>2 DEF CacheBlock, End
<1> QED
  BY <1>1, <1>2, CacheAssumption

(* No two blocks begin at the same place.                                   *)
LEMMA Addresses ==
    ASSUME NEW c, Listed(c)
    PROVE  /\ \A x, y \in Holds(c) : x.addr = y.addr => x = y
           /\ \A i, j \in DOMAIN c.blocks : c.blocks[i].addr = c.blocks[j].addr => i = j
           /\ Distinct(c.blocks)
<1>1. DOMAIN c.blocks \subseteq Nat
  BY Types
<1>2. ASSUME NEW i \in DOMAIN c.blocks, NEW j \in DOMAIN c.blocks, i < j
      PROVE  c.blocks[i].addr # c.blocks[j].addr
  <2>1. c.blocks[i] \in Holds(c) /\ c.blocks[j] \in Holds(c)
    BY DEF Holds, Elements
  <2>2. End(c.blocks[i]) <= c.blocks[j].addr
    BY <1>2 DEF Listed, InOrder, Before
  <2>3. /\ End(c.blocks[i]) > c.blocks[i].addr /\ End(c.blocks[i]) \in Nat
        /\ c.blocks[i].addr \in Nat /\ c.blocks[j].addr \in Nat
    BY <2>1, Types
  <2> QED
    BY <2>2, <2>3
<1>3. \A i, j \in DOMAIN c.blocks : c.blocks[i].addr = c.blocks[j].addr => i = j
  <2> SUFFICES ASSUME NEW i \in DOMAIN c.blocks, NEW j \in DOMAIN c.blocks,
                      c.blocks[i].addr = c.blocks[j].addr, i # j
               PROVE  FALSE
    OBVIOUS
  <2>1. i < j \/ j < i
    BY <1>1
  <2> QED
    BY <1>2, <2>1
<1> QED
  BY <1>3 DEF Distinct, Holds, Elements

LEMMA FreedKeeps ==
    ASSUME NEW c, Listed(c), NEW user \in User, NEW b \in Holds(c), c.data[user] = b.addr,
           NEW f, f = CacheFreed(c, user)
    PROVE  /\ Listed(f) /\ Holds(f) = Holds(c) \ {b}
           /\ f.data = [c.data EXCEPT ![user] = NULL]
           /\ \A x, y : Before(f.lru, x, y) => Before(c.lru, x, y)
<1> DEFINE i == BlockAt(c, b.addr)
           k == PlaceOf(b.addr, c.lru)
<1>1. /\ c.blocks \in Seq(CacheBlock) /\ c.lru \in Seq(Nat)
      /\ c.data \in [User -> Nat \cup {NULL}]
  BY Types
<1>2. i \in DOMAIN c.blocks /\ c.blocks[i] = b
  <2>1. \E j \in DOMAIN c.blocks : c.blocks[j].addr = b.addr
    BY DEF Holds, Elements
  <2>2. i \in DOMAIN c.blocks /\ c.blocks[i].addr = b.addr
    BY <2>1 DEF BlockAt
  <2>3. c.blocks[i] \in Holds(c)
    BY <2>2 DEF Holds, Elements
  <2> QED
    BY <2>2, <2>3, Addresses
<1>3. k \in DOMAIN c.lru /\ c.lru[k] = b.addr
  <2>1. b.addr \in Elements(c.lru)
    BY DEF Listed
  <2>2. \E j \in DOMAIN c.lru : c.lru[j] = b.addr
    BY <2>1 DEF Elements
  <2> QED
    BY <2>2 DEF PlaceOf
<1>4. f = [c EXCEPT !.blocks = RemoveAt(@, i), !.lru = RemoveAt(@, k), !.data[user] = NULL]
  BY DEF CacheFreed
<1> HIDE DEF i, k
<1>5. /\ f.blocks = RemoveAt(c.blocks, i) /\ f.lru = RemoveAt(c.lru, k)
      /\ f.data = [c.data EXCEPT ![user] = NULL]
      /\ f = [blocks |-> f.blocks, lru |-> f.lru, data |-> f.data]
  BY <1>4 DEF Listed, CacheType
<1>6. /\ f.blocks \in Seq(CacheBlock) /\ Len(f.blocks) = Len(c.blocks) - 1
      /\ Holds(f) = Holds(c) \ {b}
      /\ \A x, y : Before(f.blocks, x, y) => Before(c.blocks, x, y)
  <2>1. Distinct(c.blocks)
    BY Addresses
  <2>2. f.blocks \in Seq(CacheBlock) /\ WithRemoved(f.blocks, c.blocks, b)
    BY <1>1, <1>2, <1>5, <2>1, Removed
  <2> QED
    BY <2>2 DEF Holds, WithRemoved
<1>7. /\ f.lru \in Seq(Nat) /\ Len(f.lru) = Len(c.lru) - 1 /\ Distinct(f.lru)
      /\ Elements(f.lru) = Elements(c.lru) \ {b.addr}
      /\ \A x, y : Before(f.lru, x, y) => Before(c.lru, x, y)
  <2>1. Distinct(c.lru)
    BY DEF Listed
  <2>2. f.lru \in Seq(Nat) /\ WithRemoved(f.lru, c.lru, b.addr)
    BY <1>1, <1>3, <1>5, <2>1, Removed
  <2> QED
    BY <2>2 DEF WithRemoved
<1>8. f \in CacheType
  <2>1. f.data \in [User -> Nat \cup {NULL}]
    BY <1>1, <1>5
  <2> QED
    BY <1>5, <1>6, <1>7, <2>1 DEF CacheType
<1>9. Elements(f.lru) = {x.addr : x \in Holds(f)}
  <2>1. Elements(c.lru) = {x.addr : x \in Holds(c)}
    BY DEF Listed
  <2>2. \A x \in Holds(c) : x.addr = b.addr => x = b
    BY Addresses
  <2> QED
    BY <1>6, <1>7, <2>1, <2>2
<1>10. Listed(f)
  <2>1. InOrder(f.blocks)
    BY <1>6 DEF Listed, InOrder
  <2>2. Len(f.lru) = Len(f.blocks)
    BY <1>6, <1>7 DEF Listed
  <2>3. \A x \in Holds(f) : x.size > 0
    BY <1>6 DEF Listed
  <2> QED
    BY <1>7, <1>8, <1>9, <2>1, <2>2, <2>3 DEF Listed
<1> QED
  BY <1>5, <1>6, <1>7, <1>10

(* What p is when it is c with a block put into a gap.                      *)
WithPlaced(p, c, h, size, user) ==
    /\ p.data = c.data
    /\ \A x, y : Before(p.lru, x, y) =>
         y # Head(p.lru) /\ (x = Head(p.lru) \/ Before(c.lru, x, y))
    /\ \E new \in CacheBlock :
         /\ new.addr = Head(p.lru) /\ new.size = size /\ new.user = user
         /\ Holds(p) = Holds(c) \cup {new}
         /\ \A b \in Holds(c) : b.addr # new.addr
         /\ h.low <= new.addr \/ \E b \in Holds(c) : b.addr <= new.addr
         /\ \/ End(new) <= hunk_size - h.high
            \/ \E b \in Holds(c) : End(new) <= b.addr

(* A block that fits into a gap is behind all before the gap and before all *)
(* behind it.                                                               *)
LEMMA PlacedKeeps ==
    ASSUME NEW c, Listed(c), NEW h \in HunkType, NEW size \in Nat \ {0}, NEW nobottom,
           NEW user \in User, Gaps(c, h, size, nobottom) # {},
           NEW p, p = Placed(c, h, size, nobottom, user)
    PROVE  Listed(p) /\ WithPlaced(p, c, h, size, user)
<1>1. /\ c.blocks \in Seq(CacheBlock) /\ c.lru \in Seq(Nat) /\ hunk_size \in Nat
      /\ h.low \in Nat /\ h.high \in Nat
  BY Types, CacheAssumption DEF HunkType
<1>2. PICK n \in Nat : n = Len(c.blocks) /\ DOMAIN c.blocks = 1 .. n
  BY <1>1
<1> DEFINE i == Min(Gaps(c, h, size, nobottom))
           new == [addr |-> GapStart(c, h, i), size |-> size, user |-> user]
<1>3. /\ i \in 1 .. n + 1
      /\ GapEnd(c, h, i) - GapStart(c, h, i) >= size
  <2>1. Gaps(c, h, size, nobottom) \subseteq Nat
    BY <1>2 DEF Gaps
  <2>2. i \in Gaps(c, h, size, nobottom)
    BY <2>1, MinIsIn
  <2> QED
    BY <1>2, <2>2 DEF Gaps
<1>4. p = [c EXCEPT !.blocks = InsertAt(@, i, new), !.lru = <<new.addr>> \o @]
  BY DEF Placed
<1> HIDE DEF i
<1>5. \A j \in 1 .. n : /\ c.blocks[j] \in Holds(c) /\ c.blocks[j].addr \in Nat
                         /\ End(c.blocks[j]) \in Nat /\ End(c.blocks[j]) > c.blocks[j].addr
  BY <1>2, Types DEF Holds, Elements
<1>6. GapStart(c, h, i) \in Nat /\ GapEnd(c, h, i) \in Int
  <2>1. GapStart(c, h, i) \in Nat
    <3>1. i = 1 \/ i - 1 \in 1 .. n
      BY <1>3
    <3> QED
      BY <1>1, <1>5, <3>1 DEF GapStart
  <2>2. GapEnd(c, h, i) \in Int
    <3>1. IF i <= Len(c.blocks) THEN i \in 1 .. n ELSE TRUE
      BY <1>2, <1>3
    <3> QED
      BY <1>1, <1>5, <3>1 DEF GapEnd
  <2> QED
    BY <2>1, <2>2
<1>7. /\ new \in CacheBlock /\ new.addr = GapStart(c, h, i) /\ new.size = size
      /\ new.user = user /\ End(new) <= GapEnd(c, h, i) /\ End(new) > new.addr
      /\ new.addr \in Nat /\ End(new) \in Nat
  BY <1>3, <1>6 DEF CacheBlock, End
<1> HIDE DEF new
<1>8. ASSUME NEW j \in 1 .. n, NEW l \in 1 .. n, j < l
      PROVE  End(c.blocks[j]) <= c.blocks[l].addr
  BY <1>2, <1>8 DEF Listed, InOrder, Before
<1>9. \A j \in 1 .. i - 1 : End(c.blocks[j]) <= new.addr
  <2> SUFFICES ASSUME NEW j \in 1 .. i - 1 PROVE End(c.blocks[j]) <= new.addr
    OBVIOUS
  <2>1. i - 1 \in 1 .. n /\ j \in 1 .. n /\ i # 1
    BY <1>3
  <2>2. new.addr = End(c.blocks[i - 1])
    BY <1>7, <2>1 DEF GapStart
  <2>3. j = i - 1 \/ j < i - 1
    BY <2>1
  <2>4. j < i - 1 => End(c.blocks[j]) <= c.blocks[i - 1].addr
    BY <1>8, <2>1
  <2> QED
    BY <1>5, <2>1, <2>2, <2>3, <2>4
<1>10. \A j \in i .. n : End(new) <= c.blocks[j].addr
  <2> SUFFICES ASSUME NEW j \in i .. n PROVE End(new) <= c.blocks[j].addr
    OBVIOUS
  <2>1. i \in 1 .. n /\ j \in 1 .. n
    BY <1>3
  <2>2. End(new) <= c.blocks[i].addr
    BY <1>2, <1>7, <2>1 DEF GapEnd
  <2>3. j = i \/ i < j
    BY <2>1
  <2>4. i < j => End(c.blocks[i]) <= c.blocks[j].addr
    BY <1>8, <2>1
  <2> QED
    BY <1>5, <1>7, <2>1, <2>2, <2>3, <2>4
<1>11. \A b \in Holds(c) : b.addr # new.addr
  <2> SUFFICES ASSUME NEW j \in 1 .. n PROVE c.blocks[j].addr # new.addr
    BY <1>2 DEF Holds, Elements
  <2>1. j \in 1 .. i - 1 \/ j \in i .. n
    BY <1>3
  <2> QED
    BY <1>5, <1>7, <1>9, <1>10, <2>1
<1>12. /\ p.blocks = InsertAt(c.blocks, i, new) /\ p.lru = <<new.addr>> \o c.lru
       /\ p.data = c.data
       /\ p = [blocks |-> p.blocks, lru |-> p.lru, data |-> p.data]
  BY <1>4 DEF Listed, CacheType
<1>13. /\ p.blocks \in Seq(CacheBlock) /\ Len(p.blocks) = Len(c.blocks) + 1
       /\ Holds(p) = Holds(c) \cup {new}
       /\ \A x, y : Before(p.blocks, x, y) =>
            \/ Before(c.blocks, x, y)
            \/ y = new /\ \E k \in 1 .. i - 1 : x = c.blocks[k]
            \/ x = new /\ \E k \in i .. n : y = c.blocks[k]
  <2>1. i \in 1 .. Len(c.blocks) + 1 /\ new \in CacheBlock
    BY <1>2, <1>3, <1>7
  <2>2. p.blocks \in Seq(CacheBlock) /\ WithInserted(p.blocks, c.blocks, i, new)
    BY <1>1, <1>12, <2>1, Inserted
  <2> QED
    BY <1>2, <2>2 DEF Holds, WithInserted
<1>14. InOrder(p.blocks)
  BY <1>9, <1>10, <1>13 DEF Listed, InOrder
<1>15. new.addr \notin Elements(c.lru)
  BY <1>11 DEF Listed
<1>16. /\ p.lru \in Seq(Nat) /\ Len(p.lru) = Len(c.lru) + 1 /\ Distinct(p.lru)
       /\ Elements(p.lru) = Elements(c.lru) \cup {new.addr} /\ Head(p.lru) = new.addr
       /\ \A x, y : Before(p.lru, x, y) =>
            y # new.addr /\ (x = new.addr \/ Before(c.lru, x, y))
  <2>1. Distinct(c.lru)
    BY DEF Listed
  <2>2. new.addr \in Nat
    BY <1>7
  <2>3. p.lru \in Seq(Nat) /\ WithPushed(p.lru, c.lru, new.addr)
    BY <1>1, <1>12, <1>15, <2>1, <2>2, Pushed
  <2> QED
    BY <2>3 DEF WithPushed
<1>17. Listed(p)
  <2>1. p \in CacheType
    BY <1>12, <1>13, <1>16, Types DEF CacheType
  <2>2. \A b \in Holds(p) : b.size > 0
    BY <1>7, <1>13 DEF Listed
  <2>3. Len(p.lru) = Len(p.blocks)
    BY <1>13, <1>16 DEF Listed
  <2>4. Elements(p.lru) = {b.addr : b \in Holds(p)}
    BY <1>13, <1>16 DEF Listed
  <2> QED
    BY <1>14, <1>16, <2>1, <2>2, <2>3, <2>4 DEF Listed
<1>18. h.low <= new.addr \/ \E b \in Holds(c) : b.addr <= new.addr
  <2>1. CASE i = 1
    BY <1>1, <1>7, <2>1 DEF GapStart
  <2>2. CASE i # 1
    <3>1. i - 1 \in 1 .. i - 1 /\ i - 1 \in 1 .. n
      BY <1>3, <2>2
    <3> QED
      BY <1>5, <1>7, <1>9, <3>1
  <2> QED
    BY <2>1, <2>2
<1>19. End(new) <= hunk_size - h.high \/ \E b \in Holds(c) : End(new) <= b.addr
  <2>1. CASE i \in 1 .. n
    <3>1. i \in i .. n
      BY <2>1
    <3> QED
      BY <1>5, <1>10, <2>1, <3>1
  <2>2. CASE i = n + 1
    BY <1>2, <1>7, <2>2 DEF GapEnd
  <2> QED
    BY <1>3, <2>1, <2>2
<1> QED
  BY <1>7, <1>11, <1>12, <1>13, <1>16, <1>17, <1>18, <1>19 DEF WithPlaced

LEMMA OwnersData ==
    ASSUME NEW c, Listed(c), Owned(c)
    PROVE  /\ \A x, y \in Holds(c) : x.user = y.user => x = y
           /\ \A u \in User : c.data[u] # NULL =>
                \E b \in Holds(c) : b.user = u /\ b.addr = c.data[u]
           /\ \A u \in User : c.data[u] # NULL <=> c.data[u] \in Elements(c.lru)
           /\ \A u, v \in User : c.data[u] # NULL /\ c.data[u] = c.data[v] => u = v
<1>1. \A x, y \in Holds(c) : x.user = y.user => x = y
  BY Addresses DEF Owned
<1>2. \A u \in User : c.data[u] # NULL =>
        \E b \in Holds(c) : b.user = u /\ b.addr = c.data[u]
  BY DEF Owned
<1>3. \A u \in User : c.data[u] # NULL => c.data[u] \in Elements(c.lru)
  BY <1>2 DEF Listed
<1>4. NULL \notin Elements(c.lru)
  <2>1. \A b \in Holds(c) : b.addr \in Nat
    BY Types
  <2> QED
    BY <2>1, CacheAssumption DEF Listed
<1>5. ASSUME NEW u \in User, NEW v \in User, c.data[u] # NULL, c.data[u] = c.data[v] PROVE u = v
  <2>1. PICK x \in Holds(c) : x.user = u /\ x.addr = c.data[u]
    BY <1>2, <1>5
  <2>2. PICK y \in Holds(c) : y.user = v /\ y.addr = c.data[v]
    BY <1>2, <1>5
  <2>3. x = y
    BY <1>5, <2>1, <2>2, Addresses
  <2> QED
    BY <2>1, <2>2, <2>3
<1> QED
  BY <1>1, <1>2, <1>3, <1>4, <1>5

LEMMA FreedOwned ==
    ASSUME NEW c, Listed(c), Owned(c), NEW b \in Holds(c), NEW f, f = CacheFreed(c, b.user)
    PROVE  /\ Listed(f) /\ Owned(f) /\ Holds(f) = Holds(c) \ {b}
           /\ f.data = [c.data EXCEPT ![b.user] = NULL]
           /\ \A newer, relocated : ByUse(c, newer, relocated) => ByUse(f, newer, relocated)
<1>1. b.user \in User /\ c.data[b.user] = b.addr /\ c.data \in [User -> Nat \cup {NULL}]
  BY Types DEF Owned
<1>2. /\ Listed(f) /\ Holds(f) = Holds(c) \ {b}
      /\ f.data = [c.data EXCEPT ![b.user] = NULL]
      /\ \A x, y : Before(f.lru, x, y) => Before(c.lru, x, y)
  BY <1>1, FreedKeeps
<1>3. f.data[b.user] = NULL /\ \A u \in User \ {b.user} : f.data[u] = c.data[u]
  BY <1>1, <1>2
<1>4. Owned(f)
  <2>1. ASSUME NEW x \in Holds(f) PROVE f.data[x.user] = x.addr
    <3>1. x \in Holds(c) /\ x # b /\ x.user \in User
      BY <1>2, Types
    <3>2. x.user # b.user
      BY <3>1, OwnersData
    <3> QED
      BY <1>3, <3>1, <3>2 DEF Owned
  <2>2. ASSUME NEW u \in User, f.data[u] # NULL PROVE \E x \in Holds(f) : x.user = u
    <3>1. u # b.user /\ c.data[u] # NULL
      BY <1>3, <2>2
    <3>2. PICK x \in Holds(c) : x.user = u
      BY <3>1 DEF Owned
    <3> QED
      BY <1>2, <3>1, <3>2
  <2> QED
    BY <2>1, <2>2 DEF Owned
<1>5. ASSUME NEW newer, NEW relocated, ByUse(c, newer, relocated)
      PROVE  ByUse(f, newer, relocated)
  <2> SUFFICES ASSUME NEW u \in User, NEW v \in User, Before(f.lru, f.data[u], f.data[v])
               PROVE  u \in relocated \/ <<u, v>> \in newer
    BY DEF ByUse
  <2>1. f.data[u] # NULL /\ f.data[v] # NULL
    <3>1. f.data[u] \in Elements(f.lru) /\ f.data[v] \in Elements(f.lru)
      BY DEF Before, Elements
    <3> QED
      BY <1>2, <1>4, <3>1, OwnersData
  <2>2. f.data[u] = c.data[u] /\ f.data[v] = c.data[v]
    BY <1>3, <2>1
  <2>3. Before(c.lru, c.data[u], c.data[v])
    BY <1>2, <2>2
  <2> QED
    BY <1>5, <2>3 DEF ByUse
<1> QED
  BY <1>2, <1>4, <1>5

LEMMA MovedOwned ==
    ASSUME NEW c, Listed(c), Owned(c), NEW h \in HunkType, NEW b \in Holds(c),
           NEW m, m = CacheMoved(c, h, b)
    PROVE  /\ Listed(m) /\ Owned(m)
           /\ InGaps(m, c, h)
           /\ \A newer, relocated : ByUse(c, newer, relocated) => ByUse(m, newer, relocated \cup {b.user})
<1>1. /\ b.user \in User /\ b.size \in Nat \ {0} /\ c.data[b.user] = b.addr
      /\ c.data \in [User -> Nat \cup {NULL}]
  BY Types DEF Owned
<1>2. CASE Gaps(c, h, b.size, TRUE) = {}
  <2>1. m = CacheFreed(c, b.user)
    BY <1>2 DEF CacheMoved
  <2>2. /\ Listed(m) /\ Owned(m) /\ Holds(m) = Holds(c) \ {b}
        /\ \A newer, relocated : ByUse(c, newer, relocated) => ByUse(m, newer, relocated)
    BY <2>1, FreedOwned
  <2>3. \A newer, relocated : ByUse(m, newer, relocated) => ByUse(m, newer, relocated \cup {b.user})
    BY DEF ByUse
  <2>4. InGaps(m, c, h)
    BY <2>2 DEF InGaps
  <2> QED
    BY <2>2, <2>3, <2>4
<1>3. CASE Gaps(c, h, b.size, TRUE) # {}
  <2> DEFINE p == Placed(c, h, b.size, TRUE, b.user)
             f == CacheFreed(p, b.user)
  <2>1. m = [f EXCEPT !.data[b.user] = Head(p.lru)]
    BY <1>3 DEF CacheMoved
  <2>0. Listed(p) /\ WithPlaced(p, c, h, b.size, b.user)
    BY <1>1, <1>3, PlacedKeeps
  <2>2. /\ Listed(p) /\ p.data = c.data
        /\ \A x, y : Before(p.lru, x, y) =>
             y # Head(p.lru) /\ (x = Head(p.lru) \/ Before(c.lru, x, y))
    BY <2>0 DEF WithPlaced
  <2>3. PICK new \in CacheBlock :
          /\ new.addr = Head(p.lru) /\ new.size = b.size /\ new.user = b.user
          /\ Holds(p) = Holds(c) \cup {new}
          /\ \A x \in Holds(c) : x.addr # new.addr
          /\ h.low <= new.addr \/ \E x \in Holds(c) : x.addr <= new.addr
          /\ \/ End(new) <= hunk_size - h.high
             \/ \E x \in Holds(c) : End(new) <= x.addr
    BY <2>0 DEF WithPlaced
  <2> HIDE DEF p
  <2>4. /\ Listed(f) /\ Holds(f) = Holds(p) \ {b}
        /\ f.data = [p.data EXCEPT ![b.user] = NULL]
        /\ \A x, y : Before(f.lru, x, y) => Before(p.lru, x, y)
    <3>1. b \in Holds(p) /\ p.data[b.user] = b.addr
      BY <1>1, <2>2, <2>3
    <3> QED
      BY <1>1, <2>2, <3>1, FreedKeeps
  <2> HIDE DEF f
  <2>5. /\ m.blocks = f.blocks /\ m.lru = f.lru
        /\ m.data = [c.data EXCEPT ![b.user] = new.addr]
        /\ m = [blocks |-> m.blocks, lru |-> m.lru, data |-> m.data]
    <3>1. f = [blocks |-> f.blocks, lru |-> f.lru, data |-> f.data]
      BY <2>4 DEF Listed, CacheType
    <3>2. /\ m.blocks = f.blocks /\ m.lru = f.lru
          /\ m.data = [f.data EXCEPT ![b.user] = Head(p.lru)]
          /\ m = [blocks |-> m.blocks, lru |-> m.lru, data |-> m.data]
      BY <2>1, <3>1
    <3>3. [[c.data EXCEPT ![b.user] = NULL] EXCEPT ![b.user] = new.addr]
             = [c.data EXCEPT ![b.user] = new.addr]
      BY <1>1
    <3> QED
      BY <2>2, <2>3, <2>4, <3>2, <3>3
  <2>6. Holds(m) = (Holds(c) \cup {new}) \ {b} /\ new # b
    BY <2>3, <2>4, <2>5 DEF Holds
  <2>7. m.data[b.user] = new.addr /\ \A u \in User \ {b.user} : m.data[u] = c.data[u]
    BY <1>1, <2>5
  <2>8. new.addr \in Nat /\ new.addr # NULL
    BY CacheAssumption DEF CacheBlock
  <2>9. Listed(m)
    <3>1. m.data \in [User -> Nat \cup {NULL}]
      BY <1>1, <2>5, <2>8
    <3>2. m \in CacheType
      BY <2>4, <2>5, <3>1 DEF Listed, CacheType
    <3>3. Holds(m) = Holds(f)
      BY <2>5 DEF Holds
    <3> QED
      BY <2>4, <2>5, <3>2, <3>3 DEF Listed
  <2>10. Owned(m)
    <3>1. ASSUME NEW x \in Holds(m) PROVE m.data[x.user] = x.addr
      <4>1. CASE x = new
        BY <2>3, <2>7, <4>1
      <4>2. CASE x # new
        <5>1. x \in Holds(c) /\ x # b /\ x.user \in User
          BY <2>6, <4>2, Types
        <5>2. x.user # b.user
          BY <5>1, OwnersData
        <5> QED
          BY <2>7, <5>1, <5>2 DEF Owned
      <4> QED
        BY <4>1, <4>2
    <3>2. ASSUME NEW u \in User, m.data[u] # NULL PROVE \E x \in Holds(m) : x.user = u
      <4>1. CASE u = b.user
        BY <2>3, <2>6, <4>1
      <4>2. CASE u # b.user
        <5>1. c.data[u] # NULL
          BY <2>7, <3>2, <4>2
        <5>2. PICK x \in Holds(c) : x.user = u
          BY <5>1 DEF Owned
        <5> QED
          BY <2>6, <4>2, <5>2
      <4> QED
        BY <4>1, <4>2
    <3> QED
      BY <3>1, <3>2 DEF Owned
  <2>11. ASSUME NEW newer, NEW relocated, ByUse(c, newer, relocated)
         PROVE  ByUse(m, newer, relocated \cup {b.user})
    <3> SUFFICES ASSUME NEW u \in User, NEW v \in User, Before(m.lru, m.data[u], m.data[v]),
                        u # b.user
                 PROVE  u \in relocated \/ <<u, v>> \in newer
      BY DEF ByUse
    <3>1. /\ m.data[v] # new.addr
          /\ m.data[u] = new.addr \/ Before(c.lru, m.data[u], m.data[v])
      BY <2>2, <2>3, <2>4, <2>5
    <3>2. v # b.user /\ m.data[u] = c.data[u] /\ m.data[v] = c.data[v]
      BY <2>7, <3>1
    <3>3. m.data[u] # new.addr
      BY <2>7, <2>8, <2>9, <2>10, <1>1, OwnersData
    <3> QED
      BY <2>11, <3>1, <3>2, <3>3 DEF ByUse
  <2>12. InGaps(m, c, h)
    <3>1. \A x \in Holds(m) \ Holds(c) : x = new
      BY <2>6
    <3> QED
      BY <2>3, <3>1 DEF InGaps
  <2> QED
    BY <2>9, <2>10, <2>11, <2>12
<1> QED
  BY <1>2, <1>3

(* Owners without data are in no order.                                     *)
LEMMA Forgotten ==
    ASSUME NEW c, Listed(c), Owned(c), NEW newer, NEW relocated, ByUse(c, newer, relocated)
    PROVE  ByUse(c, {p \in newer : c.data[p[1]] # NULL /\ c.data[p[2]] # NULL},
                    {u \in relocated : c.data[u] # NULL})
<1> SUFFICES ASSUME NEW u \in User, NEW v \in User, Before(c.lru, c.data[u], c.data[v])
             PROVE  \/ u \in {x \in relocated : c.data[x] # NULL}
                    \/ <<u, v>> \in {p \in newer : c.data[p[1]] # NULL /\ c.data[p[2]] # NULL}
  BY DEF ByUse
<1>1. c.data[u] \in Elements(c.lru) /\ c.data[v] \in Elements(c.lru)
  BY DEF Before, Elements
<1>2. c.data[u] # NULL /\ c.data[v] # NULL
  BY <1>1, OwnersData
<1>3. u \in relocated \/ <<u, v>> \in newer
  BY DEF ByUse
<1> QED
  BY <1>2, <1>3

UsedNow(user) ==
    {user} \X (User \ {user}) \cup {p \in recent : p[1] # user /\ p[2] # user}

(* The owner whose data is in front is the last that used its data.         *)
LEMMA UsedIsFirst ==
    ASSUME NEW c, NEW m, Listed(m), Owned(m), NEW user \in User, m.data[user] # NULL,
           \A u \in User \ {user} : m.data[u] = c.data[u],
           \A x, y : Before(m.lru, x, y) =>
               y # m.data[user] /\ (x = m.data[user] \/ Before(c.lru, x, y)),
           ByUse(c, recent, moved)
    PROVE  ByUse(m, UsedNow(user), moved \ {user})
<1> SUFFICES ASSUME NEW u \in User, NEW v \in User, Before(m.lru, m.data[u], m.data[v])
             PROVE  u \in moved \ {user} \/ <<u, v>> \in UsedNow(user)
  BY DEF ByUse
<1>1. v # user /\ m.data[v] = c.data[v]
  OBVIOUS
<1>2. CASE u = user
  BY <1>1, <1>2 DEF UsedNow
<1>3. CASE u # user
  <2>1. m.data[u] # m.data[user] /\ m.data[u] = c.data[u]
    BY <1>3, OwnersData
  <2>2. Before(c.lru, c.data[u], c.data[v])
    BY <1>1, <2>1
  <2>3. u \in moved \/ <<u, v>> \in recent
    BY <2>2 DEF ByUse
  <2>4. <<u, v>> \in recent => <<u, v>> \in UsedNow(user)
    BY <1>1, <1>3 DEF UsedNow
  <2> QED
    BY <1>3, <2>3, <2>4
<1> QED
  BY <1>2, <1>3

(* Cache_Alloc when there is a gap.                                         *)
LEMMA PlacedOwned ==
    ASSUME NEW c, Listed(c), Owned(c), NEW h \in HunkType, NEW size \in Nat \ {0},
           NEW user \in User, c.data[user] = NULL, Gaps(c, h, size, FALSE) # {},
           NEW p, p = Placed(c, h, size, FALSE, user),
           NEW m, m = [p EXCEPT !.data[user] = Head(p.lru)]
    PROVE  /\ Listed(m) /\ Owned(m)
           /\ InGaps(m, c, h)
           /\ ByUse(c, recent, moved) => ByUse(m, UsedNow(user), moved \ {user})
<1>1. Listed(p) /\ WithPlaced(p, c, h, size, user) /\ c.data \in [User -> Nat \cup {NULL}]
  BY PlacedKeeps, Types
<1>2. /\ p.data = c.data
      /\ \A x, y : Before(p.lru, x, y) =>
           y # Head(p.lru) /\ (x = Head(p.lru) \/ Before(c.lru, x, y))
  BY <1>1 DEF WithPlaced
<1>3. PICK new \in CacheBlock :
        /\ new.addr = Head(p.lru) /\ new.size = size /\ new.user = user
        /\ Holds(p) = Holds(c) \cup {new}
        /\ \A b \in Holds(c) : b.addr # new.addr
        /\ h.low <= new.addr \/ \E b \in Holds(c) : b.addr <= new.addr
        /\ \/ End(new) <= hunk_size - h.high
           \/ \E b \in Holds(c) : End(new) <= b.addr
  BY <1>1 DEF WithPlaced
<1>4. new.addr \in Nat /\ new.addr # NULL
  BY CacheAssumption DEF CacheBlock
<1>5. /\ m.blocks = p.blocks /\ m.lru = p.lru
      /\ m.data = [c.data EXCEPT ![user] = new.addr]
      /\ m = [blocks |-> m.blocks, lru |-> m.lru, data |-> m.data]
  BY <1>1, <1>2, <1>3 DEF Listed, CacheType
<1>6. m.data[user] = new.addr /\ \A u \in User \ {user} : m.data[u] = c.data[u]
  BY <1>1, <1>5
<1>7. Holds(m) = Holds(c) \cup {new} /\ Holds(m) = Holds(p)
  BY <1>3, <1>5 DEF Holds
<1>8. Listed(m)
  <2>1. m.data \in [User -> Nat \cup {NULL}]
    BY <1>1, <1>4, <1>5
  <2>2. m \in CacheType
    BY <1>1, <1>5, <2>1 DEF Listed, CacheType
  <2> QED
    BY <1>1, <1>5, <1>7, <2>2 DEF Listed
<1>9. Owned(m)
  <2>1. ASSUME NEW x \in Holds(m) PROVE m.data[x.user] = x.addr
    <3>1. CASE x = new
      BY <1>3, <1>6, <3>1
    <3>2. CASE x \in Holds(c)
      <4>1. c.data[x.user] = x.addr /\ x.user \in User /\ x.addr \in Nat /\ NULL \notin Nat
        BY <3>2, Types DEF Owned
      <4> QED
        BY <1>6, <4>1
    <3> QED
      BY <1>7, <3>1, <3>2
  <2>2. ASSUME NEW u \in User, m.data[u] # NULL PROVE \E x \in Holds(m) : x.user = u
    <3>1. CASE u = user
      BY <1>3, <1>7, <3>1
    <3>2. CASE u # user
      <4>1. PICK x \in Holds(c) : x.user = u
        BY <1>6, <2>2, <3>2 DEF Owned
      <4> QED
        BY <1>7, <4>1
    <3> QED
      BY <3>1, <3>2
  <2> QED
    BY <2>1, <2>2 DEF Owned
<1>10. ByUse(c, recent, moved) => ByUse(m, UsedNow(user), moved \ {user})
  <2>1. m.lru = p.lru /\ m.data[user] = Head(p.lru)
    BY <1>3, <1>5, <1>6
  <2>2. \A x, y : Before(m.lru, x, y) =>
           y # m.data[user] /\ (x = m.data[user] \/ Before(c.lru, x, y))
    BY <1>2, <2>1
  <2> QED
    BY <1>4, <1>6, <1>8, <1>9, <2>2, UsedIsFirst
<1>11. InGaps(m, c, h)
  <2>1. \A x \in Holds(m) \ Holds(c) : x = new
    BY <1>7
  <2> QED
    BY <1>3, <2>1 DEF InGaps
<1> QED
  BY <1>8, <1>9, <1>10, <1>11

(* Cache_Check                                                              *)
LEMMA CheckedOwned ==
    ASSUME NEW c, Listed(c), Owned(c), NEW user \in User, c.data[user] # NULL,
           NEW m, m = MadeRecent(c, user)
    PROVE  /\ Listed(m) /\ Owned(m) /\ Holds(m) = Holds(c)
           /\ ByUse(c, recent, moved) => ByUse(m, UsedNow(user), moved \ {user})
<1> DEFINE a == c.data[user]
           k == PlaceOf(a, c.lru)
           rest == RemoveAt(c.lru, k)
<1>1. /\ c.blocks \in Seq(CacheBlock) /\ c.lru \in Seq(Nat) /\ Distinct(c.lru)
      /\ c.data \in [User -> Nat \cup {NULL}]
  BY Types DEF Listed
<1>2. a \in Elements(c.lru)
  BY OwnersData
<1>3. k \in DOMAIN c.lru /\ c.lru[k] = a /\ a \in Nat
  <2>1. \E j \in DOMAIN c.lru : c.lru[j] = a
    BY <1>2 DEF Elements
  <2> QED
    BY <1>1, <2>1 DEF PlaceOf
<1>4. /\ m.blocks = c.blocks /\ m.data = c.data /\ m.lru = <<a>> \o rest
      /\ m = [blocks |-> m.blocks, lru |-> m.lru, data |-> m.data]
  BY DEF MadeRecent, Listed, CacheType
<1> HIDE DEF k
<1>5. rest \in Seq(Nat) /\ WithRemoved(rest, c.lru, a)
  BY <1>1, <1>3, Removed
<1> HIDE DEF rest
<1>6. m.lru \in Seq(Nat) /\ WithPushed(m.lru, rest, a)
  <2>1. a \notin Elements(rest) /\ Distinct(rest)
    BY <1>5 DEF WithRemoved
  <2> QED
    BY <1>3, <1>4, <1>5, <2>1, Pushed
<1>7. Listed(m) /\ Holds(m) = Holds(c)
  <2>1. m \in CacheType
    BY <1>1, <1>4, <1>6 DEF CacheType
  <2>2. Elements(m.lru) = Elements(c.lru) /\ Distinct(m.lru)
    BY <1>2, <1>5, <1>6 DEF WithRemoved, WithPushed
  <2>3. Len(m.lru) = Len(c.lru)
    <3>1. Len(c.lru) \in Nat
      BY <1>1
    <3> QED
      BY <1>5, <1>6, <3>1 DEF WithRemoved, WithPushed
  <2> QED
    BY <1>4, <2>1, <2>2, <2>3 DEF Listed, Holds
<1>8. Owned(m)
  BY <1>4, <1>7 DEF Owned
<1>9. ByUse(c, recent, moved) => ByUse(m, UsedNow(user), moved \ {user})
  <2>1. \A x, y : Before(m.lru, x, y) => y # a /\ (x = a \/ Before(c.lru, x, y))
    BY <1>5, <1>6 DEF WithRemoved, WithPushed
  <2> QED
    BY <1>4, <1>7, <1>8, <2>1, UsedIsFirst
<1> QED
  BY <1>7, <1>8, <1>9

-----------------------------------------------------------------------------
(* The calls                                                               *)

(* The low end is where the last block of the hunk ends; each block ends    *)
(* above the one before it, and the lowest one is the zone.                 *)
HunkOK ==
    /\ hunk \in HunkType
    /\ hunk.low + hunk.high <= hunk_size
    /\ hunk.tempactive => hunk.tempmark <= hunk.high
    /\ hunk.ends # <<>> /\ hunk.low = Last(hunk.ends)
    /\ \A i, j \in DOMAIN hunk.ends : i < j => hunk.ends[i] < hunk.ends[j]
    /\ hunk.ends[1] = HunkTotal(ZoneSize)

CallOK ==
    /\ calling \in Calls
    /\ calling.call = "Cache_Alloc" => calling.size > 0 /\ cache.data[calling.user] = NULL

(* Only the end whose way is being cleared reaches into the cache.          *)
ClearOK ==
    /\ calling.call # "Cache_FreeLow" => \A b \in Holds(cache) : hunk.low <= b.addr
    /\ calling.call # "Cache_FreeHigh" =>
         \A b \in Holds(cache) : End(b) <= hunk_size - hunk.high

HistoryOK ==
    /\ recent \subseteq User \X User /\ moved \subseteq User
    /\ ByUse(cache, recent, moved)

FailedOK == failed \in Nat /\ FailsOnlyWhenFull

CacheInv ==
    /\ HunkOK
    /\ Listed(cache) /\ Owned(cache)
    /\ CallOK /\ ClearOK /\ HistoryOK /\ FailedOK

LEMMA Multiples ==
    ASSUME NEW a \in Nat, NEW b \in Nat \ {0}
    PROVE  a \div b \in Nat /\ (a \div b) * b <= a /\ a < (a \div b) * b + b
<1> QED
  BY Z3

LEMMA AlignedUp ==
    ASSUME NEW n \in Nat
    PROVE  Aligned(n) \in Nat /\ Aligned(n) >= n
<1> DEFINE a == n + Alignment - 1
           q == a \div Alignment
<1>1. a \in Nat /\ Alignment \in Nat \ {0} /\ a = n + Alignment - 1
  BY CacheAssumption
<1>2. q \in Nat /\ q * Alignment <= a /\ a < q * Alignment + Alignment
  BY <1>1, Multiples
<1>3. Aligned(n) = q * Alignment
  BY DEF Aligned
<1> HIDE DEF q
<1> DEFINE m == q * Alignment
<1>4. m \in Nat
  BY <1>1, <1>2
<1> HIDE DEF m
<1>5. m <= a /\ a < m + Alignment /\ Aligned(n) = m
  BY <1>2, <1>3 DEF m
<1> HIDE DEF a
<1> QED
  BY <1>1, <1>4, <1>5

LEMMA TotalsPositive ==
    /\ \A n \in Nat : HunkTotal(n) \in Nat \ {0} /\ Aligned(n) \in Nat
    /\ \A n \in Nat : CacheTotal(n) \in Nat \ {0}
<1>1. ASSUME NEW n \in Nat PROVE HunkTotal(n) \in Nat \ {0} /\ Aligned(n) \in Nat
  BY AlignedUp, CacheAssumption DEF HunkTotal
<1>2. ASSUME NEW n \in Nat PROVE CacheTotal(n) \in Nat \ {0}
  <2>1. n + CacheHeader \in Nat \ {0}
    BY CacheAssumption
  <2> QED
    BY <2>1, AlignedUp DEF CacheTotal
<1> QED
  BY <1>1, <1>2

(* The steps of the loops that free a block, and those that move one.       *)
LEMMA FreeStep ==
    ASSUME CacheInv, NEW b \in Holds(cache), Free(b.user)
    PROVE  /\ Listed(cache') /\ Owned(cache') /\ HistoryOK'
           /\ Holds(cache') \subseteq Holds(cache)
           /\ cache'.data = [cache.data EXCEPT ![b.user] = NULL]
<1>1. /\ Listed(cache) /\ Owned(cache) /\ ByUse(cache, recent, moved)
      /\ recent \subseteq User \X User /\ moved \subseteq User
  BY DEF CacheInv, HistoryOK
<1>2. cache' = CacheFreed(cache, b.user) /\ Remember(recent, moved)
  BY DEF Free
<1>3. /\ Listed(cache') /\ Owned(cache') /\ Holds(cache') = Holds(cache) \ {b}
      /\ cache'.data = [cache.data EXCEPT ![b.user] = NULL]
      /\ ByUse(cache', recent, moved)
  BY <1>1, <1>2, FreedOwned
<1>4. ByUse(cache', recent', moved')
  <2>1. /\ recent' = {p \in recent : cache'.data[p[1]] # NULL /\ cache'.data[p[2]] # NULL}
        /\ moved' = {u \in moved : cache'.data[u] # NULL}
    BY <1>2 DEF Remember
  <2> QED
    BY <1>3, <2>1, Forgotten
<1> QED
  BY <1>1, <1>2, <1>3, <1>4 DEF Remember, HistoryOK

LEMMA MoveStep ==
    ASSUME CacheInv, NEW b \in Holds(cache), Move(b)
    PROVE  /\ Listed(cache') /\ Owned(cache') /\ HistoryOK'
           /\ InGaps(cache', cache, hunk)
<1>1. /\ Listed(cache) /\ Owned(cache) /\ ByUse(cache, recent, moved)
      /\ recent \subseteq User \X User /\ moved \subseteq User /\ hunk \in HunkType
  BY DEF CacheInv, HistoryOK, HunkOK
<1>2. cache' = CacheMoved(cache, hunk, b) /\ Remember(recent, moved \cup {b.user})
  BY DEF Move
<1>3. /\ Listed(cache') /\ Owned(cache')
      /\ InGaps(cache', cache, hunk)
      /\ \A newer, relocated :
           ByUse(cache, newer, relocated) => ByUse(cache', newer, relocated \cup {b.user})
  BY <1>1, <1>2, MovedOwned
<1>4. ByUse(cache', recent, moved \cup {b.user})
  BY <1>1, <1>3
<1>5. ByUse(cache', recent', moved')
  <2> DEFINE relocated == moved \cup {b.user}
  <2>1. /\ recent' = {p \in recent : cache'.data[p[1]] # NULL /\ cache'.data[p[2]] # NULL}
        /\ moved' = {u \in relocated : cache'.data[u] # NULL}
        /\ ByUse(cache', recent, relocated)
    BY <1>2, <1>4 DEF Remember
  <2> HIDE DEF relocated
  <2> QED
    BY <1>3, <2>1, Forgotten
<1>6. b.user \in User
  BY <1>1, Types
<1> QED
  BY <1>1, <1>2, <1>3, <1>5, <1>6 DEF Remember, HistoryOK

(* Cache_Check and Cache_Alloc                                              *)
LEMMA TouchStep ==
    ASSUME HistoryOK, NEW user \in User, Touch(user), Listed(cache'), Owned(cache'),
           ByUse(cache, recent, moved) => ByUse(cache', UsedNow(user), moved \ {user})
    PROVE  HistoryOK'
<1> DEFINE newer == UsedNow(user)
           relocated == moved \ {user}
<1>1. /\ ByUse(cache', newer, relocated)
      /\ newer \subseteq User \X User /\ relocated \subseteq User
  BY DEF HistoryOK, UsedNow
<1>2. /\ recent' = {q \in newer : cache'.data[q[1]] # NULL /\ cache'.data[q[2]] # NULL}
      /\ moved' = {u \in relocated : cache'.data[u] # NULL}
  BY DEF Touch, Remember, UsedNow
<1> HIDE DEF newer, relocated
<1>3. ByUse(cache', recent', moved')
  BY <1>1, <1>2, Forgotten
<1> QED
  BY <1>1, <1>2, <1>3 DEF HistoryOK

(* What is put where there is room is clear of what the cache is clear of.  *)
LEMMA StaysClear ==
    ASSUME Listed(cache), Listed(cache'), hunk \in HunkType,
           InGaps(cache', cache, hunk)
    PROVE  /\ (\A b \in Holds(cache) : hunk.low <= b.addr) =>
                \A b \in Holds(cache') : hunk.low <= b.addr
           /\ (\A b \in Holds(cache) : End(b) <= hunk_size - hunk.high) =>
                \A b \in Holds(cache') : End(b) <= hunk_size - hunk.high
<1>1. /\ \A b \in Holds(cache) : b.addr \in Nat /\ End(b) \in Nat /\ b.addr < End(b)
      /\ \A b \in Holds(cache') : b.addr \in Nat /\ End(b) \in Nat
      /\ hunk.low \in Nat /\ hunk_size - hunk.high \in Int
  BY Types, CacheAssumption DEF HunkType
<1> DEFINE top == hunk_size - hunk.high
<1>2. top \in Int
  BY <1>1
<1> HIDE DEF top
<1>3. ASSUME \A b \in Holds(cache) : hunk.low <= b.addr, NEW b \in Holds(cache')
      PROVE  hunk.low <= b.addr
  BY <1>1, <1>3 DEF InGaps
<1>4. ASSUME \A b \in Holds(cache) : End(b) <= top, NEW b \in Holds(cache')
      PROVE  End(b) <= top
  <2>1. b \in Holds(cache) \/ End(b) <= top \/ \E y \in Holds(cache) : End(b) <= y.addr
    BY DEF top, InGaps
  <2>2. CASE b \in Holds(cache)
    BY <1>4, <2>2
  <2>3. ASSUME NEW y \in Holds(cache), End(b) <= y.addr PROVE End(b) <= top
    BY <1>1, <1>2, <1>4, <2>3
  <2> QED
    BY <2>1, <2>2, <2>3
<1> QED
  BY <1>3, <1>4 DEF top

LEMMA FirstAndLast ==
    ASSUME NEW c, Listed(c), c.blocks # <<>>
    PROVE  /\ Head(c.blocks) \in Holds(c) /\ Last(c.blocks) \in Holds(c)
           /\ \A b \in Holds(c) : Head(c.blocks).addr <= b.addr /\ End(b) <= End(Last(c.blocks))
<1>1. PICK n \in Nat \ {0} : n = Len(c.blocks) /\ DOMAIN c.blocks = 1 .. n
  BY Types
<1>2. Head(c.blocks) = c.blocks[1] /\ Last(c.blocks) = c.blocks[n]
  BY <1>1, Types DEF Last
<1>3. c.blocks[1] \in Holds(c) /\ c.blocks[n] \in Holds(c)
  BY <1>1 DEF Holds, Elements
<1>4. ASSUME NEW i \in 1 .. n, NEW j \in 1 .. n, i < j
      PROVE  /\ c.blocks[i].addr <= c.blocks[j].addr
             /\ End(c.blocks[i]) <= End(c.blocks[j])
  <2>1. c.blocks[i] \in Holds(c) /\ c.blocks[j] \in Holds(c)
    BY <1>1 DEF Holds, Elements
  <2>2. End(c.blocks[i]) <= c.blocks[j].addr
    BY <1>1, <1>4 DEF Listed, InOrder, Before
  <2>3. /\ End(c.blocks[i]) \in Nat /\ End(c.blocks[i]) > c.blocks[i].addr
        /\ End(c.blocks[j]) \in Nat /\ End(c.blocks[j]) > c.blocks[j].addr
        /\ c.blocks[i].addr \in Nat /\ c.blocks[j].addr \in Nat
    BY <2>1, Types
  <2> QED
    BY <2>2, <2>3
<1>5. ASSUME NEW i \in 1 .. n
      PROVE  c.blocks[1].addr <= c.blocks[i].addr /\ End(c.blocks[i]) <= End(c.blocks[n])
  <2>1. c.blocks[i] \in Holds(c)
    BY <1>1 DEF Holds, Elements
  <2>2. c.blocks[i].addr \in Nat /\ End(c.blocks[i]) \in Nat
    BY <2>1, Types
  <2>3. i = 1 \/ 1 < i
    OBVIOUS
  <2>4. i = n \/ i < n
    OBVIOUS
  <2>5. c.blocks[1].addr <= c.blocks[i].addr
    BY <1>4, <2>2, <2>3
  <2>6. End(c.blocks[i]) <= End(c.blocks[n])
    BY <1>4, <2>2, <2>4
  <2> QED
    BY <2>5, <2>6
<1> QED
  BY <1>1, <1>2, <1>3, <1>5 DEF Holds, Elements

(* What Cache_Alloc throws out is the block whose address is last in the    *)
(* list by last use, behind that of every other owner's data.               *)
LEMMA VictimIsLast ==
    ASSUME NEW c, Listed(c), Owned(c), c.blocks # <<>>
    PROVE  \E b \in Holds(c) :
             /\ Victim(c) = b.user
             /\ \A v \in User : c.data[v] # NULL /\ v # b.user =>
                  Before(c.lru, c.data[v], c.data[b.user])
<1>1. PICK n \in Nat \ {0} : n = Len(c.lru) /\ DOMAIN c.lru = 1 .. n
  BY Types DEF Listed
<1>2. Last(c.lru) = c.lru[n] /\ c.lru[n] \in Elements(c.lru)
  BY <1>1 DEF Last, Elements
<1>3. PICK b \in Holds(c) : b.addr = Last(c.lru)
  BY <1>2 DEF Listed
<1> DEFINE i == BlockAt(c, Last(c.lru))
<1>4. i \in DOMAIN c.blocks /\ c.blocks[i].addr = Last(c.lru)
  <2>1. \E j \in DOMAIN c.blocks : c.blocks[j].addr = Last(c.lru)
    BY <1>3 DEF Holds, Elements
  <2> QED
    BY <2>1 DEF BlockAt
<1>5. c.blocks[i] = b
  <2>1. c.blocks[i] \in Holds(c)
    BY <1>4 DEF Holds, Elements
  <2> QED
    BY <1>3, <1>4, <2>1, Addresses
<1>6. Victim(c) = b.user
  BY <1>5 DEF Victim, Owner
<1>7. ASSUME NEW v \in User, c.data[v] # NULL, v # b.user
      PROVE  Before(c.lru, c.data[v], c.data[b.user])
  <2>1. c.data[b.user] = c.lru[n] /\ b.user \in User /\ c.data[b.user] # NULL
    BY <1>2, <1>3, Types DEF Owned
  <2>2. c.data[v] \in Elements(c.lru) /\ c.data[v] # c.data[b.user]
    BY <1>7, <2>1, OwnersData
  <2>3. PICK k \in 1 .. n : c.lru[k] = c.data[v]
    BY <1>1, <2>2 DEF Elements
  <2>4. k < n
    BY <2>1, <2>2, <2>3
  <2> QED
    BY <1>1, <2>1, <2>3, <2>4 DEF Before
<1> QED
  BY <1>6, <1>7

LEMMA LoopsKeep ==
    ASSUME CacheInv, Cache_FreeLow \/ Cache_FreeHigh \/ Flush
    PROVE  CacheInv'
<1>1. /\ UNCHANGED <<hunk, failed>> /\ calling \in Calls
      /\ Listed(cache) /\ Owned(cache) /\ HunkOK /\ ClearOK /\ HistoryOK /\ hunk \in HunkType
      /\ hunk.low \in Nat /\ hunk_size - hunk.high \in Int
  BY CacheAssumption DEF CacheInv, CallOK, HunkOK, HunkType, Cache_FreeLow, Cache_FreeHigh, Flush
<1>2. HunkOK' /\ FailedOK'
  BY <1>1 DEF CacheInv, HunkOK, FailedOK, FailsOnlyWhenFull, Room
<1>3. CASE Cache_FreeLow
  <2>1. CASE Below /\ Move(Head(cache.blocks)) /\ UNCHANGED calling
    <3>1. Head(cache.blocks) \in Holds(cache)
      BY <1>1, <2>1, FirstAndLast DEF Below
    <3>2. /\ Listed(cache') /\ Owned(cache') /\ HistoryOK'
          /\ InGaps(cache', cache, hunk)
      BY <2>1, <3>1, MoveStep
    <3>3. /\ \A b \in Holds(cache) : End(b) <= hunk_size - hunk.high
          /\ calling'.call = "Cache_FreeLow"
      BY <1>1, <1>3, <2>1 DEF ClearOK, Cache_FreeLow
    <3>4. \A b \in Holds(cache') : End(b) <= hunk_size - hunk.high
      BY <1>1, <3>2, <3>3, StaysClear
    <3>5. ClearOK' /\ CallOK'
      BY <1>1, <2>1, <3>3, <3>4 DEF ClearOK, CallOK
    <3> QED
      BY <1>2, <3>2, <3>5 DEF CacheInv
  <2>2. CASE ~Below /\ Return
    <3>1. /\ UNCHANGED <<cache, recent, moved>> /\ calling' = NoCall
          /\ calling'.call = "none"
      BY <2>2 DEF Return, NoCall
    <3>2. \A b \in Holds(cache) : hunk.low <= b.addr
      <4>1. CASE cache.blocks = <<>>
        BY <4>1 DEF Holds, Elements
      <4>2. CASE cache.blocks # <<>>
        <5>1. ~(Head(cache.blocks).addr < hunk.low)
          BY <2>2, <4>2 DEF Below
        <5>2. /\ Head(cache.blocks) \in Holds(cache)
              /\ \A b \in Holds(cache) : Head(cache.blocks).addr <= b.addr
          BY <1>1, <4>2, FirstAndLast
        <5>3. \A b \in Holds(cache) : b.addr \in Nat
          BY <1>1, Types
        <5> QED
          BY <1>1, <5>1, <5>2, <5>3
      <4> QED
        BY <4>1, <4>2
    <3>3. \A b \in Holds(cache) : End(b) <= hunk_size - hunk.high
      BY <1>1, <1>3 DEF ClearOK, Cache_FreeLow
    <3>4. ClearOK' /\ CallOK' /\ HistoryOK'
      BY <1>1, <3>1, <3>2, <3>3 DEF ClearOK, CallOK, HistoryOK, Calls
    <3> QED
      BY <1>1, <1>2, <3>1, <3>4 DEF CacheInv
  <2> QED
    BY <1>3, <2>1, <2>2 DEF Cache_FreeLow
<1>4. CASE Cache_FreeHigh
  <2> DEFINE b == Last(cache.blocks)
  <2>1. CASE /\ Above
             /\ IF b.addr = calling.prev THEN Free(b.user) ELSE Move(b)
             /\ calling' = [calling EXCEPT !.prev = b.addr]
    <3>1. b \in Holds(cache) /\ b.addr \in Nat
      BY <1>1, <2>1, FirstAndLast, Types DEF Above
    <3>2. /\ Listed(cache') /\ Owned(cache') /\ HistoryOK'
          /\ InGaps(cache', cache, hunk)
      <4> HIDE DEF b
      <4>1. CASE Free(b.user)
        <5>1. /\ Listed(cache') /\ Owned(cache') /\ HistoryOK'
              /\ Holds(cache') \subseteq Holds(cache)
          BY <3>1, <4>1, FreeStep
        <5> QED
          BY <5>1 DEF InGaps
      <4>2. CASE Move(b)
        BY <3>1, <4>2, MoveStep
      <4> QED
        BY <2>1, <4>1, <4>2
    <3>3. /\ \A x \in Holds(cache) : hunk.low <= x.addr
          /\ calling \in [call : {"Cache_FreeHigh"}, prev : Nat \cup {NULL}]
      BY <1>1, <1>4 DEF ClearOK, Cache_FreeHigh, Calls, NoCall
    <3>4. \A x \in Holds(cache') : hunk.low <= x.addr
      BY <1>1, <3>2, <3>3, StaysClear
    <3>5. calling' \in [call : {"Cache_FreeHigh"}, prev : Nat \cup {NULL}]
      BY <2>1, <3>1, <3>3
    <3>6. ClearOK' /\ CallOK'
      BY <1>1, <3>4, <3>5 DEF ClearOK, CallOK, Calls
    <3> QED
      BY <1>2, <3>2, <3>6 DEF CacheInv
  <2>2. CASE ~Above /\ Return
    <3>1. /\ UNCHANGED <<cache, recent, moved>> /\ calling' = NoCall
          /\ calling'.call = "none"
      BY <2>2 DEF Return, NoCall
    <3>2. \A x \in Holds(cache) : End(x) <= hunk_size - hunk.high
      <4>1. CASE cache.blocks = <<>>
        BY <4>1 DEF Holds, Elements
      <4>2. CASE cache.blocks # <<>>
        <5>1. ~(End(b) > hunk_size - hunk.high)
          BY <2>2, <4>2 DEF Above
        <5>2. b \in Holds(cache) /\ \A x \in Holds(cache) : End(x) <= End(b)
          BY <1>1, <4>2, FirstAndLast
        <5>3. \A x \in Holds(cache) : End(x) \in Nat
          BY <1>1, Types
        <5> QED
          BY <1>1, <5>1, <5>2, <5>3
      <4> QED
        BY <4>1, <4>2
    <3>3. \A x \in Holds(cache) : hunk.low <= x.addr
      BY <1>1, <1>4 DEF ClearOK, Cache_FreeHigh
    <3>4. ClearOK' /\ CallOK' /\ HistoryOK'
      BY <1>1, <3>1, <3>2, <3>3 DEF ClearOK, CallOK, HistoryOK, Calls
    <3> QED
      BY <1>1, <1>2, <3>1, <3>4 DEF CacheInv
  <2> QED
    BY <1>4, <2>1, <2>2 DEF Cache_FreeHigh
<1>5. CASE Flush
  <2>1. /\ \A b \in Holds(cache) : hunk.low <= b.addr /\ End(b) <= hunk_size - hunk.high
        /\ calling.call = "Cache_Force_Flush"
    BY <1>1, <1>5 DEF ClearOK, Flush
  <2>2. CASE cache.blocks # <<>> /\ Free(Head(cache.blocks).user) /\ UNCHANGED calling
    <3>1. Head(cache.blocks) \in Holds(cache)
      BY <1>1, <2>2, FirstAndLast
    <3>2. /\ Listed(cache') /\ Owned(cache') /\ HistoryOK'
          /\ Holds(cache') \subseteq Holds(cache)
      BY <2>2, <3>1, FreeStep
    <3>3. ClearOK' /\ CallOK'
      BY <1>1, <2>1, <2>2, <3>2 DEF ClearOK, CallOK
    <3> QED
      BY <1>2, <3>2, <3>3 DEF CacheInv
  <2>3. CASE Return
    <3>1. /\ UNCHANGED <<cache, recent, moved>> /\ calling' = NoCall
          /\ calling'.call = "none"
      BY <2>3 DEF Return, NoCall
    <3>2. ClearOK' /\ CallOK' /\ HistoryOK'
      BY <1>1, <2>1, <3>1 DEF ClearOK, CallOK, HistoryOK, Calls
    <3> QED
      BY <1>1, <1>2, <3>1, <3>2 DEF CacheInv
  <2> QED
    BY <1>5, <2>2, <2>3 DEF Flush
<1> QED
  BY <1>3, <1>4, <1>5

(* Between two loops nothing overlaps.                                      *)
LEMMA AllClear ==
    ASSUME CacheInv, calling.call \notin {"Cache_FreeLow", "Cache_FreeHigh"}
    PROVE  \A b \in Holds(cache) : hunk.low <= b.addr /\ End(b) <= hunk_size - hunk.high
<1> QED
  BY DEF CacheInv, ClearOK

LEMMA EvictFacts ==
    ASSUME CacheInv, Evict
    PROVE  /\ calling \in [call : {"Cache_Alloc"}, user : User, size : Nat] /\ calling.size > 0
           /\ Listed(cache') /\ Owned(cache') /\ HistoryOK'
           /\ Holds(cache') \subseteq Holds(cache)
           /\ \E b \in Holds(cache) :
                /\ cache'.data = [cache.data EXCEPT ![b.user] = NULL]
                /\ \A v \in User : cache.data[v] # NULL /\ v # b.user =>
                     Before(cache.lru, cache.data[v], cache.data[b.user])
<1>1. Listed(cache) /\ Owned(cache) /\ cache.blocks # <<>> /\ Free(Victim(cache))
  BY DEF CacheInv, Evict
<1>2. PICK b \in Holds(cache) :
        /\ Victim(cache) = b.user
        /\ \A v \in User : cache.data[v] # NULL /\ v # b.user =>
             Before(cache.lru, cache.data[v], cache.data[b.user])
  BY <1>1, VictimIsLast
<1>3. /\ Listed(cache') /\ Owned(cache') /\ HistoryOK'
      /\ Holds(cache') \subseteq Holds(cache)
      /\ cache'.data = [cache.data EXCEPT ![b.user] = NULL]
  BY <1>1, <1>2, FreeStep
<1>4. calling \in [call : {"Cache_Alloc"}, user : User, size : Nat] /\ calling.size > 0
  BY DEF CacheInv, CallOK, Calls, NoCall, Evict
<1> QED
  BY <1>2, <1>3, <1>4

LEMMA AllocKeeps ==
    ASSUME CacheInv, Evict \/ Place \/ NoPlace
    PROVE  CacheInv'
<1>0. UNCHANGED hunk /\ calling.call = "Cache_Alloc"
  BY DEF Evict, Place, NoPlace
<1>1. /\ UNCHANGED hunk /\ calling.call = "Cache_Alloc"
      /\ calling \in [call : {"Cache_Alloc"}, user : User, size : Nat] /\ calling.size > 0
      /\ Listed(cache) /\ Owned(cache) /\ HunkOK /\ HistoryOK /\ hunk \in HunkType
      /\ cache.data[calling.user] = NULL
      /\ cache.data \in [User -> Nat \cup {NULL}]
  <2>1. calling \in [call : {"Cache_Alloc"}, user : User, size : Nat]
    BY <1>0 DEF CacheInv, CallOK, Calls, NoCall
  <2>2. /\ calling.size > 0 /\ cache.data[calling.user] = NULL
        /\ Listed(cache) /\ Owned(cache) /\ HunkOK /\ HistoryOK /\ hunk \in HunkType
    BY <1>0 DEF CacheInv, CallOK, HunkOK
  <2>3. cache.data \in [User -> Nat \cup {NULL}]
    BY <2>2, Types
  <2> QED
    BY <1>0, <2>1, <2>2, <2>3
<1>2. \A b \in Holds(cache) : hunk.low <= b.addr /\ End(b) <= hunk_size - hunk.high
  BY <1>1, AllClear
<1>3. HunkOK'
  BY <1>1 DEF HunkOK
<1>4. CASE Evict
  <2>1. /\ Listed(cache') /\ Owned(cache') /\ HistoryOK'
        /\ Holds(cache') \subseteq Holds(cache)
    BY <1>4, EvictFacts
  <2>2. PICK b \in Holds(cache) : cache'.data = [cache.data EXCEPT ![b.user] = NULL]
    BY <1>4, EvictFacts
  <2>3. cache'.data[calling.user] = NULL
    BY <1>1, <2>2
  <2>4. ClearOK' /\ CallOK' /\ FailedOK'
    BY <1>1, <1>2, <1>4, <2>1, <2>3
       DEF CacheInv, ClearOK, CallOK, FailedOK, FailsOnlyWhenFull, Room, Evict
  <2> QED
    BY <1>3, <2>1, <2>4 DEF CacheInv
<1>5. CASE Place
  <2> DEFINE user == calling.user
             p == Placed(cache, hunk, calling.size, FALSE, user)
  <2>1. /\ cache' = [p EXCEPT !.data[user] = Head(p.lru)]
        /\ Touch(user) /\ calling' = NoCall /\ failed' = failed
        /\ Gaps(cache, hunk, calling.size, FALSE) # {}
        /\ user \in User /\ calling.size \in Nat \ {0}
    <3>1. /\ cache' = [p EXCEPT !.data[user] = Head(p.lru)]
          /\ Touch(user) /\ calling' = NoCall /\ failed' = failed
          /\ Gaps(cache, hunk, calling.size, FALSE) # {}
      BY <1>5, Zenon DEF Place, Fits
    <3>2. user \in User /\ calling.size \in Nat \ {0}
      BY <1>1
    <3> QED
      BY <3>1, <3>2
  <2> HIDE DEF p
  <2>2. /\ Listed(cache') /\ Owned(cache')
        /\ InGaps(cache', cache, hunk)
        /\ ByUse(cache, recent, moved) => ByUse(cache', UsedNow(user), moved \ {user})
    <3> HIDE DEF user
    <3>1. p = Placed(cache, hunk, calling.size, FALSE, user)
      BY DEF p
    <3>2. /\ cache.data[user] = NULL /\ user \in User /\ calling.size \in Nat \ {0}
          /\ cache' = [p EXCEPT !.data[user] = Head(p.lru)]
          /\ Gaps(cache, hunk, calling.size, FALSE) # {}
      BY <1>1, <2>1 DEF user
    <3>3. Listed(cache) /\ Owned(cache) /\ hunk \in HunkType
      BY <1>1
    <3> QED
      BY <3>1, <3>2, <3>3, PlacedOwned
  <2>3. \A b \in Holds(cache') : hunk.low <= b.addr /\ End(b) <= hunk_size - hunk.high
    BY <1>1, <1>2, <2>2, StaysClear
  <2>4. HistoryOK'
    BY <1>1, <2>1, <2>2, TouchStep
  <2>5. calling'.call = "none" /\ calling' \in Calls
    BY <2>1 DEF NoCall, Calls
  <2>6. ClearOK' /\ CallOK' /\ FailedOK'
    BY <1>1, <2>1, <2>3, <2>5 DEF CacheInv, ClearOK, CallOK, FailedOK, FailsOnlyWhenFull, Room
  <2> QED
    BY <1>3, <2>2, <2>4, <2>6 DEF CacheInv
<1>6. CASE NoPlace
  <2>1. /\ UNCHANGED <<cache, recent, moved>> /\ calling' = NoCall /\ failed' = calling.size
        /\ cache.blocks = <<>> /\ Gaps(cache, hunk, calling.size, FALSE) = {}
    BY <1>6 DEF NoPlace, Fits
  <2>2. calling.size > Room(hunk)
    <3>1. Len(cache.blocks) = 0 /\ 1 \in 1 .. Len(cache.blocks) + 1
      BY <2>1
    <3>2. GapEnd(cache, hunk, 1) = hunk_size - hunk.high /\ GapStart(cache, hunk, 1) = hunk.low
      BY <3>1 DEF GapEnd, GapStart
    <3>3. ~(GapEnd(cache, hunk, 1) - GapStart(cache, hunk, 1) >= calling.size)
      BY <2>1, <3>1 DEF Gaps
    <3>4. hunk_size \in Nat /\ hunk.high \in Nat /\ hunk.low \in Nat
      BY <1>1, CacheAssumption DEF HunkType
    <3> QED
      BY <1>1, <3>2, <3>3, <3>4 DEF Room
  <2>3. calling'.call = "none" /\ calling' \in Calls
    BY <2>1 DEF NoCall, Calls
  <2>4. ClearOK' /\ CallOK' /\ FailedOK' /\ HistoryOK'
    BY <1>1, <1>2, <2>1, <2>2, <2>3
       DEF ClearOK, CallOK, FailedOK, FailsOnlyWhenFull, Room, HistoryOK
  <2> QED
    BY <1>1, <1>3, <2>1, <2>4 DEF CacheInv
<1> QED
  BY <1>4, <1>5, <1>6

LEMMA HunkCallsKeep ==
    ASSUME CacheInv, Ready,
           \/ \E size \in HunkRequests : Hunk_AllocName(size) \/ Hunk_AllocFails(size)
           \/ \E n \in DOMAIN hunk.ends : Hunk_FreeToLowMark(n)
           \/ \E size \in TempRequests : Hunk_TempAlloc(size)
    PROVE  CacheInv'
<1>1. /\ UNCHANGED <<cache, recent, moved>>
      /\ Listed(cache) /\ Owned(cache) /\ HunkOK /\ HistoryOK
      /\ failed = 0 /\ calling = NoCall /\ calling.call = "none"
  BY DEF CacheInv, Ready, NoCall, Hunk_AllocName, Hunk_AllocFails, Hunk_FreeToLowMark,
         Hunk_TempAlloc
<1>2. \A b \in Holds(cache) : hunk.low <= b.addr /\ End(b) <= hunk_size - hunk.high
  BY <1>1, AllClear
<1>3. HistoryOK'
  BY <1>1 DEF HistoryOK
<1>4. PICK m \in Nat \ {0} : m = Len(hunk.ends) /\ DOMAIN hunk.ends = 1 .. m
  BY <1>1 DEF HunkOK, HunkType
<1>5. /\ hunk.low \in Nat /\ hunk.high \in Nat
      /\ hunk.tempactive \in BOOLEAN /\ hunk.tempmark \in Nat /\ hunk_size \in Nat
      /\ hunk.low + hunk.high <= hunk_size
      /\ hunk.tempactive => hunk.tempmark <= hunk.high
  BY <1>1, CacheAssumption DEF HunkOK, HunkType
<1>11. /\ hunk.ends \in Seq(Nat) /\ hunk.low = hunk.ends[m]
       /\ \A i \in 1 .. m : hunk.ends[i] \in Nat
       /\ \A i, j \in 1 .. m : i < j => hunk.ends[i] < hunk.ends[j]
       /\ hunk.ends[1] = HunkTotal(ZoneSize)
  <2>1. hunk.ends \in Seq(Nat)
    BY <1>1 DEF HunkOK, HunkType
  <2>2. \A i \in 1 .. m : hunk.ends[i] \in Nat
    BY <1>4, <2>1
  <2>3. hunk.low = hunk.ends[m]
    BY <1>1, <1>4 DEF HunkOK, Last
  <2>4. /\ \A i, j \in 1 .. m : i < j => hunk.ends[i] < hunk.ends[j]
        /\ hunk.ends[1] = HunkTotal(ZoneSize)
    BY <1>1, <1>4 DEF HunkOK
  <2> QED
    BY <2>1, <2>2, <2>3, <2>4
<1>12. hunk = [ends |-> hunk.ends, low |-> hunk.low, high |-> hunk.high,
               tempactive |-> hunk.tempactive, tempmark |-> hunk.tempmark]
  BY <1>1 DEF HunkOK, HunkType
<1>6. \A b \in Holds(cache) : b.addr \in Nat /\ End(b) \in Nat
  BY <1>1, Types
<1>7. ASSUME NEW size \in HunkRequests, Hunk_AllocName(size)
      PROVE  CacheInv'
  <2> DEFINE total == HunkTotal(size)
             top == hunk.low + total
             ends == Append(hunk.ends, top)
  <2>1. total \in Nat \ {0}
    BY TotalsPositive, CacheAssumption
  <2>2. /\ hunk' = [hunk EXCEPT !.low = top, !.ends = ends]
        /\ calling' = [call |-> "Cache_FreeLow"] /\ failed' = failed
        /\ Room(hunk) >= total
    BY <1>7 DEF Hunk_AllocName
  <2> HIDE DEF total
  <2>3. top \in Nat /\ top > hunk.low /\ top + hunk.high <= hunk_size
    BY <1>5, <2>1, <2>2 DEF Room
  <2> HIDE DEF top
  <2>4. /\ ends \in Seq(Nat) /\ Len(ends) = m + 1 /\ DOMAIN ends = 1 .. m + 1
        /\ \A i \in 1 .. m : ends[i] = hunk.ends[i]
        /\ ends[m + 1] = top
    BY <1>4, <1>11, <2>3
  <2> HIDE DEF ends
  <2>5. /\ hunk'.low = top /\ hunk'.ends = ends /\ hunk'.high = hunk.high
        /\ hunk'.tempactive = hunk.tempactive /\ hunk'.tempmark = hunk.tempmark
        /\ hunk' \in HunkType
    BY <1>5, <1>12, <2>2, <2>3, <2>4 DEF HunkType
  <2>6. /\ ends # <<>> /\ top = Last(ends) /\ ends[1] = HunkTotal(ZoneSize)
        /\ \A i, j \in 1 .. m + 1 : i < j => ends[i] < ends[j]
    <3>1. m \in 1 .. m /\ \A i \in 1 .. m : i = m \/ i < m
      OBVIOUS
    <3>2. ASSUME NEW i \in 1 .. m PROVE hunk.ends[i] \in Nat /\ hunk.ends[i] <= hunk.low
      <4>1. hunk.ends[i] \in Nat /\ hunk.ends[m] \in Nat /\ hunk.low = hunk.ends[m]
        BY <1>11, <3>1
      <4>2. CASE i = m
        BY <4>1, <4>2
      <4>3. CASE i < m
        <5>1. hunk.ends[i] < hunk.ends[m]
          BY <1>11, <3>1, <4>3
        <5> QED
          BY <4>1, <5>1
      <4> QED
        BY <3>1, <4>2, <4>3
    <3>3. ASSUME NEW i \in 1 .. m + 1, NEW j \in 1 .. m + 1, i < j PROVE ends[i] < ends[j]
      <4>1. CASE j = m + 1
        <5>1. i \in 1 .. m /\ ends[j] = top /\ ends[i] = hunk.ends[i]
          BY <2>4, <3>3, <4>1
        <5>2. hunk.ends[i] \in Nat /\ hunk.ends[i] <= hunk.low
          BY <3>2, <5>1
        <5> QED
          BY <1>5, <2>3, <5>1, <5>2
      <4>2. CASE j # m + 1
        <5>1. i \in 1 .. m /\ j \in 1 .. m
          BY <3>3, <4>2
        <5> QED
          BY <1>11, <2>4, <3>3, <5>1
      <4> QED
        BY <4>1, <4>2
    <3>4. 1 \in 1 .. m
      OBVIOUS
    <3> QED
      BY <1>11, <2>4, <3>3, <3>4 DEF Last
  <2>7. HunkOK'
    BY <1>5, <2>3, <2>4, <2>5, <2>6 DEF HunkOK
  <2>8. calling' \in Calls /\ calling'.call = "Cache_FreeLow"
    BY <2>2 DEF Calls
  <2>9. ClearOK' /\ CallOK' /\ FailedOK'
    BY <1>1, <1>2, <2>2, <2>5, <2>8 DEF ClearOK, CallOK, FailedOK, FailsOnlyWhenFull
  <2> QED
    BY <1>1, <1>3, <2>7, <2>9 DEF CacheInv
<1>8. ASSUME NEW size \in HunkRequests, Hunk_AllocFails(size)
      PROVE  CacheInv'
  <2>1. HunkTotal(size) \in Nat /\ HunkTotal(size) > Room(hunk)
    <3>1. HunkTotal(size) \in Nat
      BY TotalsPositive, CacheAssumption
    <3>2. Room(hunk) < HunkTotal(size)
      BY <1>8 DEF Hunk_AllocFails
    <3>3. Room(hunk) \in Int
      BY <1>5 DEF Room
    <3> QED
      BY <3>1, <3>2, <3>3
  <2>2. UNCHANGED <<hunk, cache, calling>> /\ failed' = HunkTotal(size)
    BY <1>8 DEF Hunk_AllocFails
  <2>3. HunkOK' /\ ClearOK' /\ CallOK' /\ FailedOK'
    BY <2>1, <2>2 DEF CacheInv, HunkOK, ClearOK, CallOK, FailedOK, FailsOnlyWhenFull, Room
  <2> QED
    BY <1>1, <1>3, <2>3 DEF CacheInv
<1>9. ASSUME NEW n \in DOMAIN hunk.ends, Hunk_FreeToLowMark(n)
      PROVE  CacheInv'
  <2> DEFINE ends == SubSeq(hunk.ends, 1, n)
  <2>1. /\ hunk' = [hunk EXCEPT !.low = hunk.ends[n], !.ends = ends]
        /\ n < m /\ n \in 1 .. m
        /\ UNCHANGED <<calling, failed>>
    BY <1>4, <1>9 DEF Hunk_FreeToLowMark
  <2>2. /\ ends \in Seq(Nat) /\ Len(ends) = n /\ DOMAIN ends = 1 .. n
        /\ \A i \in 1 .. n : ends[i] = hunk.ends[i]
    <3>1. n \in 0 .. Len(hunk.ends)
      BY <1>4, <2>1
    <3>3. ends = SubSeq(hunk.ends, 1, n) /\ hunk.ends \in Seq(Nat)
      BY <1>11
    <3> HIDE DEF ends
    <3>2. ends \in Seq(Nat) /\ Len(ends) = n /\ \A k \in 1 .. n : ends[k] = hunk.ends[k]
      BY <3>1, <3>3, Prefix, SMTT(30)
    <3> QED
      BY <2>1, <3>2
  <2>3. hunk.ends[n] \in Nat /\ hunk.ends[n] < hunk.low
    BY <1>11, <2>1
  <2> HIDE DEF ends
  <2>4. /\ hunk'.low = hunk.ends[n] /\ hunk'.ends = ends /\ hunk'.high = hunk.high
        /\ hunk'.tempactive = hunk.tempactive /\ hunk'.tempmark = hunk.tempmark
        /\ hunk' \in HunkType
    BY <1>5, <1>12, <2>1, <2>2, <2>3 DEF HunkType
  <2>5. /\ ends # <<>> /\ hunk.ends[n] = Last(ends) /\ ends[1] = HunkTotal(ZoneSize)
        /\ \A i, j \in 1 .. n : i < j => ends[i] < ends[j]
    <3>1. Last(ends) = ends[n] /\ n \in 1 .. n /\ 1 \in 1 .. n /\ ends # <<>>
      BY <2>1, <2>2 DEF Last
    <3>2. \A i \in 1 .. n : i \in 1 .. m
      BY <2>1
    <3>3. \A i, j \in 1 .. n : i < j => ends[i] < ends[j]
      BY <1>11, <2>2, <3>2
    <3> QED
      BY <1>11, <2>2, <3>1, <3>3
  <2>6. HunkOK'
    BY <1>5, <2>2, <2>3, <2>4, <2>5 DEF HunkOK
  <2>7. ClearOK' /\ CallOK' /\ FailedOK'
    BY <1>1, <1>2, <1>5, <1>6, <2>1, <2>3, <2>4
       DEF CacheInv, ClearOK, CallOK, FailedOK, FailsOnlyWhenFull
  <2> QED
    BY <1>1, <1>3, <2>6, <2>7 DEF CacheInv
<1>10. ASSUME NEW size \in TempRequests, Hunk_TempAlloc(size)
       PROVE  CacheInv'
  <2> DEFINE total == HunkTotal(Aligned(size))
             mark == WithoutTemp
             h == [hunk EXCEPT !.tempactive = TRUE, !.tempmark = mark, !.high = mark]
  <2>1. total \in Nat \ {0}
    BY TotalsPositive, CacheAssumption
  <2>2. mark \in Nat /\ mark <= hunk.high
    BY <1>5 DEF WithoutTemp
  <2>3. /\ IF Room(h) < total THEN hunk' = h /\ UNCHANGED calling
           ELSE /\ hunk' = [h EXCEPT !.high = @ + total]
                /\ calling' = [call |-> "Cache_FreeHigh", prev |-> NULL]
        /\ failed' = failed
    BY <1>10 DEF Hunk_TempAlloc
  <2> HIDE DEF total
  <2> HIDE DEF mark
  <2>4. /\ h.ends = hunk.ends /\ h.low = hunk.low /\ h.high = mark
        /\ h.tempactive = TRUE /\ h.tempmark = mark
        /\ h \in HunkType
    <3>1. hunk \in [ends : Seq(Nat), low : Nat, high : Nat, tempactive : BOOLEAN, tempmark : Nat]
      BY <1>1 DEF HunkOK, HunkType
    <3>2. h.ends = hunk.ends /\ h.low = hunk.low /\ h.high = mark /\ h.tempmark = mark
      BY <3>1
    <3>3. h.tempactive = TRUE
      BY <3>1
    <3>4. h \in HunkType
      BY <2>2, <3>1 DEF HunkType
    <3> QED
      BY <3>2, <3>3, <3>4
  <2> HIDE DEF h
  <2>5. \E high \in Nat :
          /\ hunk'.ends = hunk.ends /\ hunk'.low = hunk.low /\ hunk'.high = high
          /\ hunk'.tempactive = TRUE /\ hunk'.tempmark = mark /\ hunk' \in HunkType
          /\ mark <= high /\ hunk.low + high <= hunk_size
          /\ \/ high <= hunk.high /\ UNCHANGED calling
             \/ calling' = [call |-> "Cache_FreeHigh", prev |-> NULL]
    <3>1. CASE Room(h) < total
      <4>2. mark \in Nat /\ mark <= mark /\ hunk.low + mark <= hunk_size
        BY <1>5, <2>2
      <4> QED
        BY <2>2, <2>3, <2>4, <3>1, <4>2
    <3>2. CASE ~(Room(h) < total)
      <4>1. hunk' = [h EXCEPT !.high = mark + total]
        BY <2>3, <2>4, <3>2
      <4>2. mark + total \in Nat /\ mark <= mark + total /\ hunk.low + (mark + total) <= hunk_size
        BY <1>5, <2>1, <2>2, <2>4, <3>2 DEF Room
      <4>3. /\ hunk'.ends = hunk.ends /\ hunk'.low = hunk.low /\ hunk'.high = mark + total
            /\ hunk'.tempactive = TRUE /\ hunk'.tempmark = mark /\ hunk' \in HunkType
        BY <1>5, <1>11, <2>2, <2>4, <4>1, <4>2 DEF HunkType
      <4> QED
        BY <2>3, <3>2, <4>2, <4>3
    <3> QED
      BY <3>1, <3>2
  <2>6. HunkOK'
    BY <1>1, <2>5 DEF HunkOK
  <2>7. ClearOK' /\ CallOK' /\ FailedOK'
    <3>1. CASE UNCHANGED calling
      <4>1. hunk'.low = hunk.low /\ hunk'.high \in Nat
        BY <2>5
      <4>2. hunk'.high <= hunk.high
        BY <1>1, <2>5, <3>1
      <4>3. ClearOK'
        BY <1>1, <1>2, <1>5, <1>6, <4>1, <4>2 DEF ClearOK
      <4> QED
        BY <1>1, <2>3, <3>1, <4>3 DEF CacheInv, CallOK, FailedOK, FailsOnlyWhenFull
    <3>2. CASE calling' = [call |-> "Cache_FreeHigh", prev |-> NULL]
      <4>1. calling' \in Calls /\ calling'.call = "Cache_FreeHigh"
        BY <3>2 DEF Calls
      <4>2. hunk'.low = hunk.low
        BY <2>5
      <4> QED
        BY <1>1, <1>2, <2>3, <4>1, <4>2 DEF ClearOK, CallOK, FailedOK, FailsOnlyWhenFull
    <3> QED
      BY <2>5, <3>1, <3>2
  <2> QED
    BY <1>1, <1>3, <2>6, <2>7 DEF CacheInv
<1> QED
  BY <1>7, <1>8, <1>9, <1>10

LEMMA CacheCallsKeep ==
    ASSUME CacheInv, Ready,
           \/ \E user \in User : Cache_Check(user) \/ Cache_Free(user)
           \/ \E user \in User, size \in CacheRequests : Cache_Alloc(user, size)
           \/ Cache_Force_Flush
    PROVE  CacheInv'
<1>1. /\ UNCHANGED <<hunk, failed>>
      /\ Listed(cache) /\ Owned(cache) /\ HunkOK /\ HistoryOK /\ FailedOK
      /\ calling = NoCall /\ calling.call = "none" /\ calling \in Calls
  BY DEF CacheInv, CallOK, Ready, NoCall, Cache_Check, Cache_Free, Cache_Alloc, Cache_Force_Flush
<1>2. \A b \in Holds(cache) : hunk.low <= b.addr /\ End(b) <= hunk_size - hunk.high
  BY <1>1, AllClear
<1>3. HunkOK' /\ FailedOK'
  BY <1>1 DEF HunkOK, FailedOK, FailsOnlyWhenFull, Room
<1>4. ASSUME NEW user \in User, Cache_Check(user)
      PROVE  CacheInv'
  <2>1. /\ cache' = MadeRecent(cache, user) /\ Touch(user) /\ calling' = calling
        /\ cache.data[user] # NULL
    BY <1>4 DEF Cache_Check
  <2>2. /\ Listed(cache') /\ Owned(cache') /\ Holds(cache') = Holds(cache)
        /\ ByUse(cache, recent, moved) => ByUse(cache', UsedNow(user), moved \ {user})
    BY <1>1, <2>1, CheckedOwned
  <2>3. HistoryOK'
    BY <1>1, <2>1, <2>2, TouchStep
  <2>4. ClearOK' /\ CallOK'
    BY <1>1, <1>2, <2>1, <2>2 DEF ClearOK, CallOK
  <2> QED
    BY <1>3, <2>2, <2>3, <2>4 DEF CacheInv
<1>5. ASSUME NEW user \in User, Cache_Free(user)
      PROVE  CacheInv'
  <2>1. Free(user) /\ calling' = calling /\ cache.data[user] # NULL
    BY <1>5 DEF Cache_Free
  <2>2. PICK b \in Holds(cache) : b.user = user
    BY <1>1, <2>1 DEF Owned
  <2>3. /\ Listed(cache') /\ Owned(cache') /\ HistoryOK'
        /\ Holds(cache') \subseteq Holds(cache)
    BY <2>1, <2>2, FreeStep
  <2>4. ClearOK' /\ CallOK'
    BY <1>1, <1>2, <2>1, <2>3 DEF ClearOK, CallOK
  <2> QED
    BY <1>3, <2>3, <2>4 DEF CacheInv
<1>6. ASSUME NEW user \in User, NEW size \in CacheRequests, Cache_Alloc(user, size)
      PROVE  CacheInv'
  <2>1. /\ UNCHANGED <<cache, recent, moved>> /\ cache.data[user] = NULL
        /\ calling' = [call |-> "Cache_Alloc", user |-> user, size |-> CacheTotal(size)]
    BY <1>6 DEF Cache_Alloc
  <2>2. CacheTotal(size) \in Nat \ {0}
    BY TotalsPositive, CacheAssumption
  <2>3. /\ calling' \in Calls /\ calling'.call = "Cache_Alloc" /\ calling'.size > 0
        /\ calling'.user = user
    BY <2>1, <2>2 DEF Calls
  <2>4. ClearOK' /\ CallOK' /\ HistoryOK'
    BY <1>1, <1>2, <2>1, <2>3 DEF ClearOK, CallOK, HistoryOK
  <2> QED
    BY <1>1, <1>3, <2>1, <2>4 DEF CacheInv
<1>7. CASE Cache_Force_Flush
  <2>1. /\ UNCHANGED <<cache, recent, moved>> /\ calling' = [call |-> "Cache_Force_Flush"]
    BY <1>7 DEF Cache_Force_Flush
  <2>2. calling' \in Calls /\ calling'.call = "Cache_Force_Flush"
    BY <2>1 DEF Calls
  <2>3. ClearOK' /\ CallOK' /\ HistoryOK'
    BY <1>1, <1>2, <2>1, <2>2 DEF ClearOK, CallOK, HistoryOK
  <2> QED
    BY <1>1, <1>3, <2>1, <2>3 DEF CacheInv
<1> QED
  BY <1>4, <1>5, <1>6, <1>7

LEMMA CacheStepKeeps == CacheInv /\ [CacheNext]_cacheVars => CacheInv'
<1> SUFFICES ASSUME CacheInv, [CacheNext]_cacheVars PROVE CacheInv'
  OBVIOUS
<1>1. CASE UNCHANGED cacheVars
  BY <1>1 DEF cacheVars, CacheInv, HunkOK, CallOK, ClearOK, HistoryOK, FailedOK,
              FailsOnlyWhenFull, Room
<1>2. CASE CacheNext
  <2>1. \/ Cache_FreeLow \/ Cache_FreeHigh \/ Flush
        \/ Evict \/ Place \/ NoPlace
        \/ Ready /\ \/ \E size \in HunkRequests : Hunk_AllocName(size) \/ Hunk_AllocFails(size)
                    \/ \E n \in DOMAIN hunk.ends : Hunk_FreeToLowMark(n)
                    \/ \E size \in TempRequests : Hunk_TempAlloc(size)
        \/ Ready /\ \/ \E user \in User : Cache_Check(user) \/ Cache_Free(user)
                    \/ \E user \in User, size \in CacheRequests : Cache_Alloc(user, size)
                    \/ Cache_Force_Flush
    BY <1>2 DEF CacheNext, Hunk_AllocName, Hunk_AllocFails, Hunk_FreeToLowMark, Hunk_TempAlloc,
                Cache_Check, Cache_Free, Cache_Alloc, Cache_Force_Flush
  <2> QED
    BY <2>1, LoopsKeep, AllocKeeps, HunkCallsKeep, CacheCallsKeep
<1> QED
  BY <1>1, <1>2

LEMMA CacheInitEstablishes == Memory_Init => CacheInv
<1> SUFFICES ASSUME Memory_Init PROVE CacheInv
  OBVIOUS
<1> DEFINE low == HunkTotal(ZoneSize)
<1>1. low \in Nat /\ hunk_size \in Nat /\ low <= hunk_size
  BY TotalsPositive, ZoneAssumption, CacheAssumption, MemoryAssumption
<1>2. /\ hunk = [ends |-> <<low>>, low |-> low, high |-> 0, tempactive |-> FALSE, tempmark |-> 0]
      /\ cache = EmptyCache /\ calling = NoCall /\ failed = 0 /\ recent = {} /\ moved = {}
  BY DEF Memory_Init
<1> HIDE DEF low
<1>3. HunkOK
  <2>1. hunk \in HunkType /\ hunk.low = low /\ hunk.high = 0 /\ hunk.tempactive = FALSE
    BY <1>1, <1>2 DEF HunkType
  <2>2. hunk.ends = <<low>>
    BY <1>2
  <2>3. Len(<<low>>) = 1 /\ <<low>>[1] = low /\ DOMAIN <<low>> = 1 .. 1 /\ <<low>> # <<>>
    OBVIOUS
  <2>4. Last(hunk.ends) = low
    BY <2>2, <2>3 DEF Last
  <2>5. \A i, j \in DOMAIN hunk.ends : i < j => hunk.ends[i] < hunk.ends[j]
    BY <2>2, <2>3
  <2> QED
    BY <1>1, <2>1, <2>2, <2>3, <2>4, <2>5 DEF HunkOK, low
<1>4. /\ cache.blocks = <<>> /\ cache.lru = <<>> /\ cache.data = [u \in User |-> NULL]
      /\ cache \in CacheType /\ Holds(cache) = {} /\ Elements(cache.lru) = {}
  BY <1>2 DEF EmptyCache, CacheType, Holds, Elements
<1>5. Listed(cache) /\ Owned(cache)
  BY <1>4 DEF Listed, Owned, InOrder, Before, Distinct
<1>6. HistoryOK
  BY <1>2, <1>4 DEF HistoryOK, ByUse, Before
<1>7. CallOK /\ ClearOK /\ FailedOK
  BY <1>2, <1>4 DEF CallOK, ClearOK, FailedOK, FailsOnlyWhenFull, Calls, NoCall
<1> QED
  BY <1>3, <1>5, <1>6, <1>7 DEF CacheInv

-----------------------------------------------------------------------------
(* The zone, the hunk and the cache together                               *)

LEMMA MemoryRunsTheZone == Spec => ZoneSpec
<1>1. Memory_Init => ZoneInit
  BY DEF Memory_Init
<1>2. [ZoneCall \/ CacheCall]_vars => [ZoneNext]_zoneVars
  BY DEF ZoneCall, CacheCall, vars
<1> QED
  BY <1>1, <1>2, PTL DEF Spec, ZoneSpec

LEMMA CacheInvHolds == Spec => []CacheInv
<1>1. [ZoneCall \/ CacheCall]_vars => [CacheNext]_cacheVars
  BY DEF ZoneCall, CacheCall, vars
<1>2. CacheInv /\ [ZoneCall \/ CacheCall]_vars => CacheInv'
  BY <1>1, CacheStepKeeps
<1> QED
  BY <1>2, CacheInitEstablishes, PTL DEF Spec

LEMMA RoomAndPointers ==
    ASSUME CacheInv
    PROVE  CacheTypeOK /\ CacheInRoom /\ PointersAgree /\ hunk.ends[1] = HunkTotal(ZoneSize)
<1>1. /\ HunkOK /\ Listed(cache) /\ Owned(cache)
      /\ calling \in Calls /\ failed \in Nat /\ moved \subseteq User /\ recent \subseteq User \X User
  BY DEF CacheInv, CallOK, FailedOK, HistoryOK
<1>2. CacheTypeOK
  BY <1>1 DEF CacheTypeOK, HunkOK, HunkType, Listed, CacheType, CacheBlock
<1>3. CacheInRoom
  <2>1. ASSUME NEW i \in DOMAIN cache.blocks, NEW j \in DOMAIN cache.blocks, i < j
        PROVE  End(cache.blocks[i]) <= cache.blocks[j].addr
    BY <1>1, <2>1 DEF Listed, InOrder, Before
  <2>2. ASSUME calling.call \notin {"Cache_FreeLow", "Cache_FreeHigh"},
               NEW i \in DOMAIN cache.blocks
        PROVE  /\ hunk.low <= cache.blocks[i].addr
               /\ End(cache.blocks[i]) <= hunk_size - hunk.high
    <3>1. cache.blocks[i] \in Holds(cache)
      BY DEF Holds, Elements
    <3> QED
      BY <2>2, <3>1, AllClear
  <2> QED
    BY <1>1, <2>1, <2>2 DEF CacheInRoom, HunkOK
<1>4. PointersAgree
  <2>1. ToSet(cache.blocks) = Holds(cache) /\ ToSet(cache.lru) = Elements(cache.lru)
    BY DEF ToSet, Holds, Elements
  <2>2. ASSUME NEW u \in User
        PROVE  {b.addr : b \in {x \in Holds(cache) : x.user = u}} =
                   IF cache.data[u] = NULL THEN {} ELSE {cache.data[u]}
    <3>1. \A b \in Holds(cache) : b.user = u => b.addr = cache.data[u] /\ b.addr # NULL
      BY <1>1, Types DEF Owned
    <3>2. cache.data[u] # NULL => \E b \in Holds(cache) : b.user = u
      BY <1>1 DEF Owned
    <3> QED
      BY <3>1, <3>2
  <2>3. Elements(cache.lru) = {b.addr : b \in Holds(cache)} /\ Len(cache.lru) = Len(cache.blocks)
    BY <1>1 DEF Listed
  <2> QED
    BY <2>1, <2>2, <2>3 DEF PointersAgree
<1> QED
  BY <1>1, <1>2, <1>3, <1>4 DEF HunkOK

(* Whatever the zone, the hunk and the cache are called for, cached data    *)
(* overlaps neither other cached data nor the hunk, and the pointers of the *)
(* owners, the blocks and the list by last use agree, also while blocks are *)
(* being moved or thrown out.                                               *)
THEOREM MemoryIsConsistent == Spec => []MemoryInv
<1>1. CacheInv /\ ZoneTypeOK => MemoryInv
  BY RoomAndPointers DEF MemoryInv, TypeOK
<1> QED
  BY <1>1, MemoryRunsTheZone, ZoneTypes, CacheInvHolds, PTL

(* Sys_Error is called for want of memory only when there is none: the zone *)
(* has no free block of that size and the hunk and an empty cache no room.  *)
THEOREM GivesUpWhenFull == Spec => []GivesUpOnlyWhenFull
<1>1. CacheInv /\ NotFoundOnlyWhenFull => GivesUpOnlyWhenFull
  BY DEF CacheInv, FailedOK, GivesUpOnlyWhenFull
<1> QED
  BY <1>1, MemoryRunsTheZone, NullOnlyWhenFull, CacheInvHolds, PTL

(* What Cache_Alloc throws out was used less recently than all other data   *)
(* that has not been moved since its owner used it.                         *)
THEOREM LeastRecentGoes == Spec => LeastRecentlyUsedGoes
<1> DEFINE Goes ==
        calling.call = "Cache_Alloc" =>
            \A u, v \in User :
               /\ cache.data[u] # NULL /\ cache'.data[u] = NULL
               /\ cache.data[v] # NULL /\ v # u
               /\ v \notin moved
               => <<v, u>> \in recent
<1>1. CacheInv /\ [ZoneCall \/ CacheCall]_vars => [Goes]_cacheVars
  <2> SUFFICES ASSUME CacheInv, CacheNext, calling.call = "Cache_Alloc",
                      NEW u \in User, NEW v \in User,
                      cache.data[u] # NULL, cache'.data[u] = NULL,
                      cache.data[v] # NULL, v # u, v \notin moved
               PROVE  <<v, u>> \in recent
    BY DEF ZoneCall, CacheCall, vars
  <2>1. Evict \/ Place \/ NoPlace
    <3>1. ~Ready
      BY DEF Ready, NoCall
    <3> QED
      BY <3>1 DEF CacheNext, Cache_FreeLow, Cache_FreeHigh, Flush, Hunk_AllocName,
             Hunk_AllocFails, Hunk_FreeToLowMark, Hunk_TempAlloc, Cache_Check, Cache_Free,
             Cache_Alloc, Cache_Force_Flush
  <2>2. Listed(cache) /\ cache.data \in [User -> Nat \cup {NULL}] /\ ByUse(cache, recent, moved)
    BY Types DEF CacheInv, HistoryOK
  <2>3. CASE Evict
    <3>1. PICK b \in Holds(cache) :
            /\ cache'.data = [cache.data EXCEPT ![b.user] = NULL]
            /\ \A w \in User : cache.data[w] # NULL /\ w # b.user =>
                 Before(cache.lru, cache.data[w], cache.data[b.user])
      BY <2>3, EvictFacts
    <3>2. u = b.user
      BY <2>2, <3>1
    <3> QED
      BY <2>2, <3>1, <3>2 DEF ByUse
  <2>4. CASE Place
    <3> DEFINE user == calling.user
               p == Placed(cache, hunk, calling.size, FALSE, user)
    <3>1. /\ cache' = [p EXCEPT !.data[user] = Head(p.lru)]
          /\ Gaps(cache, hunk, calling.size, FALSE) # {}
      BY <2>4, Zenon DEF Place, Fits
    <3>2. /\ user \in User /\ calling.size \in Nat \ {0} /\ cache.data[user] = NULL
          /\ Owned(cache) /\ hunk \in HunkType
      <4>1. calling \in [call : {"Cache_Alloc"}, user : User, size : Nat]
        BY DEF CacheInv, CallOK, Calls, NoCall
      <4> QED
        BY <4>1 DEF CacheInv, CallOK, HunkOK
    <3> HIDE DEF p
    <3>3. Listed(p) /\ WithPlaced(p, cache, hunk, calling.size, user)
      BY <2>2, <3>1, <3>2, PlacedKeeps DEF p
    <3>4. p.data = cache.data /\ p \in CacheType
      BY <3>3 DEF WithPlaced, Listed
    <3>5. cache'.data = [cache.data EXCEPT ![user] = Head(p.lru)]
      BY <3>1, <3>4 DEF CacheType
    <3> QED
      BY <2>2, <3>2, <3>5
  <2>5. CASE NoPlace
    BY <2>5 DEF NoPlace
  <2> QED
    BY <2>1, <2>3, <2>4, <2>5
<1> QED
  BY <1>1, CacheInvHolds, PTL DEF Spec, LeastRecentlyUsedGoes
=============================================================================
