---------------------------- MODULE ProxyProofs ----------------------------
(***************************************************************************)
(* What the HLTV proxy receives from the server.                           *)
(*                                                                         *)
(* Frames, for every set of entities, states and worlds, and every size of *)
(* the ring, of the byte of a sequence number and of the client's buffer   *)
(* of frames that FramesAssumption allows.  The ring holds the last        *)
(* SV_UPDATE_BACKUP updates, each in its slot (RingInv).  A frame the      *)
(* client has named as a base stays in its map for as long as an update    *)
(* against it that is not overrun can arrive, whoever still holds the      *)
(* name: the client, a packet on its way, the server, an update on its way *)
(* (KeptInv).  So the client undoes each delta against the frame it was    *)
(* taken from (UpdatesInv).                                                *)
(*                                                                         *)
(* SplitPacket, for every size of a part, of a datagram and of the buffer  *)
(* that its SizeAssumption allows, and any number of datagrams.  The marks *)
(* that equal the current sequence number are the parts of one datagram,   *)
(* each in its place, and splitCount is the number of those still to come  *)
(* (SplitInv).                                                             *)
(***************************************************************************)
EXTENDS Frames, SplitPacket, FiniteSetTheorems, TLAPS

(* The ring holds the updates not yet overwritten.                          *)
RingInv ==
    /\ \A i \in Slot : frames[i].senttime < outgoing
    /\ \A n \in 0 .. outgoing - 1 :
         outgoing - n <= SV_UPDATE_BACKUP => frames[RingSlot(n)].senttime = n
    /\ \A n \in 1 .. outgoing - 1 :
         outgoing - n <= SV_UPDATE_BACKUP => frames[RingSlot(n)].entities = content[n]

(* The client has read update n and, while an update less than a ring       *)
(* later may still come, has its frame.                                     *)
Kept(n) ==
    /\ n \in 1 .. received
    /\ n + SV_UPDATE_BACKUP > received + 1 => seqNrMap[n % SeqNrs].seqnr = n

Packet == [seq : Nat, ack : Nat, delta : SeqNr \cup {NoDelta}, valid : Nat]

(* Every name of a base is the byte of a frame the client had.              *)
KeptInv ==
    /\ \A p \in up :
         /\ p.ack <= received
         /\ p.delta = IF p.valid = 0 THEN NoDelta ELSE p.valid % SeqNrs
         /\ p.valid # 0 => Kept(p.valid)
    /\ validSequence # 0 => Kept(validSequence)
    /\ claimed # 0 => Kept(claimed)
    /\ delta_sequence # NoDelta => claimed # 0 /\ delta_sequence = claimed % SeqNrs

(* Update m was taken against frame n, and gives what the server sent when  *)
(* it is undone there.                                                      *)
TakenFrom(m, n) ==
    /\ Kept(n)
    /\ m.seq - n < SV_UPDATE_BACKUP
    /\ m.from = n % SeqNrs
    /\ m.entitynum => UncompressEntities(content[n], m.ops) = content[m.seq]

UpdatesInv ==
    \A m \in down :
        /\ m.seq \in 1 .. outgoing - 1
        /\ m.delta => m.from # NoDelta
        /\ m.delta /\ ~overrun => \E n \in 1 .. outgoing - 1 : TakenFrom(m, n)
        /\ ~m.delta /\ m.entitynum =>
               UncompressEntities(NoEntities, m.ops) = content[m.seq]

(* A frame of the client is one it has read.                                *)
MapInv ==
    \A b \in SeqNr : seqNrMap[b].seqnr \in 0 .. received

IInv ==
    /\ FramesInv
    /\ up \subseteq Packet
    /\ RingInv /\ KeptInv /\ UpdatesInv /\ MapInv

-----------------------------------------------------------------------------
(* Remainders and quotients of natural numbers.                            *)

LEMMA ModRange == ASSUME NEW a \in Nat, NEW m \in Nat \ {0} PROVE a % m \in 0 .. m-1
OBVIOUS

LEMMA DivMod ==
    ASSUME NEW a \in Nat, NEW m \in Nat \ {0}
    PROVE  a = m * (a \div m) + (a % m) /\ a \div m \in Nat
OBVIOUS

(* Numbers less than m apart have different remainders.                     *)
LEMMA ModApart ==
    ASSUME NEW a \in Nat, NEW b \in Nat, NEW m \in Nat \ {0}, a < b, b - a < m
    PROVE  a % m # b % m
<1>1. a = m * (a \div m) + (a % m) /\ b = m * (b \div m) + (b % m)  BY DivMod
<1>2. SUFFICES ASSUME a % m = b % m PROVE FALSE OBVIOUS
<1> DEFINE q == (b \div m) - (a \div m)
<1>0. a \div m \in Int /\ b \div m \in Int  BY DivMod
<1>3. b - a = m * q BY <1>1, <1>2, <1>0
<1> QED
  <2>1. CASE q <= 0 BY <2>1, <1>3, <1>0
  <2>2. CASE q >= 1 BY <2>2, <1>3, <1>0
  <2> QED BY <2>1, <2>2, <1>0

LEMMA ModUnique ==
    ASSUME NEW m \in Nat \ {0}, NEW q \in Int, NEW r \in 0 .. m-1
    PROVE  (m * q + r) % m = r
OBVIOUS

(* The remainder by a multiple of k leaves the remainder by k as it is.     *)
LEMMA ModMod ==
    ASSUME NEW a \in Nat, NEW k \in Nat \ {0}, NEW s \in Nat \ {0}, s % k = 0
    PROVE  (a % s) % k = a % k
<1> DEFINE q == s \div k 
           t == a \div s
           u == (a % s) \div k
           r == (a % s) % k
<1>1. s = k * q /\ q \in Nat BY DivMod
<1>2. a = s * t + (a % s) /\ t \in Nat /\ a % s \in Nat BY DivMod
<1>3. a % s = k * u + r /\ u \in Nat /\ r \in 0 .. k-1 BY DivMod, <1>2
<1>4. a = k * (q * t + u) + r 
  <2> HIDE DEF q, t, u, r
  <2>1. s * t = k * (q * t) BY <1>1, <1>2
  <2>2. k * (q * t + u) = k * (q * t) + k * u BY <1>1, <1>2, <1>3
  <2> QED BY <1>1, <1>2, <1>3, <2>1, <2>2
<1> HIDE DEF q, t, u, r
<1>5. q * t + u \in Int BY <1>1, <1>2, <1>3
<1>6. (k * (q * t + u) + r) % k = r BY ModUnique, <1>3, <1>5
<1> QED BY <1>4, <1>6 DEF r

-----------------------------------------------------------------------------
(* Delta encoding.                                                         *)

LEMMA WorldFunction ==
    ASSUME NEW w \in World, NEW e \in Ent
    PROVE  w[e] \in State \cup {Gone}
BY DEF World

(* Undoing a delta against the state it was taken from gives the new state. *)
LEMMA RoundTrip ==
    ASSUME NEW old \in State \cup {Gone}, NEW new \in State \cup {Gone}
    PROVE  /\ DeltaOp(old, new) \in {"none", "remove", "same"} \cup State
           /\ Undelta(old, DeltaOp(old, new)) = new
<1> USE FramesAssumption
<1>1. CASE old = new
  BY <1>1 DEF DeltaOp, Undelta
<1>2. CASE old # new /\ new = Gone
  BY <1>2 DEF DeltaOp, Undelta
<1>3. CASE old = Gone /\ new # Gone
  <2>1. CASE new = Baseline
    BY <1>3, <2>1 DEF DeltaOp, Undelta
  <2>2. CASE new # Baseline
    BY <1>3, <2>2 DEF DeltaOp, Undelta
  <2> QED BY <2>1, <2>2
<1>4. CASE old # Gone /\ new # Gone /\ old # new
  BY <1>4 DEF DeltaOp, Undelta
<1> QED BY <1>1, <1>2, <1>3, <1>4

LEMMA UndeltaType ==
    ASSUME NEW old \in State \cup {Gone},
           NEW op \in {"none", "remove", "same"} \cup State
    PROVE  Undelta(old, op) \in State \cup {Gone}
BY FramesAssumption DEF Undelta

(* An update, undone against the frame it was taken from, gives the list    *)
(* the server put into it.                                                  *)
LEMMA WorldRoundTrip ==
    ASSUME NEW from \in World, NEW to \in World
    PROVE  /\ SV_CreatePacketEntities(from, to)
                 \in [Ent -> {"none", "remove", "same"} \cup State]
           /\ UncompressEntities(from, SV_CreatePacketEntities(from, to)) = to
<1>1. \A e \in Ent :
        /\ DeltaOp(from[e], to[e]) \in {"none", "remove", "same"} \cup State
        /\ Undelta(from[e], DeltaOp(from[e], to[e])) = to[e]
  BY RoundTrip, WorldFunction
<1>2. SV_CreatePacketEntities(from, to)
        \in [Ent -> {"none", "remove", "same"} \cup State]
  BY <1>1 DEF SV_CreatePacketEntities
<1>3. UncompressEntities(from, SV_CreatePacketEntities(from, to))
        = [e \in Ent |-> to[e]]
  BY <1>1, <1>2 DEF UncompressEntities, SV_CreatePacketEntities
<1> QED BY <1>2, <1>3 DEF World

LEMMA UncompressType ==
    ASSUME NEW from \in World,
           NEW ops \in [Ent -> {"none", "remove", "same"} \cup State]
    PROVE  UncompressEntities(from, ops) \in World
<1>1. \A e \in Ent : Undelta(from[e], ops[e]) \in State \cup {Gone}
  BY UndeltaType, WorldFunction
<1> QED BY <1>1 DEF UncompressEntities, World

LEMMA NoEntitiesWorld == NoEntities \in World
BY DEF NoEntities, World

-----------------------------------------------------------------------------
(* The ring and the sequence numbers.                                      *)

LEMMA Sizes ==
    /\ SV_UPDATE_BACKUP \in Nat \ {0}
    /\ SeqNrs \in Nat \ {0}
    /\ SeqNrs >= SV_UPDATE_BACKUP
BY FramesAssumption

LEMMA SlotType ==
    ASSUME NEW n \in Nat
    PROVE  RingSlot(n) \in Slot /\ n % SeqNrs \in SeqNr
<1>1. n % SV_UPDATE_BACKUP \in 0 .. SV_UPDATE_BACKUP - 1
  BY ModRange, Sizes
<1>2. n % SeqNrs \in 0 .. SeqNrs - 1
  BY ModRange, Sizes
<1> QED BY <1>1, <1>2 DEF RingSlot, Slot, SeqNr

(* The byte of a sequence number determines its slot.                       *)
LEMMA SlotOfByte ==
    ASSUME NEW n \in Nat
    PROVE  RingSlot(n % SeqNrs) = RingSlot(n)
<1>1. SeqNrs % SV_UPDATE_BACKUP = 0
  BY FramesAssumption
<1> QED BY <1>1, ModMod, Sizes DEF RingSlot

(* Updates less than a ring apart have different slots and bytes.           *)
LEMMA SlotsDiffer ==
    ASSUME NEW a \in Nat, NEW b \in Nat, a < b, b - a < SV_UPDATE_BACKUP
    PROVE  RingSlot(a) # RingSlot(b) /\ a % SeqNrs # b % SeqNrs
<1>1. b - a < SeqNrs
  BY Sizes
<1>2. a % SeqNrs # b % SeqNrs
  BY <1>1, ModApart, Sizes
<1>3. a % SV_UPDATE_BACKUP # b % SV_UPDATE_BACKUP
  BY ModApart, Sizes
<1> QED BY <1>2, <1>3 DEF RingSlot

LEMMA InitIInv == Init => IInv
<1> SUFFICES ASSUME Init PROVE IInv
  OBVIOUS
<1> USE DEF Init
<1>1. TypeOK
  <2>1. content \in Seq(World) /\ Len(content) = outgoing - 1
    OBVIOUS
  <2>2. frames \in [Slot -> [senttime : Nat, ping : Nat \cup {-1}, entities : World]]
    BY NoEntitiesWorld
  <2>3. seqNrMap \in [SeqNr -> [seqnr : Nat, entities : World]]
    BY NoEntitiesWorld DEF NoFrame
  <2>4. /\ outgoing \in Nat \ {0} /\ incoming \in Nat /\ sent \in Nat
        /\ acknowledged \in Nat /\ silent \in Nat
        /\ received \in Nat /\ received < outgoing
        /\ claimed \in 0 .. outgoing - 1 /\ validSequence \in 0 .. received
    OBVIOUS
  <2>5. delta_sequence \in SeqNr \cup {NoDelta} /\ down \subseteq Update
    OBVIOUS
  <2>6. overrun \in BOOLEAN /\ missed \in BOOLEAN
    OBVIOUS
  <2> QED BY <2>1, <2>2, <2>3, <2>4, <2>5, <2>6 DEF TypeOK
<1>2. EntitiesMatch /\ NeverTooOld
  BY DEF EntitiesMatch, NeverTooOld, HasFrame, NoFrame
<1>3. RingInv
  <2>1. RingSlot(0) \in Slot
    BY SlotType
  <2> QED BY <2>1 DEF RingInv
<1>4. KeptInv /\ UpdatesInv /\ MapInv /\ up \subseteq Packet
  BY DEF KeptInv, UpdatesInv, MapInv, NoDelta, NoFrame
<1> QED BY <1>1, <1>2, <1>3, <1>4 DEF IInv, FramesInv

-----------------------------------------------------------------------------
(* The server sends an update.                                             *)

LEMMA WorldsWorld == Worlds \subseteq World
BY FramesAssumption DEF World

LEMMA FromFrameWorld ==
    ASSUME TypeOK, NEW world \in World
    PROVE  FromFrame(Filled(world)) \in World
<1>1. CASE delta_sequence = NoDelta
  BY <1>1, NoEntitiesWorld DEF FromFrame
<1>2. CASE delta_sequence # NoDelta
  <2>1. delta_sequence \in Nat
    BY <1>2 DEF TypeOK, SeqNr
  <2>2. RingSlot(delta_sequence) \in Slot
    BY <2>1, SlotType
  <2>3. frames[RingSlot(delta_sequence)].entities \in World
    BY <2>2 DEF TypeOK
  <2> QED BY <1>2, <2>2, <2>3 DEF FromFrame, Filled, TypeOK
<1> QED BY <1>1, <1>2

(* A base that is not overrun is still in the ring when the delta is taken. *)
LEMMA BaseInRing ==
    ASSUME IInv, NEW world \in World, delta_sequence # NoDelta,
           outgoing - claimed < SV_UPDATE_BACKUP
    PROVE  FromFrame(Filled(world)) = content[claimed]
<1>1. claimed \in 1 .. outgoing - 1 /\ delta_sequence = claimed % SeqNrs
  BY DEF IInv, FramesInv, TypeOK, KeptInv
<1>2. outgoing \in Nat /\ claimed \in Nat /\ claimed < outgoing
  BY <1>1 DEF IInv, FramesInv, TypeOK
<1>3. RingSlot(delta_sequence) = RingSlot(claimed)
  BY <1>1, <1>2, SlotOfByte
<1>4. RingSlot(claimed) # RingSlot(outgoing)
  BY <1>2, SlotsDiffer
<1>5. RingSlot(claimed) \in Slot
  BY <1>2, SlotType
<1>6. frames[RingSlot(claimed)].entities = content[claimed]
  BY <1>1, <1>2, Sizes DEF IInv, RingInv
<1>7. Filled(world)[RingSlot(claimed)] = frames[RingSlot(claimed)]
  BY <1>4, <1>5 DEF Filled, IInv, FramesInv, TypeOK
<1> QED BY <1>3, <1>6, <1>7 DEF FromFrame

LEMMA DatagramType ==
    ASSUME TypeOK, NEW world \in World, NEW cleared \in BOOLEAN
    PROVE  Datagram(world, cleared) \in Update
<1> DEFINE from == FromFrame(Filled(world))
<1>1. SV_CreatePacketEntities(from, world)
        \in [Ent -> {"none", "remove", "same"} \cup State]
  BY FromFrameWorld, WorldRoundTrip
<1> HIDE DEF from
<1>2. [e \in Ent |-> "none"] \in [Ent -> {"none", "remove", "same"} \cup State]
  OBVIOUS
<1>3. Datagram(world, cleared).ops \in [Ent -> {"none", "remove", "same"} \cup State]
  BY <1>1, <1>2 DEF Datagram, from
<1>4. outgoing \in Nat /\ delta_sequence \in SeqNr \cup {NoDelta}
  BY DEF TypeOK
<1> QED BY <1>3, <1>4 DEF Datagram, Update

LEMMA SendRing ==
    ASSUME IInv, NEW world \in World,
           frames' = Filled(world), outgoing' = outgoing + 1,
           content' = Append(content, world)
    PROVE  RingInv'
<1> USE DEF IInv, FramesInv
<1>1. outgoing \in Nat \ {0} /\ content \in Seq(World) /\ Len(content) = outgoing - 1
  BY DEF TypeOK
<1>2. content'[outgoing] = world
      /\ \A n \in 1 .. outgoing - 1 : content'[n] = content[n]
  BY <1>1
<1>3. RingSlot(outgoing) \in Slot
  BY <1>1, SlotType
<1>4. /\ frames'[RingSlot(outgoing)] =
            [senttime |-> outgoing, ping |-> -1, entities |-> world]
      /\ \A i \in Slot \ {RingSlot(outgoing)} : frames'[i] = frames[i]
  BY <1>3 DEF Filled, TypeOK
<1>5. \A n \in 0 .. outgoing - 1 :
        outgoing' - n <= SV_UPDATE_BACKUP =>
            /\ RingSlot(n) \in Slot \ {RingSlot(outgoing)}
            /\ outgoing - n <= SV_UPDATE_BACKUP
  <2> TAKE n \in 0 .. outgoing - 1
  <2> HAVE outgoing' - n <= SV_UPDATE_BACKUP
  <2>1. n \in Nat /\ n < outgoing /\ outgoing - n < SV_UPDATE_BACKUP
    BY <1>1, Sizes
  <2>2. RingSlot(n) # RingSlot(outgoing)
    BY <2>1, <1>1, SlotsDiffer
  <2>3. RingSlot(n) \in Slot
    BY <2>1, SlotType
  <2>4. outgoing - n <= SV_UPDATE_BACKUP
    BY <1>1, <2>1, Sizes
  <2> QED BY <2>2, <2>3, <2>4
<1>6. \A i \in Slot : frames'[i].senttime < outgoing'
  <2> TAKE i \in Slot
  <2>1. frames[i].senttime \in Nat
    BY DEF TypeOK
  <2> QED BY <1>1, <1>4, <2>1 DEF RingInv
<1>7. \A n \in 0 .. outgoing' - 1 :
        outgoing' - n <= SV_UPDATE_BACKUP => frames'[RingSlot(n)].senttime = n
  <2> TAKE n \in 0 .. outgoing' - 1
  <2>1. CASE n = outgoing
    BY <2>1, <1>4
  <2>2. CASE n \in 0 .. outgoing - 1
    BY <2>2, <1>4, <1>5 DEF RingInv
  <2> QED BY <1>1, <2>1, <2>2
<1>8. \A n \in 1 .. outgoing' - 1 :
        outgoing' - n <= SV_UPDATE_BACKUP
            => frames'[RingSlot(n)].entities = content'[n]
  <2> TAKE n \in 1 .. outgoing' - 1
  <2>1. CASE n = outgoing
    BY <2>1, <1>2, <1>4
  <2>2. CASE n \in 1 .. outgoing - 1
    <3> SUFFICES ASSUME outgoing' - n <= SV_UPDATE_BACKUP
                 PROVE  frames'[RingSlot(n)].entities = content'[n]
      OBVIOUS
    <3>1. n \in 0 .. outgoing - 1
      BY <1>1, <2>2
    <3>2. /\ RingSlot(n) \in Slot \ {RingSlot(outgoing)}
          /\ outgoing - n <= SV_UPDATE_BACKUP
      BY <3>1, <1>5
    <3>3. frames[RingSlot(n)].entities = content[n]
      BY <2>2, <3>2 DEF RingInv
    <3> QED BY <2>2, <3>2, <3>3, <1>2, <1>4
  <2> QED BY <1>1, <2>1, <2>2
<1> QED BY <1>6, <1>7, <1>8 DEF RingInv, RingSlot

(* The update sent can be undone at the frame it was taken from.            *)
LEMMA SendUpdates ==
    ASSUME IInv, NEW world \in World, NEW cleared \in BOOLEAN,
           outgoing' = outgoing + 1,
           down' = down \cup {Datagram(world, cleared)},
           content' = Append(content, world),
           overrun' = (overrun \/ (/\ delta_sequence # NoDelta
                                   /\ outgoing - claimed >= SV_UPDATE_BACKUP)),
           UNCHANGED <<client, claimed, delta_sequence>>
    PROVE  UpdatesInv'
<1> USE DEF IInv, FramesInv
<1>1. outgoing \in Nat \ {0} /\ content \in Seq(World) /\ Len(content) = outgoing - 1
  BY DEF TypeOK
<1>2. content'[outgoing] = world
      /\ \A n \in 1 .. outgoing - 1 : content'[n] = content[n]
  BY <1>1
<1>3. \A n : Kept(n)' <=> Kept(n)
  BY DEF Kept, client
<1>4. ASSUME NEW m \in down
      PROVE  /\ m.seq \in 1 .. outgoing' - 1
             /\ m.delta => m.from # NoDelta
             /\ m.delta /\ ~overrun' => \E n \in 1 .. outgoing' - 1 : TakenFrom(m, n)'
             /\ ~m.delta /\ m.entitynum =>
                    UncompressEntities(NoEntities, m.ops) = content'[m.seq]
  <2>1. /\ m.seq \in 1 .. outgoing - 1
        /\ m.delta => m.from # NoDelta
        /\ m.delta /\ ~overrun => \E n \in 1 .. outgoing - 1 : TakenFrom(m, n)
        /\ ~m.delta /\ m.entitynum =>
               UncompressEntities(NoEntities, m.ops) = content[m.seq]
    BY DEF UpdatesInv
  <2>2. content'[m.seq] = content[m.seq]
    BY <2>1, <1>2
  <2>3. ASSUME m.delta, ~overrun'
        PROVE  \E n \in 1 .. outgoing' - 1 : TakenFrom(m, n)'
    <3>1. PICK n \in 1 .. outgoing - 1 : TakenFrom(m, n)
      BY <2>1, <2>3
    <3>2. TakenFrom(m, n)'
      BY <3>1, <2>2, <1>2, <1>3 DEF TakenFrom
    <3> QED BY <3>1, <3>2, <1>1
  <2> QED BY <2>1, <2>2, <2>3, <1>1
<1>m. PICK m : m = Datagram(world, cleared)
  OBVIOUS
<1>f. PICK from : from = FromFrame(Filled(world))
  OBVIOUS
<1>5. /\ m.seq = outgoing /\ m.delta = (delta_sequence # NoDelta)
      /\ m.from = delta_sequence
      /\ m.entitynum = (~cleared /\ world # NoEntities)
      /\ ~cleared => m.ops = SV_CreatePacketEntities(from, world)
  BY <1>m, <1>f DEF Datagram
<1>6. m.entitynum => UncompressEntities(from, m.ops) = content'[outgoing]
  <2>1. from \in World
    BY <1>f, FromFrameWorld
  <2> QED BY <2>1, <1>2, <1>5, WorldRoundTrip, ZenonT(30)
<1>7. ASSUME delta_sequence # NoDelta, ~overrun'
      PROVE  \E n \in 1 .. outgoing' - 1 : TakenFrom(m, n)'
  <2>1. outgoing - claimed < SV_UPDATE_BACKUP
    <3>1. ~(outgoing - claimed >= SV_UPDATE_BACKUP)
      BY <1>7
    <3>2. claimed \in Int
      BY <1>1 DEF TypeOK
    <3> QED BY <3>1, <3>2, <1>1, Sizes
  <2>2. from = content[claimed]
    BY <1>f, <1>7, <2>1, BaseInRing
  <2>3. claimed # 0 /\ Kept(claimed) /\ delta_sequence = claimed % SeqNrs
    BY <1>7 DEF KeptInv
  <2>4. claimed \in 1 .. outgoing - 1
    BY <2>3 DEF TypeOK
  <2>5. PICK n : n = claimed
    OBVIOUS
  <2>6. content'[n] = from
    BY <2>2, <2>4, <2>5, <1>2
  <2>7. Kept(n)'
    BY <2>3, <2>5, <1>3
  <2>8. m.seq - n < SV_UPDATE_BACKUP /\ m.from = n % SeqNrs
    BY <2>1, <2>3, <2>5, <1>5
  <2>9. m.entitynum => UncompressEntities(content'[n], m.ops) = content'[m.seq]
    BY <2>6, <1>5, <1>6
  <2>10. TakenFrom(m, n)'
    BY <2>7, <2>8, <2>9 DEF TakenFrom
  <2> QED BY <2>4, <2>5, <2>10, <1>1
<1>8. ~m.delta => from = NoEntities
  BY <1>5, <1>f DEF FromFrame
<1>9. down' = down \cup {m}
  BY <1>m
<1>10. m.delta => m.from # NoDelta
  BY <1>5
<1>11. /\ m.seq \in 1 .. outgoing' - 1
       /\ m.delta => m.from # NoDelta
       /\ m.delta /\ ~overrun' => \E n \in 1 .. outgoing' - 1 : TakenFrom(m, n)'
       /\ ~m.delta /\ m.entitynum =>
              UncompressEntities(NoEntities, m.ops) = content'[m.seq]
  BY <1>1, <1>5, <1>6, <1>7, <1>8, <1>10
<1>12. ASSUME NEW q \in down'
       PROVE  /\ q.seq \in 1 .. outgoing' - 1
              /\ q.delta => q.from # NoDelta
              /\ q.delta /\ ~overrun' => \E n \in 1 .. outgoing' - 1 : TakenFrom(q, n)'
              /\ ~q.delta /\ q.entitynum =>
                     UncompressEntities(NoEntities, q.ops) = content'[q.seq]
  BY <1>4, <1>9, <1>11
<1> QED BY <1>12 DEF UpdatesInv

LEMMA SendStep ==
    ASSUME IInv, NEW world \in Worlds, NEW cleared \in BOOLEAN,
           SendClientDatagram(world, cleared)
    PROVE  IInv'
<1> USE DEF IInv, FramesInv
<1>1. world \in World
  BY WorldsWorld
<1>2. RingInv'
  BY <1>1, SendRing DEF SendClientDatagram
<1>3. UpdatesInv'
  BY <1>1, SendUpdates DEF SendClientDatagram
<1>4. TypeOK'
  <2>1. RingSlot(outgoing) \in Slot
    BY SlotType DEF TypeOK
  <2>2. Filled(world) \in [Slot -> [senttime : Nat, ping : Nat \cup {-1}, entities : World]]
    BY <1>1, <2>1 DEF Filled, TypeOK
  <2>3. Datagram(world, cleared) \in Update
    BY <1>1, DatagramType
  <2>4. content' \in Seq(World) /\ Len(content') = outgoing' - 1
    BY <1>1 DEF SendClientDatagram, TypeOK
  <2>5. overrun' \in BOOLEAN
    BY DEF SendClientDatagram, TypeOK
  <2>6. down' \subseteq Update
    BY <2>3 DEF SendClientDatagram, TypeOK
  <2>7. frames' \in [Slot -> [senttime : Nat, ping : Nat \cup {-1}, entities : World]]
    BY <2>2 DEF SendClientDatagram
  <2>8. seqNrMap' \in [SeqNr -> [seqnr : Nat, entities : World]] /\ missed' \in BOOLEAN
    BY DEF SendClientDatagram, TypeOK, client
  <2> QED BY <2>4, <2>5, <2>6, <2>7, <2>8 DEF SendClientDatagram, TypeOK, client
<1>5. EntitiesMatch'
  <2> SUFFICES ASSUME ~overrun', NEW b \in SeqNr, HasFrame(b)
               PROVE  seqNrMap[b].entities = content'[seqNrMap[b].seqnr]
    BY DEF EntitiesMatch, HasFrame, SendClientDatagram, client
  <2>1. ~overrun
    BY DEF SendClientDatagram
  <2>2. seqNrMap[b].entities = content[seqNrMap[b].seqnr]
    BY <2>1 DEF EntitiesMatch
  <2>3. seqNrMap[b].seqnr \in 1 .. outgoing - 1
    BY DEF MapInv, HasFrame, TypeOK
  <2>4. content'[seqNrMap[b].seqnr] = content[seqNrMap[b].seqnr]
    BY <2>3, <1>1, SMTT(30) DEF TypeOK, SendClientDatagram
  <2> QED BY <2>2, <2>4
<1>6. NeverTooOld'
  BY DEF NeverTooOld, SendClientDatagram, TypeOK
<1>7. KeptInv' /\ MapInv' /\ (up \subseteq Packet)'
  BY DEF KeptInv, Kept, MapInv, SendClientDatagram, client
<1> QED BY <1>2, <1>3, <1>4, <1>5, <1>6, <1>7

-----------------------------------------------------------------------------
(* The server reads a packet.                                              *)

LEMMA ExecuteStep ==
    ASSUME IInv, NEW p \in up, NEW fragments \in BOOLEAN,
           ExecuteClientMessage(p, fragments)
    PROVE  IInv'
<1> USE DEF IInv, FramesInv
<1>1. /\ p \in Packet /\ p.ack <= received
      /\ p.delta = IF p.valid = 0 THEN NoDelta ELSE p.valid % SeqNrs
      /\ p.valid # 0 => Kept(p.valid)
  BY DEF KeptInv
<1>2. PingSlot(p) \in Slot
  BY <1>1, SlotType DEF PingSlot, Packet
<1>3. frames' = [frames EXCEPT ![PingSlot(p)] = Measured(frames[PingSlot(p)])]
  BY DEF ExecuteClientMessage
<1>4. \A i \in Slot : /\ frames'[i].senttime = frames[i].senttime
                      /\ frames'[i].entities = frames[i].entities
                      /\ frames'[i] \in [senttime : Nat, ping : Nat \cup {-1}, entities : World]
  <2> TAKE i \in Slot
  <2>1. /\ frames[i] \in [senttime : Nat, ping : Nat \cup {-1}, entities : World]
        /\ outgoing \in Nat /\ frames[i].senttime < outgoing
    BY DEF TypeOK, RingInv
  <2>2. /\ Measured(frames[i]) \in [senttime : Nat, ping : Nat \cup {-1}, entities : World]
        /\ Measured(frames[i]).senttime = frames[i].senttime
        /\ Measured(frames[i]).entities = frames[i].entities
    BY <2>1 DEF Measured
  <2>3. frames'[i] = IF i = PingSlot(p) THEN Measured(frames[i]) ELSE frames[i]
    BY <1>2, <1>3 DEF TypeOK
  <2> QED BY <2>1, <2>2, <2>3
<1>5. RingInv'
  <2>1. \A n \in Nat : RingSlot(n) \in Slot
    BY SlotType
  <2> QED BY <1>4, <2>1, SMTT(30) DEF RingInv, ExecuteClientMessage, TypeOK, RingSlot
<1>6. TypeOK'
  <2>1. frames' \in [Slot -> [senttime : Nat, ping : Nat \cup {-1}, entities : World]]
    BY <1>3, <1>4 DEF TypeOK
  <2>2. claimed' \in 0 .. outgoing' - 1
    BY <1>1 DEF TypeOK, ExecuteClientMessage, Packet, Kept
  <2>3. delta_sequence' \in SeqNr \cup {NoDelta}
    BY <1>1 DEF ExecuteClientMessage, Packet
  <2>4. /\ outgoing' = outgoing /\ incoming' \in Nat /\ acknowledged' \in Nat
        /\ silent' \in Nat
    BY <1>1 DEF ExecuteClientMessage, Packet
  <2> QED BY <2>1, <2>2, <2>3, <2>4 DEF TypeOK, ExecuteClientMessage, client
<1>7. UpdatesInv' /\ EntitiesMatch' /\ NeverTooOld'
  <2>1. UNCHANGED <<outgoing, down, content, overrun, missed, client>>
    BY DEF ExecuteClientMessage
  <2>2. UpdatesInv'
    BY <2>1 DEF UpdatesInv, TakenFrom, Kept, UncompressEntities, client
  <2>3. EntitiesMatch'
    BY <2>1 DEF EntitiesMatch, HasFrame, client
  <2> QED BY <2>1, <2>2, <2>3 DEF NeverTooOld
<1>8. KeptInv' /\ MapInv' /\ (up \subseteq Packet)'
  BY <1>1 DEF KeptInv, Kept, MapInv, ExecuteClientMessage, client
<1> QED BY <1>5, <1>6, <1>7, <1>8

-----------------------------------------------------------------------------
(* The client.                                                             *)

(* A base that an update may still be taken from stays in the map.          *)
LEMMA KeptStays ==
    ASSUME IInv, NEW m \in down, ProcessMessage(m), NEW n, Kept(n)
    PROVE  Kept(n)'
<1> USE DEF IInv, FramesInv
<1>1. /\ n \in Nat /\ n >= 1 /\ n <= received
      /\ received \in Nat /\ m.seq \in Nat /\ m.seq > received /\ received' = m.seq
  BY DEF Kept, TypeOK, Update, ProcessMessage
<1>2. ASSUME n + SV_UPDATE_BACKUP > m.seq + 1
      PROVE  seqNrMap'[n % SeqNrs].seqnr = n
  <2>1. seqNrMap[n % SeqNrs].seqnr = n
    BY <1>1, <1>2, Sizes DEF Kept
  <2>2. n % SeqNrs # m.seq % SeqNrs
    <3>1. n < m.seq /\ m.seq - n < SV_UPDATE_BACKUP
      BY <1>1, <1>2, Sizes
    <3> QED BY <3>1, <1>1, SlotsDiffer
  <2>3. ~Removed(seqNrMap[n % SeqNrs], m.seq)
    <3>1. n + BufferLength >= m.seq
      BY <1>1, <1>2, Sizes, FramesAssumption
    <3> QED BY <1>1, <2>1, <3>1, FramesAssumption DEF Removed
  <2>4. n % SeqNrs \in SeqNr
    BY <1>1, SlotType
  <2>5. m.entitynum => seqNrMap'[n % SeqNrs] = seqNrMap[n % SeqNrs]
    BY <2>2, <2>3, <2>4 DEF ProcessMessage, AddFrame
  <2>6. ~m.entitynum => seqNrMap'[n % SeqNrs] = seqNrMap[n % SeqNrs]
    BY DEF ProcessMessage
  <2> QED BY <2>1, <2>5, <2>6
<1> QED BY <1>1, <1>2 DEF Kept

(* The client undoes an update at the frame it was taken from.              *)
LEMMA DecodedRight ==
    ASSUME IInv, NEW m \in down, ProcessMessage(m), m.entitynum
    PROVE  /\ Decoded(m) \in World
           /\ ~overrun => /\ m.delta => HasFrame(m.from)
                          /\ Decoded(m) = content[m.seq]
<1> USE DEF IInv, FramesInv
<1>1. m \in Update /\ m.seq \in 1 .. outgoing - 1 /\ m.seq > received
  BY DEF TypeOK, UpdatesInv, ProcessMessage
<1>2. CASE ~m.delta
  BY <1>1, <1>2, UncompressType, NoEntitiesWorld DEF Decoded, UpdatesInv, Update
<1>3. CASE m.delta
  <2>1. Decoded(m) \in World
    <3>1. CASE HasFrame(m.from)
      <4>1. m.from \in SeqNr
        BY <1>1, <1>3 DEF Update, UpdatesInv
      <4>2. seqNrMap[m.from].entities \in World
        BY <4>1 DEF TypeOK
      <4> QED BY <1>1, <1>3, <3>1, <4>2, UncompressType DEF Decoded, Update
    <3>2. CASE ~HasFrame(m.from)
      BY <1>3, <3>2, NoEntitiesWorld DEF Decoded
    <3> QED BY <3>1, <3>2
  <2>2. ASSUME ~overrun
        PROVE  HasFrame(m.from) /\ Decoded(m) = content[m.seq]
    <3>1. PICK n \in 1 .. outgoing - 1 : TakenFrom(m, n)
      BY <1>3, <2>2 DEF UpdatesInv
    <3>2. n + SV_UPDATE_BACKUP > received + 1
      BY <1>1, <3>1, Sizes DEF TakenFrom, Kept, TypeOK, Update
    <3>3. seqNrMap[m.from].seqnr = n
      BY <3>1, <3>2 DEF TakenFrom, Kept
    <3>4. m.from \in SeqNr
      BY <3>1, SlotType DEF TakenFrom
    <3>5. HasFrame(m.from)
      BY <3>3 DEF HasFrame
    <3>6. seqNrMap[m.from].entities = content[n]
      BY <2>2, <3>3, <3>4, <3>5 DEF EntitiesMatch
    <3> QED BY <1>3, <3>1, <3>5, <3>6 DEF Decoded, TakenFrom
  <2> QED BY <2>1, <2>2
<1> QED BY <1>2, <1>3

LEMMA ProcessStep ==
    ASSUME IInv, NEW m \in down, ProcessMessage(m)
    PROVE  IInv'
<1> USE DEF IInv, FramesInv
<1>1. /\ m \in Update /\ m.seq \in 1 .. outgoing - 1 /\ m.seq > received
      /\ received \in Nat /\ outgoing \in Nat
  BY DEF TypeOK, UpdatesInv, ProcessMessage
<1>2. /\ received' = m.seq /\ validSequence' = NewValid(m) /\ sent' = sent
      /\ outgoing' = outgoing /\ incoming' = incoming /\ acknowledged' = acknowledged
      /\ delta_sequence' = delta_sequence /\ frames' = frames /\ silent' = silent
      /\ up' = up /\ content' = content /\ claimed' = claimed /\ overrun' = overrun
      /\ down' \subseteq down
  BY DEF ProcessMessage, server
<1>3. m.seq % SeqNrs \in SeqNr
  BY <1>1, SlotType
<1>4. ASSUME m.entitynum, NEW b \in SeqNr
      PROVE  seqNrMap'[b] = IF b = m.seq % SeqNrs
                            THEN [seqnr |-> m.seq, entities |-> Decoded(m)]
                            ELSE IF Removed(seqNrMap[b], m.seq) THEN NoFrame
                            ELSE seqNrMap[b]
  BY <1>4 DEF ProcessMessage, AddFrame
<1>5. seqNrMap' \in [SeqNr -> [seqnr : Nat, entities : World]]
  <2>1. CASE ~m.entitynum
    BY <2>1 DEF ProcessMessage, TypeOK
  <2>2. CASE m.entitynum
    <3>1. \A b \in SeqNr : seqNrMap'[b] \in [seqnr : Nat, entities : World]
      <4> TAKE b \in SeqNr
      <4>1. /\ [seqnr |-> m.seq, entities |-> Decoded(m)] \in [seqnr : Nat, entities : World]
            /\ NoFrame \in [seqnr : Nat, entities : World]
            /\ seqNrMap[b] \in [seqnr : Nat, entities : World]
        BY <1>1, <2>2, DecodedRight, NoEntitiesWorld DEF NoFrame, TypeOK
      <4> QED BY <4>1, <2>2, <1>4
    <3> QED BY <2>2, <3>1 DEF ProcessMessage, AddFrame
  <2> QED BY <2>1, <2>2
<1>6. TypeOK'
  <2>1. validSequence' \in 0 .. received'
    BY <1>1, <1>2 DEF NewValid, TypeOK
  <2>2. missed' \in BOOLEAN
    BY DEF ProcessMessage
  <2> QED BY <1>1, <1>2, <1>5, <2>1, <2>2 DEF TypeOK
<1>7. MapInv'
  <2> SUFFICES ASSUME NEW b \in SeqNr
               PROVE  seqNrMap'[b].seqnr \in 0 .. received'
    BY DEF MapInv
  <2>1. seqNrMap[b].seqnr \in 0 .. received
    BY DEF MapInv
  <2>2. CASE ~m.entitynum
    BY <1>1, <1>2, <2>1, <2>2 DEF ProcessMessage
  <2>3. CASE m.entitynum
    BY <1>1, <1>2, <1>4, <2>1, <2>3 DEF NoFrame
  <2> QED BY <2>2, <2>3
<1>8. EntitiesMatch'
  <2> SUFFICES ASSUME ~overrun, NEW b \in SeqNr, seqNrMap'[b].seqnr # 0
               PROVE  seqNrMap'[b].entities = content[seqNrMap'[b].seqnr]
    BY <1>2 DEF EntitiesMatch, HasFrame
  <2>1. seqNrMap[b].seqnr # 0 => seqNrMap[b].entities = content[seqNrMap[b].seqnr]
    BY DEF EntitiesMatch, HasFrame
  <2>2. CASE ~m.entitynum
    BY <2>1, <2>2 DEF ProcessMessage
  <2>3. CASE m.entitynum
    <3>1. Decoded(m) = content[m.seq]
      BY <2>3, DecodedRight
    <3> QED BY <1>4, <2>1, <2>3, <3>1 DEF NoFrame
  <2> QED BY <2>2, <2>3
<1>9. NeverTooOld'
  <2>1. ~overrun /\ m.entitynum /\ m.delta => HasFrame(m.from)
    BY DecodedRight
  <2>2. missed' => missed \/ (m.entitynum /\ m.delta /\ ~HasFrame(m.from))
    BY DEF ProcessMessage
  <2> QED BY <1>2, <2>1, <2>2 DEF NeverTooOld
<1>10. m.entitynum => Kept(m.seq)'
  BY <1>1, <1>2, <1>3, <1>4 DEF Kept
<1>11. \A n : Kept(n) => Kept(n)'
  BY KeptStays
<1>12. KeptInv' /\ (up \subseteq Packet)'
  <2>1. validSequence' # 0 => Kept(validSequence)'
    <3>1. PICK v : v = validSequence'
      OBVIOUS
    <3>2. v # 0 => Kept(v)'
      BY <3>1, <1>2, <1>10, <1>11 DEF NewValid, KeptInv
    <3> QED BY <3>1, <3>2 DEF Kept
  <2>2. claimed' # 0 => Kept(claimed)'
    <3>1. PICK v : v = claimed
      OBVIOUS
    <3>2. v # 0 => Kept(v)'
      BY <3>1, <1>11 DEF KeptInv
    <3> QED BY <3>1, <3>2, <1>2 DEF Kept
  <2>3. \A p \in up : p \in Packet /\ p.ack <= received'
    BY <1>1, <1>2 DEF KeptInv, Packet
  <2>4. \A p \in up : /\ p.delta = IF p.valid = 0 THEN NoDelta ELSE p.valid % SeqNrs
                      /\ p.valid # 0 => Kept(p.valid)'
    BY <1>11 DEF KeptInv
  <2> QED BY <1>2, <2>1, <2>2, <2>3, <2>4 DEF KeptInv
<1>13. UpdatesInv'
  <2> SUFFICES ASSUME NEW q \in down'
               PROVE  /\ q.seq \in 1 .. outgoing' - 1
                      /\ q.delta => q.from # NoDelta
                      /\ q.delta /\ ~overrun' =>
                            \E n \in 1 .. outgoing' - 1 : TakenFrom(q, n)'
                      /\ ~q.delta /\ q.entitynum =>
                            UncompressEntities(NoEntities, q.ops) = content'[q.seq]
    BY DEF UpdatesInv
  <2>1. q \in down
    BY <1>2
  <2>2. \A n : TakenFrom(q, n) => TakenFrom(q, n)'
    BY <1>2, <1>11 DEF TakenFrom
  <2> QED BY <1>2, <2>1, <2>2 DEF UpdatesInv
<1>14. RingInv'
  BY <1>2 DEF RingInv, RingSlot
<1> QED BY <1>6, <1>7, <1>8, <1>9, <1>12, <1>13, <1>14

LEMMA SendCommandsStep ==
    ASSUME IInv, SendServerCommands
    PROVE  IInv'
<1> USE DEF IInv, FramesInv
<1>1. PICK p : p = [seq |-> sent + 1, ack |-> received,
                    delta |-> IF validSequence = 0 THEN NoDelta
                              ELSE validSequence % SeqNrs,
                    valid |-> validSequence]
  OBVIOUS
<1>2. up' = up \cup {p} /\ sent' = sent + 1
  BY <1>1 DEF SendServerCommands
<1>3. validSequence \in Nat /\ validSequence % SeqNrs \in SeqNr
  BY SlotType DEF TypeOK
<1>4. /\ p \in Packet /\ p.ack <= received
      /\ p.delta = IF p.valid = 0 THEN NoDelta ELSE p.valid % SeqNrs
      /\ p.valid # 0 => Kept(p.valid)
  BY <1>1, <1>3 DEF Packet, TypeOK, KeptInv
<1>5. TypeOK'
  BY <1>2 DEF TypeOK, SendServerCommands, server, history
<1>6. KeptInv' /\ (up \subseteq Packet)'
  BY <1>2, <1>4 DEF KeptInv, Kept, SendServerCommands, server, history
<1>7. RingInv' /\ UpdatesInv' /\ MapInv' /\ EntitiesMatch' /\ NeverTooOld'
  <2>1. UNCHANGED <<outgoing, frames, down, received, seqNrMap, history>>
    BY DEF SendServerCommands, server
  <2>2. RingInv' /\ MapInv'
    BY <2>1 DEF RingInv, MapInv, RingSlot, history
  <2>3. UpdatesInv'
    BY <2>1 DEF UpdatesInv, TakenFrom, Kept, UncompressEntities, history
  <2>4. EntitiesMatch' /\ NeverTooOld'
    BY <2>1 DEF EntitiesMatch, NeverTooOld, HasFrame, history
  <2> QED BY <2>2, <2>3, <2>4
<1> QED BY <1>5, <1>6, <1>7

LEMMA SetPauseStep ==
    ASSUME IInv, ParseSetPause
    PROVE  IInv'
<1> USE DEF IInv, FramesInv
<1>1. TypeOK'
  BY DEF TypeOK, ParseSetPause, server, history
<1>2. KeptInv' /\ (up \subseteq Packet)'
  BY DEF KeptInv, Kept, ParseSetPause, server, history
<1>3. RingInv' /\ UpdatesInv' /\ MapInv' /\ EntitiesMatch' /\ NeverTooOld'
  <2>1. UNCHANGED <<outgoing, frames, down, received, seqNrMap, history>>
    BY DEF ParseSetPause, server
  <2>2. RingInv' /\ MapInv'
    BY <2>1 DEF RingInv, MapInv, RingSlot, history
  <2>3. UpdatesInv'
    BY <2>1 DEF UpdatesInv, TakenFrom, Kept, UncompressEntities, history
  <2>4. EntitiesMatch' /\ NeverTooOld'
    BY <2>1 DEF EntitiesMatch, NeverTooOld, HasFrame, history
  <2> QED BY <2>2, <2>3, <2>4
<1> QED BY <1>1, <1>2, <1>3

LEMMA StutterStep ==
    ASSUME IInv, UNCHANGED vars
    PROVE  IInv'
BY DEF IInv, FramesInv, TypeOK, EntitiesMatch, NeverTooOld, RingInv, KeptInv,
       UpdatesInv, MapInv, HasFrame, TakenFrom, Kept, UncompressEntities,
       RingSlot, vars, server, client, history

LEMMA NextIInv == IInv /\ [Next]_vars => IInv'
<1> SUFFICES ASSUME IInv, [Next]_vars PROVE IInv'
  OBVIOUS
<1>1. ASSUME NEW world \in Worlds, NEW cleared \in BOOLEAN,
             SendClientDatagram(world, cleared)
      PROVE  IInv'
  BY <1>1, SendStep
<1>2. ASSUME NEW p \in up, NEW fragments \in BOOLEAN,
             ExecuteClientMessage(p, fragments)
      PROVE  IInv'
  BY <1>2, ExecuteStep
<1>3. ASSUME NEW m \in down, ProcessMessage(m)
      PROVE  IInv'
  BY <1>3, ProcessStep
<1>4. CASE SendServerCommands
  BY <1>4, SendCommandsStep
<1>5. CASE ParseSetPause
  BY <1>5, SetPauseStep
<1>6. CASE UNCHANGED vars
  BY <1>6, StutterStep
<1> QED BY <1>1, <1>2, <1>3, <1>4, <1>5, <1>6 DEF Next

-----------------------------------------------------------------------------
(* The theorems.                                                           *)

(* Every frame the client has put together holds the entities the server    *)
(* sent in it, and no update is too old for it, unless a delta was taken     *)
(* against a slot of the ring that had been written again: through any      *)
(* losses, repeats and delays, for every ring and every byte whose number   *)
(* of values the ring divides.                                              *)
THEOREM FramesHold == Spec => []FramesInv
<1>1. Spec => []IInv
  BY InitIInv, NextIInv, PTL DEF Spec
<1>2. IInv => FramesInv
  BY DEF IInv
<1> QED BY <1>1, <1>2, PTL

(* A packet that acknowledges a frame at most a whole ring old has its ping *)
(* measured on that frame.                                                  *)
THEOREM PingsOfAcknowledged == Spec => PingOfAcknowledged
<1>1. ASSUME IInv, [Next]_vars, NEW i \in Slot,
             frames'[i].ping # frames[i].ping, outgoing' = outgoing
      PROVE  \/ frames[i].senttime = acknowledged'
             \/ outgoing - acknowledged' > SV_UPDATE_BACKUP
  <2>1. PICK p \in up, fragments \in BOOLEAN : ExecuteClientMessage(p, fragments)
    <3>1. ~ UNCHANGED frames
      BY <1>1
    <3>2. \A world, cleared : ~ SendClientDatagram(world, cleared)
      BY <1>1 DEF SendClientDatagram, IInv, FramesInv, TypeOK
    <3> QED BY <1>1, <3>1, <3>2 DEF Next, vars, server, ProcessMessage,
                                    SendServerCommands, ParseSetPause
  <2>2. /\ p.ack \in Nat /\ p.ack <= received /\ received < outgoing
        /\ outgoing \in Nat /\ received \in Nat
    BY <1>1 DEF IInv, FramesInv, KeptInv, Packet, TypeOK
  <2>3. i = RingSlot(p.ack)
    BY <1>1, <2>1 DEF ExecuteClientMessage, PingSlot, IInv, FramesInv, TypeOK
  <2>4. outgoing - p.ack <= SV_UPDATE_BACKUP => frames[RingSlot(p.ack)].senttime = p.ack
    BY <1>1, <2>2 DEF IInv, RingInv
  <2>5. acknowledged' = p.ack
    BY <2>1 DEF ExecuteClientMessage
  <2> QED BY <2>2, <2>3, <2>4, <2>5, Sizes
<1>2. IInv /\ [Next]_vars =>
        [\A i \in Slot :
            /\ frames'[i].ping # frames[i].ping
            /\ outgoing' = outgoing
            => \/ frames[i].senttime = acknowledged'
               \/ outgoing - acknowledged' > SV_UPDATE_BACKUP]_vars
  BY <1>1
<1>3. Spec => []IInv
  BY InitIInv, NextIInv, PTL DEF Spec
<1> QED BY <1>2, <1>3, PTL DEF Spec, PingOfAcknowledged

-----------------------------------------------------------------------------
(* Datagrams in parts                                                      *)

LEMMA DivFacts ==
    ASSUME NEW a \in Nat, NEW b \in Nat \ {0}
    PROVE  /\ a \div b \in Nat
           /\ b * (a \div b) <= a
           /\ a < b * (a \div b) + b
  BY Z3

LEMMA Monotone ==
    ASSUME NEW s \in Nat \ {0}, NEW a \in Nat, NEW b \in Nat, s * a < s * b
    PROVE  a < b
  BY Z3

LEMMA CountFacts ==
    ASSUME NEW len \in Length
    PROVE  /\ len \in Nat /\ len <= MAX_UDP_PACKET
           /\ Count(len) \in 1 .. MAX_SPLIT_FRAGMENTS
           /\ SPLIT_SIZE * (Count(len) - 1) < len
           /\ len <= SPLIT_SIZE * (Count(len) - 1) + SPLIT_SIZE
<1> DEFINE a == len + SPLIT_SIZE - 1
           c == a \div SPLIT_SIZE
<1>1. len \in Nat /\ len > 0 /\ len <= MAX_UDP_PACKET /\ a \in Nat
  BY SizeAssumption
<1>2. c \in Nat /\ SPLIT_SIZE * c <= a /\ a < SPLIT_SIZE * c + SPLIT_SIZE
  BY <1>1, DivFacts, SizeAssumption
<1>3. c # 0
  BY <1>1, <1>2, SizeAssumption
<1>4. SPLIT_SIZE * (c - 1) = SPLIT_SIZE * c - SPLIT_SIZE
  BY <1>2, SizeAssumption
<1>5. SPLIT_SIZE * (c - 1) < len /\ len <= SPLIT_SIZE * (c - 1) + SPLIT_SIZE
  BY <1>1, <1>2, <1>4, SizeAssumption
<1>6. c - 1 < MAX_SPLIT_FRAGMENTS
  BY <1>1, <1>2, <1>3, <1>5, Monotone, SizeAssumption
<1> QED
  BY <1>1, <1>2, <1>3, <1>5, <1>6, SizeAssumption DEF Count

LEMMA PartFacts ==
    ASSUME NEW no, NEW seq, NEW len \in Length, NEW p \in Parts(no, seq, len)
    PROVE  /\ p.no = no /\ p.seq = seq /\ p.count = Count(len)
           /\ p.number \in 0 .. Count(len) - 1
           /\ p.number \in Number
           /\ p.size \in Nat
           /\ SPLIT_SIZE * p.number + p.size <= len
           /\ p.number = Count(len) - 1
                => p.size + SPLIT_SIZE * (p.count - 1) = len
<1>1. PICK i \in 0 .. Count(len) - 1 : p = Part(no, seq, len, i)
  BY DEF Parts
<1>2. /\ len \in Nat
      /\ Count(len) \in 1 .. MAX_SPLIT_FRAGMENTS
      /\ SPLIT_SIZE * (Count(len) - 1) < len
      /\ len <= SPLIT_SIZE * (Count(len) - 1) + SPLIT_SIZE
  BY CountFacts
<1>3. p.no = no /\ p.seq = seq /\ p.count = Count(len) /\ p.number = i
      /\ p.size = Least(SPLIT_SIZE, len - i * SPLIT_SIZE)
  BY <1>1 DEF Part
<1>4. i \in Nat /\ i <= Count(len) - 1 /\ i \in Number
  BY <1>2, SizeAssumption DEF Number
<1>5. SPLIT_SIZE * i <= SPLIT_SIZE * (Count(len) - 1) /\ i * SPLIT_SIZE = SPLIT_SIZE * i
      /\ SPLIT_SIZE * i \in Nat
  BY <1>2, <1>4, Z3, SizeAssumption
<1>6. p.size \in Nat /\ p.size <= len - SPLIT_SIZE * i
  BY <1>2, <1>3, <1>5, SizeAssumption DEF Least
<1>7. i = Count(len) - 1 => p.size = len - SPLIT_SIZE * i
  BY <1>2, <1>3, <1>5, SizeAssumption DEF Least
<1> QED
  BY <1>2, <1>3, <1>4, <1>5, <1>6, <1>7

-----------------------------------------------------------------------------
(* The state of the receiver.                                              *)

SplitType ==
    [currentSequence : {None} \cup Nat, splitCount : Int,
     totalSize : 0 .. MAX_UDP_PACKET,
     flags : [Number -> {None} \cup Nat],
     buffer : [Number -> Nat \X Number]]

Marks(st) == {i \in Number : st.flags[i] = st.currentSequence}

(* The receiver is putting datagram no together. *)
Building(st, no) ==
    /\ st.currentSequence = no + 1
    /\ \A i \in Number : st.flags[i] = no + 1 =>
         i \in 0 .. Count(datagrams[no]) - 1 /\ st.buffer[i] = <<no, i>>
    /\ st.flags[Count(datagrams[no]) - 1] = no + 1 => st.totalSize = datagrams[no]
    /\ st.splitCount = Count(datagrams[no]) - Cardinality(Marks(st))

SplitInv ==
    split.currentSequence # None =>
        split.splitCount > 0 /\ \E no \in 1 .. Len(datagrams) : Building(split, no)

(* Every part of the run is of one datagram, which has been handed up or   *)
(* is being put together with all the parts of the run in it.              *)
RunInv ==
    /\ \A p, q \in run : p.no = q.no
    /\ \A p \in run : \/ AsSent(p.no) \in handed
                      \/ /\ split.currentSequence = p.no + 1
                         /\ p.number \in Marks(split)

SplitIInv == SplitTypeOK /\ Whole /\ NoSplitError /\ SplitInv /\ RunInv

LEMMA SentPart ==
    ASSUME SplitTypeOK, NEW p \in net \cup run
    PROVE  /\ p.no \in 1 .. Len(datagrams) /\ datagrams[p.no] \in Length
           /\ p.seq = p.no + 1 /\ p.count = Count(datagrams[p.no])
           /\ p.count \in 1 .. MAX_SPLIT_FRAGMENTS
           /\ p.number \in 0 .. p.count - 1 /\ p.number \in Number
           /\ p.size \in Nat
           /\ SPLIT_SIZE * p.number + p.size <= MAX_UDP_PACKET
           /\ p.number = p.count - 1
                => p.size + SPLIT_SIZE * (p.count - 1) = datagrams[p.no]
<1>1. p.no \in 1 .. Len(datagrams) /\ datagrams[p.no] \in Length
      /\ p \in Parts(p.no, p.no + 1, datagrams[p.no])
  BY DEF SplitTypeOK, PartsOf
<1>2. datagrams[p.no] \in Nat /\ datagrams[p.no] <= MAX_UDP_PACKET
  BY <1>1, CountFacts
<1>3. Count(datagrams[p.no]) \in 1 .. MAX_SPLIT_FRAGMENTS
  BY <1>1, CountFacts
<1>4. PICK len \in Length : len = datagrams[p.no]
  BY <1>1
<1>7. /\ p.seq = p.no + 1 /\ p.count = Count(len)
      /\ p.number \in 0 .. Count(len) - 1
      /\ p.number \in Number /\ p.size \in Nat
      /\ SPLIT_SIZE * p.number + p.size <= len
      /\ p.number = Count(len) - 1 => p.size + SPLIT_SIZE * (p.count - 1) = len
  <2>1. p \in Parts(p.no, p.no + 1, len)
    BY <1>1, <1>4
  <2> QED
    BY <2>1, PartFacts
<1>5. p.number \in Nat
  BY <1>7 DEF Number
<1>8. SPLIT_SIZE * p.number \in Nat
  BY <1>5, Z3, SizeAssumption
<1>6. SPLIT_SIZE * p.number + p.size <= MAX_UDP_PACKET
  BY <1>2, <1>4, <1>7, <1>8, SizeAssumption
<1> QED
  BY <1>1, <1>3, <1>4, <1>6, <1>7

LEMMA MarksFinite ==
    ASSUME NEW st PROVE IsFiniteSet(Marks(st))
<1>1. IsFiniteSet(Number)
  BY FS_Interval, SizeAssumption DEF Number
<1> QED
  BY <1>1, FS_Subset DEF Marks

(* A part of the datagram being put together leaves it alone; one of       *)
(* another begins anew.                                                    *)
LEMMA RestartBuilds ==
    ASSUME SplitIInv, NEW p \in net
    PROVE  /\ Restart(split, p) \in SplitType
           /\ Building(Restart(split, p), p.no)
           /\ split.currentSequence = p.seq => Restart(split, p) = split
<1>1. p.no \in 1 .. Len(datagrams) /\ p.seq = p.no + 1 /\ p.count = Count(datagrams[p.no])
      /\ p.count \in 1 .. MAX_SPLIT_FRAGMENTS
  BY SentPart DEF SplitIInv
<1>2. split \in SplitType
  BY DEF SplitIInv, SplitTypeOK, SplitType
<1>3. Len(datagrams) \in Nat
  BY DEF SplitIInv, SplitTypeOK
<1>4. CASE split.currentSequence = p.seq
  <2>1. split.currentSequence # None
    BY <1>1, <1>3, <1>4 DEF None
  <2>2. PICK no \in 1 .. Len(datagrams) : Building(split, no)
    BY <2>1 DEF SplitIInv, SplitInv
  <2>3. no = p.no
    BY <1>1, <1>3, <1>4, <2>2 DEF Building
  <2> QED
    BY <1>2, <1>4, <2>2, <2>3 DEF Restart
<1>5. CASE split.currentSequence # p.seq
  <2> DEFINE st == Restart(split, p)
  <2>1. st = [split EXCEPT !.currentSequence = p.seq, !.splitCount = p.count,
                           !.totalSize = 0, !.flags = NoFlags]
    BY <1>5 DEF Restart
  <2>2. st = [currentSequence |-> p.seq, splitCount |-> p.count, totalSize |-> 0,
              flags |-> NoFlags, buffer |-> split.buffer]
    BY <1>2, <2>1 DEF SplitType
  <2>7. NoFlags \in [Number -> {None} \cup Nat]
    BY DEF NoFlags
  <2>8. st \in SplitType /\ st.currentSequence = p.seq /\ st.splitCount = p.count
        /\ st.flags = NoFlags
    BY <1>1, <1>2, <1>3, <2>2, <2>7, SizeAssumption DEF SplitType
  <2>3. p.seq # None /\ \A i \in Number : st.flags[i] # p.seq
    BY <1>1, <1>3, <2>8 DEF None, NoFlags
  <2>4. Marks(st) = {}
    BY <2>8, <2>3 DEF Marks
  <2>5. Cardinality(Marks(st)) = 0
    BY <2>4, FS_EmptySet
  <2>6. Count(datagrams[p.no]) - 1 \in Number
    BY <1>1, SizeAssumption DEF Number
  <2> QED
    BY <1>1, <1>5, <2>8, <2>3, <2>5, <2>6 DEF Building
<1> QED
  BY <1>4, <1>5

(* Storing a part counts it once.                                          *)
LEMMA StoreBuilds ==
    ASSUME SplitTypeOK, NEW p \in net, NEW st \in SplitType, Building(st, p.no)
    PROVE  /\ Store(st, p) \in SplitType
           /\ Building(Store(st, p), p.no)
           /\ Marks(Store(st, p)) = Marks(st) \cup {p.number}
<1>1. /\ p.no \in 1 .. Len(datagrams) /\ datagrams[p.no] \in Length
      /\ p.seq = p.no + 1 /\ p.count = Count(datagrams[p.no])
      /\ p.count \in 1 .. MAX_SPLIT_FRAGMENTS
      /\ p.number \in 0 .. p.count - 1 /\ p.number \in Number
      /\ p.size \in Nat
      /\ p.number = p.count - 1
           => p.size + SPLIT_SIZE * (p.count - 1) = datagrams[p.no]
  BY SentPart
<1>2. Len(datagrams) \in Nat /\ p.no \in Nat /\ p.seq \in Nat
  BY <1>1, SMTT(30) DEF SplitTypeOK
<1>3. CASE IsDuplicate(st, p)
  <2>1. Store(st, p) = st
    BY <1>3 DEF Store
  <2>2. st.flags[p.number] = p.seq /\ st.currentSequence = p.seq
    BY <1>1, <1>3 DEF IsDuplicate, Building
  <2>3. p.number \in Marks(st)
    BY <1>1, <2>2 DEF Marks
  <2> QED
    BY <2>1, <2>3
<1>4. CASE ~IsDuplicate(st, p)
  <2> DEFINE new == Store(st, p)
             total == IF p.number = p.count - 1
                      THEN p.size + SPLIT_SIZE * (p.count - 1) ELSE st.totalSize
             flags == [st.flags EXCEPT ![p.number] = p.seq]
             buffer == [st.buffer EXCEPT ![p.number] = <<p.no, p.number>>]
  <2>1. new = [currentSequence |-> st.currentSequence,
               splitCount |-> st.splitCount - 1,
               totalSize |-> total,
               flags |-> flags, buffer |-> buffer]
    <3> DEFINE marked == [currentSequence |-> st.currentSequence,
                          splitCount |-> st.splitCount - 1,
                          totalSize |-> total, flags |-> flags,
                          buffer |-> st.buffer]
    <3>3. Mark(st, p) = [st EXCEPT !.totalSize = total, !.splitCount = st.splitCount - 1,
                                   !.flags = flags]
      BY DEF Mark
    <3>4. st = [currentSequence |-> st.currentSequence, splitCount |-> st.splitCount,
                totalSize |-> st.totalSize, flags |-> st.flags, buffer |-> st.buffer]
      BY DEF SplitType
    <3> HIDE DEF total, flags
    <3>1. Mark(st, p) = marked
      BY <3>3, <3>4
    <3> USE DEF total, flags
    <3>2. new = Copy(marked, p)
      BY <1>4, <3>1 DEF Store
    <3> QED
      BY <3>2 DEF Copy
  <2>2. total \in 0 .. MAX_UDP_PACKET
    <3>3. datagrams[p.no] \in Nat /\ datagrams[p.no] <= MAX_UDP_PACKET
      BY <1>1, CountFacts
    <3>1. datagrams[p.no] \in 0 .. MAX_UDP_PACKET
      BY <3>3, SizeAssumption
    <3>2. st.totalSize \in 0 .. MAX_UDP_PACKET
      BY DEF SplitType
    <3> QED
      BY <1>1, <3>1, <3>2
  <2>3. /\ new.currentSequence = st.currentSequence
        /\ new.splitCount = st.splitCount - 1
        /\ new.totalSize = total
        /\ new.flags = [st.flags EXCEPT ![p.number] = p.seq]
        /\ new.buffer = [st.buffer EXCEPT ![p.number] = <<p.no, p.number>>]
    BY <2>1
  <2>4. new \in SplitType
    <3>1. st.currentSequence \in {None} \cup Nat /\ st.splitCount - 1 \in Int
      BY DEF SplitType
    <3>2. flags \in [Number -> {None} \cup Nat]
      BY <1>1, <1>2 DEF SplitType
    <3>3. buffer \in [Number -> Nat \X Number]
      BY <1>1, <1>2 DEF SplitType
    <3> HIDE DEF flags, buffer, total
    <3> QED
      BY <2>1, <2>2, <3>1, <3>2, <3>3 DEF SplitType
  <2>5. p.number \notin Marks(st)
    BY <1>1, <1>4 DEF Marks, IsDuplicate, Building
  <2>6. Marks(new) = Marks(st) \cup {p.number}
    BY <1>1, <2>3, ZenonT(30) DEF Marks, Building, SplitType
  <2>7. Cardinality(Marks(new)) = Cardinality(Marks(st)) + 1
    BY <2>5, <2>6, MarksFinite, FS_AddElement
  <2>8. Cardinality(Marks(st)) \in Nat
    BY MarksFinite, FS_CardinalityType
  <2>9. new.splitCount = Count(datagrams[p.no]) - Cardinality(Marks(new))
    BY <1>1, <2>3, <2>7, <2>8 DEF Building
  <2>10. \A i \in Number : new.flags[i] = p.no + 1 =>
           i \in 0 .. Count(datagrams[p.no]) - 1 /\ new.buffer[i] = <<p.no, i>>
    <3>1. /\ \A i \in Number : i # p.number =>
               new.flags[i] = st.flags[i] /\ new.buffer[i] = st.buffer[i]
          /\ new.buffer[p.number] = <<p.no, p.number>>
      BY <1>1, <2>3 DEF SplitType
    <3> QED
      BY <1>1, <3>1 DEF Building
  <2>11. new.flags[Count(datagrams[p.no]) - 1] = p.no + 1 => new.totalSize = datagrams[p.no]
    <3>1. Count(datagrams[p.no]) - 1 \in Number
      BY <1>1, SizeAssumption DEF Number
    <3> QED
      BY <1>1, <2>3, <3>1 DEF Building, SplitType
  <2>12. new.currentSequence = p.no + 1
    BY <2>3 DEF Building
  <2> QED
    BY <2>4, <2>6, <2>9, <2>10, <2>11, <2>12 DEF Building
<1> QED
  BY <1>3, <1>4

(* splitCount is never negative, and at zero every part is there.          *)
LEMMA CountedOut ==
    ASSUME NEW st \in SplitType, NEW no \in Nat, datagrams[no] \in Length, Building(st, no)
    PROVE  /\ st.splitCount \in Nat
           /\ st.splitCount = 0 <=> \A i \in 0 .. Count(datagrams[no]) - 1 : i \in Marks(st)
<1> DEFINE n == Count(datagrams[no])
           all == 0 .. n - 1
<1>1. n \in 1 .. MAX_SPLIT_FRAGMENTS
  BY CountFacts
<1>2. IsFiniteSet(all) /\ Cardinality(all) = n
  BY <1>1, FS_Interval
<1>3. Marks(st) \in SUBSET all
  BY DEF Marks, Building
<1>4. Cardinality(Marks(st)) <= n /\ (n = Cardinality(Marks(st)) => all = Marks(st))
  BY <1>2, <1>3, FS_Subset
<1>5. Cardinality(Marks(st)) \in Nat
  BY MarksFinite, FS_CardinalityType
<1>6. (\A i \in all : i \in Marks(st)) => all = Marks(st)
  BY <1>3
<1>7. all = Marks(st) => n = Cardinality(Marks(st))
  BY <1>2
<1> QED
  BY <1>1, <1>3, <1>4, <1>5, <1>6, <1>7 DEF Building

-----------------------------------------------------------------------------
(* The steps.                                                              *)

LEMMA InitInv == SplitInit => SplitIInv
<1> SUFFICES ASSUME SplitInit PROVE SplitIInv
  OBVIOUS
<1>1. datagrams = <<>> /\ Len(datagrams) = 0 /\ datagrams \in Seq(Length)
  BY DEF SplitInit
<1>2. NoFlags \in [Number -> {None} \cup Nat]
  BY DEF NoFlags
<1>3. [i \in Number |-> <<0, i>>] \in [Number -> Nat \X Number]
  OBVIOUS
<1>4. SplitTypeOK
  <2> DEFINE buffer == [i \in Number |-> <<0, i>>]
  <2>1. split = [currentSequence |-> None, splitCount |-> 0, totalSize |-> 0,
                 flags |-> NoFlags, buffer |-> buffer]
    BY DEF SplitInit
  <2>2. 0 \in 0 .. MAX_UDP_PACKET
    BY SizeAssumption
  <2> HIDE DEF buffer
  <2>3. buffer \in [Number -> Nat \X Number]
    BY <1>3 DEF buffer
  <2>4. split \in [currentSequence : {None} \cup Nat, splitCount : Nat,
                   totalSize : 0 .. MAX_UDP_PACKET,
                   flags : [Number -> {None} \cup Nat],
                   buffer : [Number -> Nat \X Number]]
    BY <1>2, <2>1, <2>2, <2>3
  <2>5. net \cup run = {}
    BY DEF SplitInit
  <2>6. failed \in BOOLEAN
    BY Zenon DEF SplitInit
  <2>7. gSequenceNumber = Len(datagrams) + 1
    BY <1>1 DEF SplitInit
  <2> QED
    BY <1>1, <2>4, <2>5, <2>6, <2>7 DEF SplitTypeOK
<1> QED
  BY <1>4 DEF SplitInit, SplitIInv, Whole, NoSplitError, SplitInv, RunInv

(* A datagram more changes nothing of the earlier ones.                    *)
LEMMA SendLongInv ==
    ASSUME SplitIInv, NEW len \in Length, SendLong(len)
    PROVE  SplitIInv'
<1>1. datagrams \in Seq(Length) /\ Len(datagrams) \in Nat /\ gSequenceNumber = Len(datagrams) + 1
  BY DEF SplitIInv, SplitTypeOK
<1>2. datagrams' = Append(datagrams, len) /\ UNCHANGED <<split, handed, failed, run>>
      /\ gSequenceNumber' = gSequenceNumber + 1
      /\ net' \subseteq net \cup Parts(Len(datagrams) + 1, gSequenceNumber + 1, len)
  BY DEF SendLong, NextSequence
<1>3. datagrams' \in Seq(Length) /\ Len(datagrams') = Len(datagrams) + 1
      /\ datagrams'[Len(datagrams) + 1] = len
      /\ \A no \in 1 .. Len(datagrams) : datagrams'[no] = datagrams[no]
  BY <1>1, <1>2
<1>4. \A no \in 1 .. Len(datagrams) : no \in 1 .. Len(datagrams') /\ AsSent(no)' = AsSent(no)
                                 /\ PartsOf(no)' = PartsOf(no)
  <2> SUFFICES ASSUME NEW no \in 1 .. Len(datagrams)
               PROVE  no \in 1 .. Len(datagrams') /\ AsSent(no)' = AsSent(no)
                      /\ PartsOf(no)' = PartsOf(no)
    OBVIOUS
  <2>1. datagrams'[no] = datagrams[no]
    BY <1>3
  <2>2. no \in 1 .. Len(datagrams')
    BY <1>1, <1>3
  <2>3. AsSent(no)' = AsSent(no)
    BY <2>1 DEF AsSent
  <2>4. PartsOf(no)' = PartsOf(no)
    BY <2>1 DEF PartsOf
  <2> QED
    BY <2>2, <2>3, <2>4
<1>5. SplitTypeOK'
  <2>1. \A p \in net \cup run : p.no \in 1 .. Len(datagrams') /\ p \in PartsOf(p.no)'
    BY <1>4 DEF SplitIInv, SplitTypeOK
  <2>2. ASSUME NEW p \in Parts(Len(datagrams) + 1, gSequenceNumber + 1, len)
        PROVE  p.no \in 1 .. Len(datagrams') /\ p \in PartsOf(p.no)'
    <3>1. p.no = Len(datagrams) + 1
      BY PartFacts
    <3>2. PartsOf(p.no)' = Parts(Len(datagrams) + 1, gSequenceNumber + 1, len)
      BY <1>1, <1>3, <3>1 DEF PartsOf
    <3> QED
      BY <1>1, <1>3, <3>1, <3>2
  <2>3. \A p \in (net \cup run)' : p.no \in 1 .. Len(datagrams') /\ p \in PartsOf(p.no)'
    BY <1>2, <2>1, <2>2
  <2>4. gSequenceNumber' = Len(datagrams') + 1
    BY <1>1, <1>2, <1>3
  <2> QED
    BY <1>2, <1>3, <2>3, <2>4 DEF SplitIInv, SplitTypeOK
<1>6. Whole' /\ NoSplitError'
  BY <1>2, <1>4 DEF SplitIInv, Whole, NoSplitError
<1>7. SplitInv'
  <2> SUFFICES ASSUME split.currentSequence # None
               PROVE  split.splitCount > 0
                      /\ \E no \in 1 .. Len(datagrams') : Building(split, no)'
    BY <1>2 DEF SplitInv
  <2>1. PICK no \in 1 .. Len(datagrams) : Building(split, no)
    BY DEF SplitIInv, SplitInv
  <2>2. datagrams'[no] = datagrams[no] /\ no \in 1 .. Len(datagrams')
    BY <1>3, <1>4
  <2>3. Building(split, no)'
    BY <1>2, <2>1, <2>2 DEF Building, Marks
  <2> QED
    BY <2>2, <2>3 DEF SplitIInv, SplitInv
<1>8. RunInv'
  <2>1. \A p \in run : p.no \in 1 .. Len(datagrams)
    BY DEF SplitIInv, SplitTypeOK
  <2> QED
    BY <1>2, <1>4, <2>1 DEF SplitIInv, RunInv, Marks
<1> QED
  BY <1>5, <1>6, <1>7, <1>8 DEF SplitIInv

(* A part read by the receiver, GetLong's returns one by one.              *)
LEMMA ReceiveInv ==
    ASSUME SplitIInv, NEW p \in net, Receive(p)
    PROVE  SplitIInv'
<1> DEFINE st == Restart(split, p)
           new == Store(st, p)
           last == Count(datagrams[p.no]) - 1
<1>1. /\ p.no \in 1 .. Len(datagrams) /\ datagrams[p.no] \in Length
      /\ p.seq = p.no + 1 /\ p.count = Count(datagrams[p.no])
      /\ p.count \in 1 .. MAX_SPLIT_FRAGMENTS
      /\ p.number \in 0 .. p.count - 1 /\ p.number \in Number
      /\ SPLIT_SIZE * p.number + p.size <= MAX_UDP_PACKET
      /\ p.size \in Nat
  BY SentPart DEF SplitIInv
<1>2. Len(datagrams) \in Nat /\ p.no \in Nat
  BY <1>1, SMTT(30) DEF SplitIInv, SplitTypeOK
<1>3. /\ st \in SplitType /\ Building(st, p.no)
      /\ split.currentSequence = p.seq => st = split
  BY RestartBuilds
<1>4. /\ new \in SplitType /\ Building(new, p.no)
      /\ Marks(new) = Marks(st) \cup {p.number}
  BY <1>3, StoreBuilds DEF SplitIInv
<1>5. /\ new.splitCount \in Nat
      /\ new.splitCount = 0 <=> \A i \in 0 .. last : i \in Marks(new)
  BY <1>1, <1>2, <1>4, CountedOut
<1>6. ~Malformed(p)
  BY <1>1, SizeAssumption DEF Malformed, Number
<1>7. ~PartTooLarge(st, p)
  <2> HIDE DEF st
  <2>1. p.number \in Nat
    BY <1>1 DEF Number
  <2>2. SPLIT_SIZE * p.number \in Nat
    BY <2>1, Z3, SizeAssumption
  <2>3. ~(SPLIT_SIZE * p.number + p.size > MAX_UDP_PACKET)
    BY <1>1, <2>2, SizeAssumption
  <2> QED
    BY <2>3 DEF PartTooLarge
<1>8. UNCHANGED <<gSequenceNumber, datagrams, net>>
      /\ run' = {q \in run : q.no = p.no} \cup {p}
  BY DEF Receive
<1>9. \A q \in run' : q.no = p.no /\ (q \in run \/ q = p)
  BY <1>8
<1>10. new.currentSequence = p.no + 1
  BY <1>4 DEF Building
<1>11. \A q \in (net \cup run)' : q.no \in 1 .. Len(datagrams') /\ q \in PartsOf(q.no)'
  BY <1>8, <1>9 DEF SplitIInv, SplitTypeOK, PartsOf
<1>12. CASE new.splitCount > 0
  <2>1. split' = new /\ UNCHANGED <<handed, failed>>
    BY <1>6, <1>7, <1>12 DEF Receive, GetLong
  <2>2. SplitTypeOK'
    BY <1>4, <1>5, <1>8, <1>11, <2>1 DEF SplitIInv, SplitTypeOK, SplitType
  <2>3. Whole' /\ NoSplitError'
    BY <1>8, <2>1 DEF SplitIInv, Whole, NoSplitError, AsSent
  <2>4. Building(split, p.no)'
    BY <1>4, <1>8, <2>1 DEF Building, Marks
  <2>5. SplitInv'
    BY <1>1, <1>8, <1>12, <2>1, <2>4 DEF SplitInv
  <2>6. Marks(split)' = Marks(new)
    BY <2>1 DEF Marks
  <2>7. ASSUME NEW q \in run', AsSent(q.no)' \notin handed'
        PROVE  split'.currentSequence = q.no + 1 /\ q.number \in Marks(new)
    <3>1. q.no = p.no
      BY <1>9
    <3>2. CASE q = p
      BY <1>4, <1>10, <2>1, <3>1, <3>2
    <3>3. CASE q \in run
      <4>1. AsSent(q.no) \notin handed
        BY <1>8, <2>1, <2>7 DEF AsSent
      <4>2. split.currentSequence = q.no + 1 /\ q.number \in Marks(split)
        BY <3>3, <4>1 DEF SplitIInv, RunInv
      <4>3. st = split
        BY <1>1, <1>3, <3>1, <4>2
      <4> QED
        BY <1>4, <1>10, <2>1, <3>1, <4>2, <4>3
    <3> QED
      BY <1>9, <3>2, <3>3
  <2>8. RunInv'
    BY <1>9, <2>6, <2>7 DEF RunInv
  <2> QED
    BY <2>2, <2>3, <2>5, <2>8 DEF SplitIInv
<1>13. CASE new.splitCount = 0
  <2>1. \A i \in 0 .. p.count - 1 : i \in Number /\ new.flags[i] = new.currentSequence
                                    /\ new.buffer[i] = <<p.no, i>>
    BY <1>1, <1>4, <1>5, <1>10, <1>13 DEF Marks, Building
  <2>2. AllPresent(new, p)
    BY <2>1 DEF AllPresent
  <2>3. new.totalSize = datagrams[p.no]
    <3>1. p.count - 1 \in 0 .. p.count - 1
      BY <1>1
    <3>2. new.currentSequence = p.no + 1 /\ p.count = Count(datagrams[p.no])
      BY <1>1, <1>10
    <3>3. new.flags[Count(datagrams[p.no]) - 1] = p.no + 1
      BY <2>1, <3>1, <3>2
    <3> QED
      BY <1>4, <3>3 DEF Building
  <2>4. ~TooLarge(new)
    <3>1. datagrams[p.no] \in Nat /\ datagrams[p.no] <= MAX_UDP_PACKET
      BY <1>1, CountFacts
    <3>2. new.totalSize \in Nat /\ new.totalSize <= MAX_UDP_PACKET
      BY <2>3, <3>1
    <3> HIDE DEF new
    <3> QED
      BY <3>2, SizeAssumption DEF TooLarge
  <2>5. Assembled(new, p) = AsSent(p.no)
    <3> HIDE DEF new
    <3>1. {new.buffer[i] : i \in 0 .. p.count - 1} = {<<p.no, i>> : i \in 0 .. p.count - 1}
      BY <2>1
    <3> QED
      BY <1>1, <2>3, <3>1 DEF Assembled, AsSent
  <2>6. /\ split' = Closed(new) /\ failed' = failed
        /\ handed' = handed \cup {AsSent(p.no)}
    BY <1>5, <1>6, <1>7, <1>13, <2>2, <2>4, <2>5 DEF Receive, GetLong
  <2>7. split' \in SplitType /\ split'.currentSequence = None
        /\ split'.splitCount = 0
    BY <1>4, <1>13, <2>6 DEF Closed, SplitType
  <2>8. SplitTypeOK'
    BY <1>8, <1>11, <2>6, <2>7 DEF SplitIInv, SplitTypeOK, SplitType
  <2>9. AsSent(p.no)' = AsSent(p.no) /\ AsSent(p.no) \in handed'
    BY <1>8, <2>6 DEF AsSent
  <2>10. Whole' /\ NoSplitError'
    BY <1>1, <1>8, <2>6 DEF SplitIInv, Whole, NoSplitError, AsSent
  <2>11. SplitInv'
    BY <2>7 DEF SplitInv
  <2>12. RunInv'
    BY <1>9, <2>9 DEF RunInv
  <2> QED
    BY <2>8, <2>10, <2>11, <2>12 DEF SplitIInv
<1> QED
  BY <1>5, <1>12, <1>13

LEMMA IInvHolds == SplitSpec => []SplitIInv
<1>1. SplitIInv /\ [SplitNext]_splitVars => SplitIInv'
  <2> SUFFICES ASSUME SplitIInv, [SplitNext]_splitVars PROVE SplitIInv'
    OBVIOUS
  <2>1. ASSUME NEW len \in Length, SendLong(len) PROVE SplitIInv'
    BY <2>1, SendLongInv
  <2>2. ASSUME NEW p \in net, Receive(p) PROVE SplitIInv'
    BY <2>2, ReceiveInv
  <2>3. CASE UNCHANGED splitVars
    BY <2>3, ZenonT(30) DEF splitVars, SplitIInv, SplitTypeOK, Whole,
                NoSplitError, SplitInv, RunInv, Building, Marks, AsSent, PartsOf
  <2> QED
    BY <2>1, <2>2, <2>3 DEF SplitNext
<1> QED
  BY <1>1, InitInv, PTL DEF SplitSpec

-----------------------------------------------------------------------------
(* The state of sender and receiver has its types at all times; the count  *)
(* of parts to come is never negative and the size of what is put together *)
(* never beyond the buffer (NetSocket::GetLong).                           *)
THEOREM SplitTypes == SplitSpec => []SplitTypeOK
<1>1. SplitIInv => SplitTypeOK
  BY DEF SplitIInv
<1> QED
  BY <1>1, IInvHolds, PTL

(* What the HLTV proxy gives to its channel is always one datagram the     *)
(* server sent, never parts of two.                                        *)
THEOREM DatagramsWhole == SplitSpec => []Whole
<1>1. SplitIInv => Whole
  BY DEF SplitIInv
<1> QED
  BY <1>1, IInvHolds, PTL

(* Loss, repetition and reordering never make GetLong report an error on   *)
(* the parts NET_SendLong cuts.                                            *)
THEOREM NoErrors == SplitSpec => []NoSplitError
<1>1. SplitIInv => NoSplitError
  BY DEF SplitIInv
<1> QED
  BY <1>1, IInvHolds, PTL

(* Once all parts of a datagram have been read with no other's between     *)
(* them, the datagram has gone to the channel.                             *)
THEOREM NothingIsWithheld == SplitSpec => []NothingWithheld
<1>1. SplitIInv => NothingWithheld
  <2> SUFFICES ASSUME SplitIInv, NEW p \in run, run = PartsOf(p.no),
                      AsSent(p.no) \notin handed
               PROVE  FALSE
    BY DEF NothingWithheld
  <2>1. p.no \in 1 .. Len(datagrams) /\ datagrams[p.no] \in Length /\ Len(datagrams) \in Nat
    BY DEF SplitIInv, SplitTypeOK
  <2>2. split.currentSequence = p.no + 1
    BY DEF SplitIInv, RunInv
  <2>3. \A q \in run : q.number \in Marks(split)
    BY DEF SplitIInv, RunInv
  <2>4. split.splitCount > 0 /\ Building(split, p.no)
    <3>1. split.currentSequence # None
      BY <2>1, <2>2 DEF None
    <3>2. PICK no \in 1 .. Len(datagrams) : Building(split, no)
      BY <3>1 DEF SplitIInv, SplitInv
    <3>3. no = p.no
      BY <2>1, <2>2, <3>2 DEF Building
    <3> QED
      BY <3>1, <3>2, <3>3 DEF SplitIInv, SplitInv
  <2>5. ASSUME NEW i \in 0 .. Count(datagrams[p.no]) - 1
        PROVE  i \in Marks(split)
    <3>1. Part(p.no, p.no + 1, datagrams[p.no], i) \in run
      BY DEF PartsOf, Parts
    <3>2. Part(p.no, p.no + 1, datagrams[p.no], i).number = i
      BY DEF Part
    <3> QED
      BY <2>3, <3>1, <3>2
  <2>6. split \in SplitType
    BY DEF SplitIInv, SplitTypeOK, SplitType
  <2>7. split.splitCount = 0
    BY <2>1, <2>4, <2>5, <2>6, CountedOut
  <2> QED
    BY <2>4, <2>7
<1> QED
  BY <1>1, IInvHolds, PTL
=============================================================================
