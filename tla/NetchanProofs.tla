--------------------------- MODULE NetchanProofs ---------------------------
(***************************************************************************)
(* Theorems about Netchan, for any data, sizes and bounds: the types, and  *)
(* the reliable channel, every block once and in order.  The proof is that *)
(* ChannelInv is inductive: each direction of the connection obeys the     *)
(* alternating-bit protocol until its sender cuts a block short.  What is  *)
(* left of it after a cut is PhaseInv: the order stays, and each cut may   *)
(* repeat one block.                                                       *)
(*                                                                         *)
(* The second part is about what the application at the far end gets: the  *)
(* units in the order they were queued, messages and files put together    *)
(* from their own fragments (StreamInv).  It follows the data of one       *)
(* direction, e to Peer(e), through the places it can be in: the queues of *)
(* e, the block that the peer does not have yet, the fragments the peer    *)
(* keeps, and what it has handed on.                                       *)
(***************************************************************************)
EXTENDS Netchan, SequenceTheorems, FiniteSetTheorems, TLAPS

\* The peer of an end is the other end, and the peer of the peer is the end.
LEMMA PeerIsOther ==
  ASSUME NEW e \in End
  PROVE  Peer(e) \in End /\ Peer(e) # e /\ Peer(Peer(e)) = e
         /\ \A f \in End : f # e => f = Peer(e)
<1>1. PICK a \in End, b \in End : a # b /\ End = {a, b}
  BY TwoEnds
<1>2. \E f \in End : f # e
  BY <1>1
<1>3. Peer(e) \in End /\ Peer(e) # e
  BY <1>2 DEF Peer
<1>4. \E f \in End : f # Peer(e)
  BY <1>3
<1>5. Peer(Peer(e)) \in End /\ Peer(Peer(e)) # Peer(e)
  BY <1>4 DEF Peer
<1> QED
  BY <1>1, <1>3, <1>5

-----------------------------------------------------------------------------
(* Types                                                                   *)

LEMMA CeilNat ==
  ASSUME NEW n \in Nat, NEW d \in Nat \ {0}
  PROVE  Ceil(n, d) \in Nat
BY DEF Ceil

LEMMA ChunksNat ==
  ASSUME NEW src \in Source
  PROVE  Chunks(src) \in Nat
<1>1. Len(src.units) \in Nat
  BY DEF Source
<1>2. Ceil(Len(src.units), BlockSize) \in Nat
  BY <1>1, CeilNat, Sizes
<1>3. Ceil(Ceil(Len(src.units), BlockSize), 2) \in Nat
  BY <1>2, CeilNat
<1> QED
  BY <1>2, <1>3, Sizes DEF Chunks

LEMMA FragmentsType ==
  ASSUME NEW src \in Source
  PROVE  Fragments(src) \in Seq(Fragment)
<1>1. Chunks(src) \in Nat
  BY ChunksNat
<1>2. \A i \in 1..Chunks(src) : [id |-> i, src |-> src] \in Fragment
  BY <1>1 DEF Fragment
<1> DEFINE frag(i) == [id |-> i, src |-> src]
<1>3. \A i \in 1..Chunks(src) : frag(i) \in Fragment
  BY <1>2
<1>4. [i \in 1..Chunks(src) |-> frag(i)] \in Seq(Fragment)
  <2> HIDE DEF frag
  <2> QED BY <1>1, <1>3
<1> QED
  BY <1>4 DEF Fragments

LEMMA SpillType ==
  ASSUME NEW q \in OutQueue, NEW units \in Seq(Nat), NEW packed \in BOOLEAN
  PROVE  /\ CreateFragments_(q, units, packed) \in OutQueue
         /\ Spill(q, packed) \in OutQueue
<1>1. \A u \in Seq(Nat) : CreateFragments_(q, u, packed) \in OutQueue
  <2> SUFFICES ASSUME NEW u \in Seq(Nat)
               PROVE  CreateFragments_(q, u, packed) \in OutQueue
    OBVIOUS
  <2>1. Message(u, packed) \in Source
    BY DEF Message, Source
  <2>2. Append(q.waitlist["normal"], Message(u, packed)) \in Seq(Source)
    BY <2>1 DEF OutQueue, STREAM
  <2> QED
    BY <2>2 DEF CreateFragments_, OutQueue, STREAM
<1>2. q.message \in Seq(Nat) /\ <<>> \in Seq(Nat)
  BY DEF OutQueue
<1> QED
  BY <1>1, <1>2 DEF Spill, OutQueue

LEMMA FragSendType ==
  ASSUME NEW q \in OutQueue, NEW opened \in BOOLEAN
  PROVE  FragSend(q, opened) \in OutQueue
<1>1. ASSUME NEW r \in OutQueue, NEW s \in STREAM
      PROVE  FragSendStream(r, s, opened) \in OutQueue
  <2>1. CASE r.fragbufs[s] # <<>> \/ r.waitlist[s] = <<>>
    BY <2>1 DEF FragSendStream
  <2>2. CASE ~(r.fragbufs[s] # <<>> \/ r.waitlist[s] = <<>>)
    <3> DEFINE src == Head(r.waitlist[s])
               rest == [r EXCEPT !.waitlist[s] = Tail(@)]
    <3>1. r.waitlist[s] \in Seq(Source) /\ r.waitlist[s] # <<>>
      BY <2>2 DEF OutQueue
    <3>2. src \in Source /\ Tail(r.waitlist[s]) \in Seq(Source)
      BY <3>1
    <3>3. rest \in OutQueue
      BY <3>2 DEF OutQueue
    <3>4. Fragments(src) \in Seq(Fragment) /\ Chunks(src) \in Nat
      BY <3>2, FragmentsType, ChunksNat
    <3>5. [rest EXCEPT !.fragbufs[s] = Fragments(src),
                       !.fragbufcount[s] = Chunks(src)] \in OutQueue
      <4> HIDE DEF src, rest
      <4> QED BY <3>3, <3>4 DEF OutQueue
    <3> QED
      BY <2>2, <3>3, <3>5 DEF FragSendStream
  <2> QED
    BY <2>1, <2>2
<1> QED
  BY <1>1 DEF FragSend, STREAM

\* Queueing data keeps the shape of the queues (Netchan_Transmit, before a
\* block is picked).
LEMMA RefillType ==
  ASSUME NEW q \in OutQueue, NEW packed \in BOOLEAN, NEW opened \in BOOLEAN
  PROVE  Refill(q, packed, opened) \in OutQueue
<1> DEFINE long == IF Len(q.message) > MAX_MSGLEN THEN Spill(q, packed) ELSE q
           sent == FragSend(long, opened)
<1>1. <<>> \in Seq(Nat)
  OBVIOUS
<1>2. long \in OutQueue
  BY <1>1, SpillType
<1>3. sent \in OutQueue
  <2> HIDE DEF long
  <2> QED BY <1>2, FragSendType
<1>4. Spill(sent, packed) \in OutQueue
  <2> HIDE DEF sent
  <2> QED BY <1>1, <1>3, SpillType
<1> QED
  <2> HIDE DEF sent, long
  <2>1. Refill(q, packed, opened) =
          IF Stalled(sent) /\ Len(sent.message) > MAX_RELIABLE_PAYLOAD
          THEN Spill(sent, packed) ELSE sent
    BY DEF Refill, sent, long
  <2> QED BY <1>3, <1>4, <2>1

\* A block and what is left after it was taken have the right shape.
LEMMA BlockTyped ==
  ASSUME NEW q \in OutQueue, NEW no \in Nat
  PROVE  /\ Block(q, no) \in BlockType
         /\ Rest(q) \in OutQueue
         /\ Block(q, no).no = no
<1>1. q.message \in Seq(Nat) /\ <<>> \in Seq(Nat)
  BY DEF OutQueue
<1>2. ASSUME NEW s \in STREAM, Takes(q)[s]
      PROVE  /\ FragOf(q, s) \in SentFragment
             /\ Tail(q.fragbufs[s]) \in Seq(Fragment)
  <2>1. q.fragbufs[s] # <<>>
    BY <1>2 DEF Takes, NormalFits, FileFits, Fits, STREAM
  <2>2. q.fragbufs[s] \in Seq(Fragment) /\ q.fragbufcount[s] \in Nat
    BY DEF OutQueue
  <2>3. Head(q.fragbufs[s]) \in Fragment /\ Tail(q.fragbufs[s]) \in Seq(Fragment)
    BY <2>1, <2>2
  <2> QED
    BY <2>2, <2>3 DEF FragOf, Fragment, SentFragment
<1>3. Regular(q) \in Seq(Nat)
  BY <1>1 DEF Regular
<1>4. [s \in STREAM |-> IF Takes(q)[s] THEN FragOf(q, s) ELSE NoFrag]
        \in [STREAM -> SentFragment \union {NoFrag}]
  BY <1>2
<1>5. Block(q, no) \in BlockType /\ Block(q, no).no = no
  BY <1>3, <1>4 DEF Block, BlockType
<1>6. [s \in STREAM |-> IF Takes(q)[s] THEN Tail(q.fragbufs[s])
                                      ELSE q.fragbufs[s]]
        \in [STREAM -> Seq(Fragment)]
  BY <1>2 DEF OutQueue
<1>7. Rest(q) \in OutQueue
  <2> DEFINE bufs == [s \in STREAM |-> IF Takes(q)[s] THEN Tail(q.fragbufs[s])
                                                     ELSE q.fragbufs[s]]
             text == IF Stalled(q) THEN q.message ELSE <<>>
  <2>1. Rest(q) = [q EXCEPT !.message = text, !.fragbufs = bufs]
    BY DEF Rest
  <2>2. text \in Seq(Nat)
    BY <1>1
  <2> HIDE DEF bufs, text
  <2>3. bufs \in [STREAM -> Seq(Fragment)]
    BY <1>6 DEF bufs
  <2> QED
    BY <2>1, <2>2, <2>3 DEF OutQueue
<1> QED
  BY <1>5, <1>7

LEMMA BitFlip == \A b \in Bit : Toggle(b) \in Bit /\ Toggle(b) # b
BY DEF Bit, Toggle

LEMMA EmptyTyped == Empty \in BlockType
<1>1. <<>> \in Seq(Nat)
  OBVIOUS
<1> QED
  BY <1>1 DEF Empty, BlockType

\* Storing a fragment keeps incomingbufs a list of fragments.
LEMMA StoreType ==
  ASSUME NEW bufs \in Seq(SentFragment), NEW frag \in SentFragment
  PROVE  /\ StoreFragment(bufs, frag) \in Seq(SentFragment)
         /\ StoreFragment(bufs, frag) # <<>>
<1> DEFINE put(i) == [bufs EXCEPT ![i] = frag]
<1>1. DOMAIN bufs = 1..Len(bufs) /\ Len(bufs) \in Nat
  OBVIOUS
<1>2. ASSUME NEW i PROVE put(i) \in Seq(SentFragment)
  <2>1. CASE i \in 1..Len(bufs)
    BY <2>1, ExceptSeq
  <2>2. CASE i \notin 1..Len(bufs)
    <3>1. put(i) = bufs
      BY <1>1, <2>2
    <3> QED BY <3>1
  <2> QED
    BY <2>1, <2>2
<1>3. ASSUME NEW i, bufs # <<>> PROVE put(i) # <<>>
  <2>1. DOMAIN put(i) = DOMAIN bufs /\ 1 \in DOMAIN bufs
    BY <1>1, <1>3
  <2> QED
    BY <2>1
<1>4. Append(bufs, frag) \in Seq(SentFragment) /\ Append(bufs, frag) # <<>>
  BY AppendProperties
<1>5. /\ AddBufferToList(bufs, frag) \in Seq(SentFragment)
      /\ AddBufferToList(bufs, frag) # <<>>
  <2> DEFINE after == {i \in 2..Len(bufs) : bufs[i].id > frag.id}
  <2>1. CASE after = {}
    BY <1>4, <2>1 DEF AddBufferToList
  <2>2. CASE after # {}
    <3>1. bufs # <<>>
      BY <1>1, <2>2
    <3>2. AddBufferToList(bufs, frag) = put(Min(after))
      BY <2>2 DEF AddBufferToList, ReplaceAt
    <3> HIDE DEF put, after
    <3> QED BY <1>2, <1>3, <3>1, <3>2
  <2> QED
    BY <2>1, <2>2
<1>6. CASE \E i \in DOMAIN bufs : SameId(bufs[i], frag)
  <2>1. bufs # <<>>
    BY <1>1, <1>6
  <2>2. StoreFragment(bufs, frag) =
          put(Min({i \in DOMAIN bufs : SameId(bufs[i], frag)}))
    BY <1>6 DEF StoreFragment, ReplaceAt
  <2> HIDE DEF put
  <2> QED BY <1>2, <1>3, <2>1, <2>2
<1>7. CASE ~\E i \in DOMAIN bufs : SameId(bufs[i], frag)
  BY <1>5, <1>7 DEF StoreFragment
<1> QED
  BY <1>6, <1>7

-----------------------------------------------------------------------------
(* Every step keeps the types                                              *)

\* A packet that Netchan_Transmit builds, and what it does to the outgoing
\* counters.
LEMMA SendType ==
  ASSUME TypeOK, NEW e \in End, NEW reliable \in BOOLEAN,
         NEW block \in BlockType, Send(e, reliable, block)
  PROVE  /\ net' \subseteq Packet
         /\ outgoing_sequence' \in [End -> Nat]
         /\ last_reliable_sequence' \in [End -> Nat]
<1> DEFINE seq == outgoing_sequence[e]
           p == [to |-> Peer(e), seq |-> seq, reliable |-> reliable,
                 ack |-> incoming_sequence[e],
                 reliable_ack |-> incoming_reliable_sequence[e],
                 block |-> IF reliable THEN block ELSE Empty]
<1>1. p \in Packet
  BY PeerIsOther, EmptyTyped DEF TypeOK, Packet
<1>2. net' = {q \in net : q.to = Peer(e) => q.seq + Window > seq} \union {p}
  BY DEF Send
<1>3. net' \subseteq Packet
  <2> HIDE DEF p
  <2> QED BY <1>1, <1>2 DEF TypeOK
<1>4. outgoing_sequence' \in [End -> Nat]
  <2>1. outgoing_sequence \in [End -> Nat]
    BY DEF TypeOK
  <2>2. outgoing_sequence' = [outgoing_sequence EXCEPT ![e] = @ + 1]
    BY DEF Send
  <2> QED
    BY <2>1, <2>2
<1>5. last_reliable_sequence' \in [End -> Nat]
  <2>1. last_reliable_sequence \in [End -> Nat] /\ seq \in Nat
    BY DEF TypeOK
  <2>2. last_reliable_sequence' =
          [last_reliable_sequence EXCEPT ![e] = IF reliable THEN seq ELSE @]
    BY DEF Send
  <2> QED
    BY <2>1, <2>2
<1> QED
  BY <1>3, <1>4, <1>5

LEMMA TransmitType ==
  ASSUME TypeOK, NEW e \in End, NEW packed \in BOOLEAN, NEW opened \in BOOLEAN,
         Transmit(e, packed, opened)
  PROVE  TypeOK'
<1>1. UNCHANGED <<seqvars, incomingbufs, alive, written, delivered, filesQueued,
                  filesGot, acked, accepted, clearvars>>
  BY DEF Transmit
<1>2. ASSUME Load(e, packed, opened)
      PROVE  /\ net' \subseteq Packet
             /\ outgoing_sequence' \in [End -> Nat]
             /\ last_reliable_sequence' \in [End -> Nat]
             /\ reliable_sequence' \in [End -> Bit]
             /\ reliable_buf' \in [End -> BlockType]
             /\ outq' \in [End -> OutQueue]
             /\ filesLost' \in [End -> SUBSET (File \union {NoFile})]
             /\ loaded' \in [End -> Nat]
  <2> DEFINE q == Refill(outq[e], packed, opened)
             b == Block(q, loaded[e] + 1)
  <2>1. outq[e] \in OutQueue /\ loaded[e] + 1 \in Nat
    BY DEF TypeOK
  <2>2. q \in OutQueue
    BY <2>1, RefillType
  <2>3. b \in BlockType /\ Rest(q) \in OutQueue
    <3> HIDE DEF q
    <3> QED BY <2>1, <2>2, BlockTyped
  <2>4. Unopened(outq[e], opened) \subseteq File \union {NoFile}
    <3> SUFFICES ASSUME outq[e].waitlist["file"] # <<>>
                 PROVE  Head(outq[e].waitlist["file"]).file \in File \union {NoFile}
      BY DEF Unopened
    <3>1. outq[e].waitlist["file"] \in Seq(Source)
      BY <2>1 DEF OutQueue, STREAM
    <3>2. Head(outq[e].waitlist["file"]) \in Source
      BY <3>1
    <3> QED
      BY <3>2 DEF Source
  <2>5. filesLost' \in [End -> SUBSET (File \union {NoFile})]
    <3>1. filesLost' = [filesLost EXCEPT ![e] = @ \union Unopened(outq[e], opened)]
      BY <1>2 DEF Load
    <3> QED
      BY <2>4, <3>1 DEF TypeOK
  <2>6. CASE HasData(q)
    <3>1. /\ reliable_sequence' = [reliable_sequence EXCEPT ![e] = Toggle(@)]
          /\ reliable_buf' = [reliable_buf EXCEPT ![e] = b]
          /\ loaded' = [loaded EXCEPT ![e] = @ + 1]
          /\ outq' = [outq EXCEPT ![e] = Rest(q)]
          /\ Send(e, TRUE, b)
      BY <1>2, <2>6 DEF Load
    <3> HIDE DEF q, b
    <3>2. reliable_sequence' \in [End -> Bit]
      BY <3>1, BitFlip DEF TypeOK
    <3>3. reliable_buf' \in [End -> BlockType] /\ outq' \in [End -> OutQueue]
      BY <2>3, <3>1 DEF TypeOK
    <3>5. loaded \in [End -> Nat]
      BY DEF TypeOK
    <3>4. loaded' \in [End -> Nat]
      BY <3>1, <3>5
    <3> QED
      BY <2>3, <2>5, <3>1, <3>2, <3>3, <3>4, SendType
  <2>7. CASE ~HasData(q)
    <3>1. /\ outq' = [outq EXCEPT ![e] = q]
          /\ Send(e, ResendDue(e), Empty)
          /\ UNCHANGED <<relvars, loaded>>
      BY <1>2, <2>7 DEF Load
    <3>2. ResendDue(e) \in BOOLEAN
      BY DEF ResendDue
    <3>3. outq' \in [End -> OutQueue]
      <4> HIDE DEF q
      <4> QED BY <2>2, <3>1 DEF TypeOK
    <3>4. UNCHANGED <<relvars, loaded>> /\ Send(e, ResendDue(e), Empty)
      BY <3>1
    <3> HIDE DEF q, b
    <3>5. /\ net' \subseteq Packet
          /\ outgoing_sequence' \in [End -> Nat]
          /\ last_reliable_sequence' \in [End -> Nat]
      BY <3>2, <3>4, EmptyTyped, SendType
    <3> QED
      BY <2>5, <3>3, <3>4, <3>5 DEF TypeOK, relvars
  <2> QED
    BY <2>6, <2>7
<1>3. ASSUME Hold(e)
      PROVE  /\ net' \subseteq Packet
             /\ outgoing_sequence' \in [End -> Nat]
             /\ last_reliable_sequence' \in [End -> Nat]
  <2>1. reliable_buf[e] \in BlockType /\ ResendDue(e) \in BOOLEAN
    BY DEF TypeOK, ResendDue
  <2> QED
    BY <1>3, <2>1, SendType DEF Hold
<1>4. CASE reliable_buf[e] = Empty
  <2>1. Load(e, packed, opened)
    BY <1>4 DEF Transmit
  <2> QED
    BY <1>1, <1>2, <2>1
       DEF TypeOK, seqvars, clearvars
<1>5. CASE reliable_buf[e] # Empty
  <2>1. Hold(e)
    BY <1>5 DEF Transmit
  <2>2. UNCHANGED <<relvars, outq, filesLost, loaded>>
    BY <2>1 DEF Hold
  <2> QED
    BY <1>1, <1>3, <2>1, <2>2 DEF TypeOK, seqvars, clearvars, relvars
<1> QED
  BY <1>4, <1>5

LEMMA ReadType ==
  ASSUME TypeOK, NEW e \in End, NEW p \in net, ReadPacket(e, p)
  PROVE  TypeOK'
<1>1. p \in Packet
  BY DEF TypeOK
<1>2. /\ p.seq \in Nat /\ p.ack \in Nat /\ p.reliable \in BOOLEAN
      /\ p.reliable_ack \in Bit /\ p.block \in BlockType
  BY <1>1 DEF Packet
<1>3. UNCHANGED <<outvars, reliable_sequence, outq, net, written, filesQueued,
                  filesLost, loaded, clearvars>>
  BY DEF ReadPacket
<1>4. /\ incoming_sequence' \in [End -> Nat]
      /\ incoming_acknowledged' \in [End -> Nat]
      /\ incoming_reliable_acknowledged' \in [End -> Bit]
      /\ incoming_reliable_sequence' \in [End -> Bit]
  BY <1>2, BitFlip DEF ReadPacket, ProcessHeader, TypeOK
<1>5. reliable_buf' \in [End -> BlockType]
  BY EmptyTyped DEF ReadPacket, ProcessHeader, TypeOK
<1>6. acked' \in [End -> Nat]
  BY DEF ReadPacket, ProcessHeader, TypeOK
<1>7. accepted' \in [End -> Seq(Nat)]
  <2>1. p.block.no \in Nat
    BY <1>2 DEF BlockType
  <2> QED
    BY <2>1 DEF ReadPacket, ProcessHeader, TypeOK
<1> DEFINE bufs == [s \in STREAM |->
                 IF p.block.frag[s] = NoFrag THEN incomingbufs[e][s]
                 ELSE StoreFragment(incomingbufs[e][s], p.block.frag[s])]
           ready(s) == IncomingReady(bufs[s], p.block.frag[s])
           broken == ready("normal") /\ ~Decompresses(bufs["normal"])
           text == IF ready("normal") /\ ~broken
                   THEN Assembled(bufs["normal"]) ELSE <<>>
<1>8. bufs \in [STREAM -> Seq(SentFragment)]
  <2> SUFFICES ASSUME NEW s \in STREAM
               PROVE  bufs[s] \in Seq(SentFragment)
    OBVIOUS
  <2>1. incomingbufs[e][s] \in Seq(SentFragment)
    BY DEF TypeOK
  <2>2. p.block.frag[s] \in SentFragment \union {NoFrag}
    BY <1>2 DEF BlockType
  <2> QED
    BY <2>1, <2>2, StoreType
<1>9. ASSUME NEW s \in STREAM, ready(s)
      PROVE  /\ bufs[s][1].src.units \in Seq(Nat)
             /\ bufs[s][1].src.file \in File \union {NoFile}
  <2>1. p.block.frag[s] # NoFrag
    BY <1>9 DEF IncomingReady
  <2>2. incomingbufs[e][s] \in Seq(SentFragment)
    BY DEF TypeOK
  <2>6. p.block.frag[s] \in SentFragment
    BY <1>2, <2>1 DEF BlockType
  <2>3. bufs[s] # <<>>
    BY <2>1, <2>2, <2>6, StoreType
  <2> HIDE DEF bufs
  <2>4. bufs[s] \in Seq(SentFragment)
    BY <1>8
  <2>5. bufs[s][1] \in SentFragment
    BY <2>3, <2>4
  <2> QED
    BY <2>5 DEF SentFragment, Source
<1>10. text \in Seq(Nat)
  <2>1. ready("normal") => bufs["normal"][1].src.units \in Seq(Nat)
    BY <1>9 DEF STREAM
  <2>2. <<>> \in Seq(Nat) /\ <<0>> \in Seq(Nat)
    OBVIOUS
  <2> HIDE DEF bufs
  <2> QED
    BY <2>1, <2>2 DEF Assembled, Noise
<1>11. ProcessPayload(e, p.block)
  BY DEF ReadPacket
<1>12. delivered' = [delivered EXCEPT ![e] = @ \o p.block.regular \o text]
  BY <1>11 DEF ProcessPayload
<1>13. alive' = [alive EXCEPT ![e] = ~broken]
  BY <1>11 DEF ProcessPayload
<1>14. filesGot' = [filesGot EXCEPT ![e] =
           IF ready("file") /\ ~broken
           THEN Append(@, IF Whole(bufs["file"]) THEN bufs["file"][1].src.file
                          ELSE NoFile)
           ELSE @]
  BY <1>11 DEF ProcessPayload
<1>15. incomingbufs' = [incomingbufs EXCEPT ![e] =
           [s \in STREAM |-> IF ready(s) THEN <<>> ELSE bufs[s]]]
  BY <1>11 DEF ProcessPayload
<1>16. delivered' \in [End -> Seq(Nat)]
  <2>1. p.block.regular \in Seq(Nat)
    BY <1>2 DEF BlockType
  <2> HIDE DEF text
  <2> QED
    BY <1>10, <1>12, <2>1 DEF TypeOK
<1>17. alive' \in [End -> BOOLEAN]
  <2>1. (~broken) \in BOOLEAN
    OBVIOUS
  <2> HIDE DEF broken
  <2> QED
    BY <1>13, <2>1 DEF TypeOK
<1>18. filesGot' \in [End -> Seq(File \union {NoFile})]
  <2> DEFINE last == IF Whole(bufs["file"]) THEN bufs["file"][1].src.file
                     ELSE NoFile
  <2>1. ready("file") => last \in File \union {NoFile}
    BY <1>9 DEF STREAM
  <2>2. filesGot' = [filesGot EXCEPT ![e] =
             IF ready("file") /\ ~broken THEN Append(@, last) ELSE @]
    BY <1>14
  <2>3. filesGot[e] \in Seq(File \union {NoFile})
    BY DEF TypeOK
  <2>4. CASE ready("file") /\ ~broken
    <3> HIDE DEF ready, broken, last
    <3>1. Append(filesGot[e], last) \in Seq(File \union {NoFile})
      BY <2>1, <2>3, <2>4, AppendProperties
    <3> QED
      BY <2>2, <2>4, <3>1 DEF TypeOK
  <2>5. CASE ~(ready("file") /\ ~broken)
    <3> HIDE DEF ready, broken, last
    <3> QED
      BY <2>2, <2>5 DEF TypeOK
  <2> QED
    BY <2>4, <2>5
<1>19. incomingbufs' \in [End -> [STREAM -> Seq(SentFragment)]]
  <2>1. <<>> \in Seq(SentFragment)
    OBVIOUS
  <2> HIDE DEF ready, bufs
  <2>2. [s \in STREAM |-> IF ready(s) THEN <<>> ELSE bufs[s]]
          \in [STREAM -> Seq(SentFragment)]
    BY <1>8, <2>1
  <2> QED
    BY <1>15, <2>2 DEF TypeOK
<1> HIDE DEF bufs, ready, broken, text
<1> QED
  BY <1>3, <1>4, <1>5, <1>6, <1>7, <1>16, <1>17, <1>18, <1>19
     DEF TypeOK, outvars, clearvars

LEMMA QueueType ==
  ASSUME TypeOK, NEW e \in Writer, Queue(e)
  PROVE  TypeOK'
<1>1. e \in End
  BY Sizes
<1>2. outq[e] \in OutQueue /\ written[e] \in Nat
  BY <1>1 DEF TypeOK
<1>3. ASSUME NEW n \in Nat PROVE NewUnits(e, n) \in Seq(Nat)
  BY <1>2 DEF NewUnits
<1>4. ASSUME NEW n \in Nat PROVE [i \in 1..n |-> 0] \in Seq(Nat)
  OBVIOUS
<1>5. ASSUME NEW n \in WriteSizes, Write(e, n)
      PROVE  TypeOK'
  <2>1. n \in Nat /\ outq[e].message \in Seq(Nat)
    BY <1>2, Sizes DEF OutQueue
  <2>2. UNCHANGED <<seqvars, outvars, relvars, incomingbufs, alive, net,
                    delivered, filevars, blockvars, clearvars>>
    BY <1>5 DEF Write
  <2>3. written' \in [End -> Nat]
    <3>1. written \in [End -> Nat]
      BY DEF TypeOK
    <3>2. written' = [written EXCEPT ![e] = @ + n]
      BY <1>5 DEF Write
    <3> QED
      BY <1>1, <2>1, <3>1, <3>2
  <2>4. NewUnits(e, n) \in Seq(Nat) /\ Lost(NewUnits(e, n)) \in Seq(Nat)
    <3>1. NewUnits(e, n) \in Seq(Nat)
      BY <1>3, <2>1
    <3> QED
      BY <3>1 DEF Lost
  <2>5. SZ_Write(outq[e], NewUnits(e, n)) \in OutQueue
    <3> DEFINE units == NewUnits(e, n)
               more == IF outq[e].overflowed THEN Lost(units) ELSE units
    <3>1. more \in Seq(Nat) /\ Lost(units) \in Seq(Nat)
      BY <2>4
    <3>2. SZ_Write(outq[e], units) =
            IF Len(outq[e].message) + Len(units) <= MessageSize
            THEN [outq[e] EXCEPT !.message = outq[e].message \o more]
            ELSE [outq[e] EXCEPT !.message = Lost(units), !.overflowed = TRUE]
      BY DEF SZ_Write
    <3> HIDE DEF units, more
    <3>3. outq[e].message \o more \in Seq(Nat)
      BY <2>1, <3>1
    <3>4. /\ [outq[e] EXCEPT !.message = outq[e].message \o more] \in OutQueue
          /\ [outq[e] EXCEPT !.message = Lost(units), !.overflowed = TRUE]
               \in OutQueue
      BY <1>2, <3>1, <3>3 DEF OutQueue
    <3>5. SZ_Write(outq[e], units) \in OutQueue
      BY <3>2, <3>4
    <3> QED
      BY <3>5 DEF units
  <2>8. outq' \in [End -> OutQueue]
    BY <1>1, <1>5, <2>5 DEF Write, TypeOK
  <2> QED
    BY <2>2, <2>3, <2>8
       DEF TypeOK, seqvars, outvars, relvars, filevars, blockvars, clearvars
<1>6. ASSUME NEW n \in WriteSizes, NEW packed \in MayCompress,
             CreateFragments(e, n, packed)
      PROVE  TypeOK'
  <2>1. n \in Nat /\ packed \in BOOLEAN
    BY Sizes
  <2>2. UNCHANGED <<seqvars, outvars, relvars, incomingbufs, alive, net,
                    delivered, filevars, blockvars, clearvars>>
    BY <1>6 DEF CreateFragments
  <2>3. written' \in [End -> Nat]
    BY <1>1, <1>6, <2>1, SMTT(30) DEF CreateFragments, TypeOK
  <2>4. Spill(outq[e], packed) \in OutQueue /\ NewUnits(e, n) \in Seq(Nat)
    BY <1>2, <1>3, <2>1, SpillType, EmptySeq
  <2>5. CreateFragments_(Spill(outq[e], packed), NewUnits(e, n), packed)
          \in OutQueue
    BY <2>1, <2>4, SpillType
  <2>6. outq' \in [End -> OutQueue]
    BY <1>1, <1>6, <2>5 DEF CreateFragments, TypeOK
  <2> QED
    BY <2>2, <2>3, <2>6
       DEF TypeOK, seqvars, outvars, relvars, filevars, blockvars, clearvars
<1>7. ASSUME NEW f \in File, NEW deferred \in BOOLEAN,
             CreateFileFragments(e, f, deferred)
      PROVE  TypeOK'
  <2>1. UNCHANGED <<seqvars, outvars, relvars, incomingbufs, alive, net, written,
                    delivered, filesLost, filesGot, blockvars, clearvars>>
    BY <1>7 DEF CreateFileFragments
  <2>2. filesQueued' \in [End -> Seq(File)]
    BY <1>1, <1>7 DEF CreateFileFragments, TypeOK
  <2>3. FileSource(f, deferred) \in Source
    BY EmptySeq DEF FileSource, Source
  <2>4. Append(outq[e].waitlist["file"], FileSource(f, deferred)) \in Seq(Source)
    BY <1>2, <2>3 DEF OutQueue, STREAM
  <2>5. outq' \in [End -> OutQueue]
    <3> DEFINE longer == Append(outq[e].waitlist["file"], FileSource(f, deferred))
    <3>1. outq' = [outq EXCEPT ![e].waitlist["file"] = longer]
      BY <1>7 DEF CreateFileFragments
    <3> HIDE DEF longer
    <3>2. [outq[e] EXCEPT !.waitlist["file"] = longer] \in OutQueue
      BY <1>2, <2>4 DEF OutQueue, longer
    <3> QED
      BY <1>1, <3>1, <3>2 DEF TypeOK
  <2> QED
    BY <2>1, <2>2, <2>5
       DEF TypeOK, seqvars, outvars, relvars, blockvars, clearvars
<1> QED
  BY <1>5, <1>6, <1>7 DEF Queue

LEMMA NoQueueType == NoQueue \in OutQueue /\ NoBufs \in [STREAM -> Seq(SentFragment)]
BY EmptySeq DEF NoQueue, NoBufs, OutQueue

LEMMA ClearType ==
  ASSUME TypeOK, NEW e \in End, Clear(e)
  PROVE  TypeOK'
<1>1. outq' \in [End -> OutQueue]
  <2>1. outq[e].message \in Seq(Nat) /\ outq[e].overflowed \in BOOLEAN
    BY DEF TypeOK, OutQueue
  <2>2. [NoQueue EXCEPT !.message = outq[e].message,
                        !.overflowed = outq[e].overflowed] \in OutQueue
    BY <2>1, NoQueueType DEF OutQueue
  <2> QED
    <3> DEFINE kept == [NoQueue EXCEPT !.message = outq[e].message,
                                       !.overflowed = outq[e].overflowed]
    <3>1. outq' = [outq EXCEPT ![e] = kept]
      BY DEF Clear
    <3>2. kept \in OutQueue
      BY <2>2
    <3> HIDE DEF kept
    <3> QED
      BY <3>1, <3>2 DEF TypeOK
<1>2. incomingbufs' \in [End -> [STREAM -> Seq(SentFragment)]]
  BY NoQueueType DEF Clear, TypeOK
<1>3. /\ reliable_sequence' \in [End -> Bit] /\ aborted' \in [End -> Nat]
      /\ reliable_buf' \in [End -> BlockType] /\ clears' \in [End -> Nat]
  <2>0. /\ reliable_sequence \in [End -> Bit] /\ aborted \in [End -> Nat]
        /\ reliable_buf \in [End -> BlockType] /\ clears \in [End -> Nat]
    BY DEF TypeOK
  <2>1. clears' \in [End -> Nat]
    BY <2>0 DEF Clear
  <2>2. CASE reliable_buf[e] # Empty
    <3>1. /\ reliable_sequence' = [reliable_sequence EXCEPT ![e] = Toggle(@)]
          /\ reliable_buf' = [reliable_buf EXCEPT ![e] = Empty]
          /\ aborted' = [aborted EXCEPT ![e] = @ + 1]
      BY <2>2 DEF Clear
    <3>2. reliable_sequence' \in [End -> Bit]
      BY <2>0, <3>1, BitFlip
    <3>3. reliable_buf' \in [End -> BlockType]
      BY <2>0, <3>1, EmptyTyped
    <3>4. aborted' \in [End -> Nat]
      BY <2>0, <3>1
    <3> QED
      BY <2>1, <3>2, <3>3, <3>4
  <2>3. CASE reliable_buf[e] = Empty
    BY <2>1, <2>3 DEF Clear, TypeOK, relvars
  <2> QED
    BY <2>2, <2>3
<1>4. UNCHANGED <<seqvars, outvars, alive, net, written, delivered, filevars,
                  blockvars>>
  BY DEF Clear
<1> QED
  BY <1>1, <1>2, <1>3, <1>4
     DEF TypeOK, seqvars, outvars, filevars, blockvars

\* The types of Netchan's variables never change.
THEOREM TypeCorrect == Spec => []TypeOK
<1>1. Init => TypeOK
  BY EmptyTyped, NoQueueType, EmptySeq DEF Init, TypeOK, Bit
<1>2. TypeOK /\ [Next]_vars => TypeOK'
  <2> SUFFICES ASSUME TypeOK, [Next]_vars PROVE TypeOK'
    OBVIOUS
  <2>1. ASSUME NEW e \in Writer, Queue(e) PROVE TypeOK'
    BY <2>1, QueueType
  <2>2. ASSUME NEW e \in End, TransmitAny(e) PROVE TypeOK'
    BY <2>2, TransmitType, Sizes DEF TransmitAny
  <2>3. ASSUME NEW e \in End, ReadAny(e) PROVE TypeOK'
    BY <2>3, ReadType DEF ReadAny
  <2>4. ASSUME NEW e \in End, Clear(e) PROVE TypeOK'
    BY <2>4, ClearType
  <2>5. CASE UNCHANGED vars
    BY <2>5 DEF TypeOK, vars, seqvars, outvars, relvars, filevars, blockvars,
                clearvars
  <2> QED
    BY <2>1, <2>2, <2>3, <2>4, <2>5 DEF Next
<1> QED
  BY <1>1, <1>2, PTL DEF Spec

-----------------------------------------------------------------------------
(* The reliable channel                                                    *)


LEMMA InitInv == Init => ChannelInv
<1> SUFFICES ASSUME Init PROVE ChannelInv
  OBVIOUS
<1>1. SequencesInv
  BY PeerIsOther DEF Init, SequencesInv
<1>2. ASSUME NEW e \in End PROVE AlternatingInv(e)
  <2>1. Peer(e) \in End /\ Len(<<>>) = 0
    BY PeerIsOther
  <2>2. Has(e) /\ Counting(accepted[Peer(e)])
    BY <2>1 DEF Init, Has, Counting
  <2> QED
    BY <2>1, <2>2 DEF Init, AlternatingInv, AckMeans
<1> QED
  BY <1>1, <1>2 DEF ChannelInv

\* Calls that queue data do not touch the channel.
LEMMA QueueInv ==
  ASSUME ChannelInv, NEW e \in End, Queue(e)
  PROVE  ChannelInv'
<1>1. UNCHANGED <<seqvars, outvars, relvars, net, blockvars, clearvars>>
  BY DEF Queue, Write, CreateFragments, CreateFileFragments
<1>2. SequencesInv'
  BY <1>1 DEF ChannelInv, SequencesInv, seqvars, outvars
<1>3. ASSUME NEW f \in End, aborted'[f] = 0 PROVE AlternatingInv(f)'
  <2>1. AlternatingInv(f)
    BY <1>1, <1>3 DEF ChannelInv, clearvars
  <2> QED
    BY <1>1, <2>1 DEF AlternatingInv, AckMeans, Has, Lacks, seqvars, outvars,
                      relvars, blockvars
<1> QED
  BY <1>2, <1>3 DEF ChannelInv

\* Netchan_Clear disturbs a direction only when it takes a bit back, and then
\* it counts as aborted.
LEMMA ClearInv ==
  ASSUME TypeOK, ChannelInv, NEW e \in End, Clear(e)
  PROVE  ChannelInv'
<1>1. UNCHANGED <<seqvars, outvars, net, blockvars>>
  BY DEF Clear
<1>2. SequencesInv'
  BY <1>1 DEF ChannelInv, SequencesInv, seqvars, outvars
<1>4. /\ aborted \in [End -> Nat] /\ reliable_sequence \in [End -> Bit]
      /\ reliable_buf \in [End -> BlockType]
  BY DEF TypeOK
<1>3. ASSUME NEW f \in End, aborted'[f] = 0 PROVE AlternatingInv(f)'
  <2>1. /\ aborted[f] = 0
        /\ reliable_sequence'[f] = reliable_sequence[f]
        /\ reliable_buf'[f] = reliable_buf[f]
    <3>1. CASE reliable_buf[e] = Empty
      BY <1>3, <3>1 DEF Clear, relvars
    <3>2. CASE reliable_buf[e] # Empty
      <4>1. /\ reliable_sequence' = [reliable_sequence EXCEPT ![e] = Toggle(@)]
            /\ reliable_buf' = [reliable_buf EXCEPT ![e] = Empty]
            /\ aborted' = [aborted EXCEPT ![e] = @ + 1]
        BY <3>2 DEF Clear
      <4>2. f # e
        BY <1>3, <1>4, <4>1
      <4> QED
        BY <1>3, <1>4, <4>1, <4>2
    <3> QED
      BY <3>1, <3>2
  <2>2. AlternatingInv(f)
    BY <2>1 DEF ChannelInv
  <2> QED
    BY <1>1, <2>1, <2>2 DEF AlternatingInv, AckMeans, Has, Lacks, seqvars,
                            outvars, blockvars
<1> QED
  BY <1>2, <1>3 DEF ChannelInv

-----------------------------------------------------------------------------
(* Netchan_Transmit                                                        *)

\* What one packet of e, whatever is in it, does to the sequence numbers and
\* to the other direction, whose acknowledgement it carries.
LEMMA SendInv ==
  ASSUME TypeOK, ChannelInv, NEW e \in End, NEW reliable \in BOOLEAN, NEW block,
         Send(e, reliable, block),
         UNCHANGED <<seqvars, accepted, aborted>>
  PROVE  /\ SequencesInv'
         /\ (/\ aborted[Peer(e)] = 0
             /\ UNCHANGED <<reliable_sequence[Peer(e)], reliable_buf[Peer(e)],
                            loaded[Peer(e)]>>)
              => AlternatingInv(Peer(e))'
<1> DEFINE r == Peer(e)
           seq == outgoing_sequence[e]
           new == [to |-> r, seq |-> seq, reliable |-> reliable,
                   ack |-> incoming_sequence[e],
                   reliable_ack |-> incoming_reliable_sequence[e],
                   block |-> IF reliable THEN block ELSE Empty]
<1>1. r \in End /\ r # e /\ Peer(r) = e /\ \A f \in End : f = e \/ f = r
  BY PeerIsOther
<1>2. /\ net' \subseteq net \union {new}
      /\ outgoing_sequence' = [outgoing_sequence EXCEPT ![e] = @ + 1]
      /\ last_reliable_sequence' =
           [last_reliable_sequence EXCEPT ![e] = IF reliable THEN seq ELSE @]
  BY DEF Send
<1>3. UNCHANGED <<incoming_sequence, incoming_acknowledged,
                  incoming_reliable_acknowledged, incoming_reliable_sequence>>
  BY DEF seqvars
<1>4. /\ new.to = r /\ new.seq = seq /\ new.reliable = reliable
      /\ new.ack = incoming_sequence[e]
      /\ new.reliable_ack = incoming_reliable_sequence[e]
  OBVIOUS
<1>5. /\ outgoing_sequence'[e] = seq + 1 /\ seq \in Nat
      /\ outgoing_sequence'[r] = outgoing_sequence[r]
      /\ last_reliable_sequence'[r] = last_reliable_sequence[r]
      /\ last_reliable_sequence'[e] \in {last_reliable_sequence[e], seq}
      /\ last_reliable_sequence[e] \in Nat
  BY <1>1, <1>2 DEF TypeOK
<1> HIDE DEF r, seq, new
<1>6. SequencesInv'
  <2>1. ASSUME NEW f \in End
        PROVE  /\ incoming_sequence[Peer(f)] < outgoing_sequence'[f]
               /\ last_reliable_sequence'[f] < outgoing_sequence'[f]
               /\ incoming_acknowledged[f] <= incoming_sequence[Peer(f)]
    <3>1. /\ incoming_sequence[Peer(f)] < outgoing_sequence[f]
          /\ last_reliable_sequence[f] < outgoing_sequence[f]
          /\ incoming_acknowledged[f] <= incoming_sequence[Peer(f)]
      BY DEF ChannelInv, SequencesInv
    <3>2. incoming_sequence[Peer(f)] \in Nat /\ outgoing_sequence[f] \in Nat
      BY PeerIsOther DEF TypeOK
    <3> QED
      BY <1>1, <1>5, <3>1, <3>2 DEF seq
  <2>2. ASSUME NEW p \in net'
        PROVE  /\ p.seq < outgoing_sequence'[Peer(p.to)]
               /\ p.ack <= incoming_sequence[Peer(p.to)]
    <3>1. CASE p \in net
      <4>1. p.seq < outgoing_sequence[Peer(p.to)] /\ p.ack <= incoming_sequence[Peer(p.to)]
        BY <3>1 DEF ChannelInv, SequencesInv
      <4>2. p.to \in End /\ p.seq \in Nat
        BY <3>1 DEF TypeOK, Packet
      <4>3. Peer(p.to) = e \/ Peer(p.to) = r
        BY <1>1, <4>2, PeerIsOther
      <4> QED
        BY <1>5, <4>1, <4>2, <4>3 DEF seq
    <3>2. CASE p = new
      <4>1. Peer(p.to) = e /\ incoming_sequence[e] \in Nat
        BY <1>1, <1>4, <3>2 DEF TypeOK
      <4> QED
        BY <1>4, <1>5, <3>2, <4>1
    <3> QED
      BY <1>2, <3>1, <3>2
  <2> QED
    BY <1>3, <2>1, <2>2 DEF SequencesInv
<1>7. ASSUME aborted[r] = 0,
             UNCHANGED <<reliable_sequence[r], reliable_buf[r], loaded[r]>>
      PROVE  AlternatingInv(r)'
  <2>1. AlternatingInv(r)
    BY <1>1, <1>7 DEF ChannelInv
  <2>2. (Has(r) <=> Has(r)') /\ (Lacks(r) <=> Lacks(r)')
    BY <1>7 DEF Has, Lacks
  <2>3. ASSUME NEW p \in net', p.to = r PROVE AckMeans(r, p.ack, p.reliable_ack)
    <3>1. CASE p \in net
      BY <2>1, <2>3, <3>1 DEF AlternatingInv
    <3>2. CASE p = new
      <4>1. p.reliable_ack = incoming_reliable_sequence[Peer(r)]
        BY <1>1, <1>4, <3>2
      <4>2. /\ Has(r) <=> reliable_sequence[r] = incoming_reliable_sequence[Peer(r)]
            /\ Has(r) \/ Lacks(r)
        BY <2>1 DEF AlternatingInv
      <4> QED
        BY <4>1, <4>2 DEF AckMeans
    <3> QED
      BY <1>2, <3>1, <3>2
  <2>4. ASSUME NEW p \in net', p.to = e PROVE p \in net
    BY <1>1, <1>2, <1>4, <2>4
  <2>5. \A ack, bit : AckMeans(r, ack, bit) => AckMeans(r, ack, bit)'
    BY <1>5, <1>7, <2>2 DEF AckMeans
  <2> QED
    BY <1>1, <1>3, <1>5, <1>7, <2>1, <2>2, <2>3, <2>4, <2>5 DEF AlternatingInv
<1> QED
  BY <1>6, <1>7 DEF r

\* A block is loaded only when the peer has the one before, so no reliable
\* packet is on the way and no old acknowledgement counts for it.
LEMMA LoadInv ==
  ASSUME TypeOK, ChannelInv, NEW e \in End, NEW block,
         reliable_buf[e] = Empty, aborted[e] = 0,
         block.no = loaded[e] + 1,
         reliable_sequence' = [reliable_sequence EXCEPT ![e] = Toggle(@)],
         reliable_buf' = [reliable_buf EXCEPT ![e] = block],
         loaded' = [loaded EXCEPT ![e] = @ + 1],
         Send(e, TRUE, block),
         UNCHANGED <<seqvars, accepted, aborted>>
  PROVE  AlternatingInv(e)'
<1> DEFINE r == Peer(e)
           seq == outgoing_sequence[e]
<1>1. r \in End /\ r # e /\ Peer(r) = e
  BY PeerIsOther
<1>2. AlternatingInv(e)
  BY DEF ChannelInv
<1>3. Has(e) /\ reliable_sequence[e] = incoming_reliable_sequence[r]
  BY <1>2 DEF AlternatingInv
<1>4. /\ last_reliable_sequence'[e] = seq /\ seq \in Nat
      /\ reliable_sequence'[e] = Toggle(reliable_sequence[e])
      /\ loaded'[e] = loaded[e] + 1 /\ loaded[e] \in Nat
      /\ reliable_buf'[e] = block
  BY DEF Send, TypeOK
<1>5. UNCHANGED <<incoming_sequence, incoming_acknowledged,
                  incoming_reliable_acknowledged, incoming_reliable_sequence>>
  BY DEF seqvars
<1>6. /\ incoming_sequence[r] < seq /\ incoming_acknowledged[e] < seq
      /\ incoming_sequence[r] \in Nat /\ incoming_acknowledged[e] \in Nat
  <2>1. incoming_sequence[r] \in Nat /\ incoming_acknowledged[e] \in Nat
    BY <1>1 DEF TypeOK
  <2>2. incoming_sequence[r] < seq /\ incoming_acknowledged[e] <= incoming_sequence[r]
    BY DEF ChannelInv, SequencesInv
  <2> HIDE DEF seq
  <2> QED
    BY <1>4, <2>1, <2>2
<1>7. Lacks(e)' /\ ~Has(e)'
  BY <1>1, <1>3, <1>4 DEF Lacks, Has, TypeOK
<1>8. reliable_sequence'[e] # incoming_reliable_sequence[r]
  BY <1>1, <1>3, <1>4, BitFlip DEF TypeOK
<1>9. block # Empty
  BY <1>4 DEF Empty
<1> DEFINE p == [to |-> r, seq |-> seq, reliable |-> TRUE,
                 ack |-> incoming_sequence[e],
                 reliable_ack |-> incoming_reliable_sequence[e],
                 block |-> block]
<1>10. /\ net' \subseteq net \union {p}
       /\ p.to = r /\ p.seq = seq /\ p.block = block
  <2>1. net' = {q \in net : q.to = Peer(e) => q.seq + Window > outgoing_sequence[e]}
          \union {p}
    BY DEF Send
  <2> QED
    BY <2>1
<1> HIDE DEF p
<1>11. ASSUME NEW q \in net', q.to = e PROVE AckMeans(e, q.ack, q.reliable_ack)'
  <2>1. q \in net
    BY <1>1, <1>10, <1>11
  <2>2. q.ack <= incoming_sequence[r] /\ q.ack \in Nat
    BY <1>11, <2>1 DEF ChannelInv, SequencesInv, TypeOK, Packet
  <2> QED
    BY <1>4, <1>6, <2>2 DEF AckMeans
<1>12. ASSUME NEW q \in net', q.to = r, q.reliable, q.seq > incoming_sequence[r]
       PROVE  q.seq = seq /\ q.block.no = loaded[e] + 1
  <2>1. CASE q \in net
    <3>1. Lacks(e)
      BY <1>2, <1>12, <2>1 DEF AlternatingInv
    <3> QED
      BY <1>1, <1>3, <3>1 DEF Has, Lacks, TypeOK
  <2>2. CASE q = p
    BY <1>10, <2>2
  <2> QED
    BY <1>10, <2>1, <2>2
<1>13. AckMeans(e, incoming_acknowledged[e], incoming_reliable_acknowledged[e])'
  <2> HIDE DEF seq
  <2> QED
    BY <1>4, <1>5, <1>6 DEF AckMeans
<1>14. Counting(accepted[r])
  BY <1>2 DEF AlternatingInv
<1> HIDE DEF r, seq
<1> QED
  BY <1>4, <1>5, <1>7, <1>8, <1>9, <1>11, <1>12, <1>13, <1>14
     DEF AlternatingInv, r

\* A block that was sent before goes out again only while the peer lacks it.
LEMMA HoldInv ==
  ASSUME TypeOK, ChannelInv, NEW e \in End, NEW block, aborted[e] = 0,
         ResendDue(e) => reliable_buf[e] # Empty /\ block = reliable_buf[e],
         Send(e, ResendDue(e), block),
         UNCHANGED <<seqvars, relvars, loaded, accepted, aborted>>
  PROVE  AlternatingInv(e)'
<1> DEFINE r == Peer(e)
           seq == outgoing_sequence[e]
           due == ResendDue(e)
<1>1. r \in End /\ r # e /\ Peer(r) = e
  BY PeerIsOther
<1>2. AlternatingInv(e)
  BY DEF ChannelInv
<1>3. UNCHANGED <<incoming_sequence, incoming_acknowledged,
                  incoming_reliable_acknowledged, incoming_reliable_sequence,
                  reliable_sequence, reliable_buf, loaded, accepted>>
  BY DEF seqvars, relvars
<1>4. /\ last_reliable_sequence'[e] = IF due THEN seq ELSE last_reliable_sequence[e]
      /\ last_reliable_sequence[e] < seq
      /\ seq \in Nat /\ last_reliable_sequence[e] \in Nat
      /\ incoming_sequence[r] < seq /\ incoming_acknowledged[e] <= incoming_sequence[r]
      /\ incoming_sequence[r] \in Nat /\ incoming_acknowledged[e] \in Nat
  BY <1>1 DEF Send, TypeOK, ChannelInv, SequencesInv
<1>5. due => Lacks(e) /\ incoming_acknowledged[e] > last_reliable_sequence[e]
  BY <1>2 DEF AlternatingInv, AckMeans, ResendDue
<1> DEFINE p == [to |-> r, seq |-> seq, reliable |-> due,
                 ack |-> incoming_sequence[e],
                 reliable_ack |-> incoming_reliable_sequence[e],
                 block |-> IF due THEN block ELSE Empty]
<1>6. /\ net' \subseteq net \union {p}
      /\ p.to = r /\ p.seq = seq /\ p.reliable = due
      /\ due => p.block = block
  <2>1. Send(e, due, block)
    OBVIOUS
  <2>2. net' = {q \in net : q.to = Peer(e) => q.seq + Window > outgoing_sequence[e]}
          \union {p}
    BY <2>1 DEF Send
  <2> HIDE DEF due
  <2> QED
    BY <2>2
<1> HIDE DEF p
<1>7. (Has(e) <=> Has(e)') /\ (Lacks(e) <=> Lacks(e)')
  BY <1>3 DEF Has, Lacks
<1>8. \A ack \in Nat : \A bit : ack <= incoming_sequence[r] /\ AckMeans(e, ack, bit)
                                      => AckMeans(e, ack, bit)'
  BY <1>3, <1>4, <1>7 DEF AckMeans
<1>9. ASSUME NEW q \in net', q.to = e PROVE AckMeans(e, q.ack, q.reliable_ack)'
  <2>1. q \in net
    BY <1>1, <1>6, <1>9
  <2>2. q.ack <= incoming_sequence[r] /\ q.ack \in Nat
    BY <1>9, <2>1 DEF ChannelInv, SequencesInv, TypeOK, Packet
  <2>3. AckMeans(e, q.ack, q.reliable_ack)
    BY <1>2, <1>9, <2>1 DEF AlternatingInv
  <2> QED
    BY <1>8, <2>2, <2>3
<1>10. ASSUME NEW q \in net', q.to = r, q.reliable, q.seq > incoming_sequence[r]
       PROVE  q.seq = last_reliable_sequence'[e] /\ q.block.no = loaded[e] /\ Lacks(e)
  <2>1. CASE q \in net
    <3>1. q.seq = last_reliable_sequence[e] /\ q.block.no = loaded[e] /\ Lacks(e)
      BY <1>2, <1>10, <2>1 DEF AlternatingInv
    <3>2. ~due
      BY <1>4, <1>5, <1>10, <3>1
    <3> QED
      BY <1>4, <3>1, <3>2
  <2>2. CASE q = p
    <3>1. due
      BY <1>6, <1>10, <2>2
    <3>2. q.block = reliable_buf[e] /\ reliable_buf[e] # Empty
      BY <1>6, <2>2, <3>1
    <3>3. q.block.no = loaded[e]
      BY <1>2, <3>2 DEF AlternatingInv
    <3> QED
      BY <1>4, <1>5, <1>6, <2>2, <3>1, <3>3
  <2> QED
    BY <1>6, <2>1, <2>2
<1>11. AckMeans(e, incoming_acknowledged[e], incoming_reliable_acknowledged[e])'
  <2>1. AckMeans(e, incoming_acknowledged[e], incoming_reliable_acknowledged[e])
    BY <1>2 DEF AlternatingInv
  <2> QED
    BY <1>3, <1>4, <1>8, <2>1
<1> HIDE DEF r, seq, due
<1> QED
  BY <1>2, <1>3, <1>7, <1>9, <1>10, <1>11 DEF AlternatingInv, r

LEMMA TransmitInv ==
  ASSUME TypeOK, ChannelInv, NEW e \in End, NEW packed \in BOOLEAN,
         NEW opened \in BOOLEAN, Transmit(e, packed, opened)
  PROVE  ChannelInv'
<1>1. UNCHANGED <<seqvars, accepted, clearvars>>
  BY DEF Transmit
<1>2. UNCHANGED <<seqvars, accepted, aborted>>
  BY <1>1 DEF clearvars
<1>3. Peer(e) \in End /\ Peer(e) # e /\ \A f \in End : f = e \/ f = Peer(e)
  BY PeerIsOther
<1>4. ResendDue(e) \in BOOLEAN
  BY DEF ResendDue
<1>5. CASE reliable_buf[e] = Empty /\ HasData(Refill(outq[e], packed, opened))
  <2> DEFINE q == Refill(outq[e], packed, opened)
             block == Block(q, loaded[e] + 1)
  <2>1. /\ reliable_sequence' = [reliable_sequence EXCEPT ![e] = Toggle(@)]
        /\ reliable_buf' = [reliable_buf EXCEPT ![e] = block]
        /\ loaded' = [loaded EXCEPT ![e] = @ + 1]
        /\ Send(e, TRUE, block)
    BY <1>5 DEF Transmit, Load
  <2>2. block.no = loaded[e] + 1
    BY DEF Block
  <2> HIDE DEF q, block
  <2>3. /\ SequencesInv'
        /\ aborted[Peer(e)] = 0 => AlternatingInv(Peer(e))'
    <3>1. UNCHANGED <<reliable_sequence[Peer(e)], reliable_buf[Peer(e)],
                      loaded[Peer(e)]>>
      BY <1>3, <2>1 DEF TypeOK
    <3> QED
      BY <1>2, <2>1, <3>1, SendInv
  <2>4. aborted[e] = 0 => AlternatingInv(e)'
    BY <1>2, <1>5, <2>1, <2>2, LoadInv
  <2> QED
    BY <1>2, <1>3, <2>3, <2>4 DEF ChannelInv
<1>6. CASE ~(reliable_buf[e] = Empty /\ HasData(Refill(outq[e], packed, opened)))
  <2>1. PICK block : /\ Send(e, ResendDue(e), block)
                     /\ block = IF reliable_buf[e] = Empty THEN Empty
                                ELSE reliable_buf[e]
    BY <1>6 DEF Transmit, Load, Hold
  <2>2. UNCHANGED <<relvars, loaded>>
    BY <1>6 DEF Transmit, Load, Hold
  <2>3. /\ SequencesInv'
        /\ aborted[Peer(e)] = 0 => AlternatingInv(Peer(e))'
    BY <1>2, <1>4, <2>1, <2>2, SendInv DEF relvars
  <2>4. ASSUME aborted[e] = 0 PROVE AlternatingInv(e)'
    <3>1. ResendDue(e) => reliable_buf[e] # Empty
      <4>1. ResendDue(e) => Lacks(e)
        BY <2>4 DEF ChannelInv, AlternatingInv, AckMeans, ResendDue
      <4>2. ~(Has(e) /\ Lacks(e))
        BY <1>3 DEF Has, Lacks, TypeOK
      <4> QED
        BY <2>4, <4>1, <4>2 DEF ChannelInv, AlternatingInv
    <3> QED
      BY <1>2, <2>1, <2>2, <2>4, <3>1, HoldInv
  <2> QED
    BY <1>2, <1>3, <2>3, <2>4 DEF ChannelInv
<1> QED
  BY <1>5, <1>6

-----------------------------------------------------------------------------
(* Netchan_Process                                                         *)

\* A packet read by r: the block in it, if it is reliable, is the one that r
\* lacks, and what it acknowledges is true.
LEMMA ReadInv ==
  ASSUME TypeOK, ChannelInv, NEW r \in End, NEW p \in net, ReadPacket(r, p)
  PROVE  ChannelInv'
<1> DEFINE e == Peer(r)
<1>1. e \in End /\ r # e /\ Peer(e) = r /\ \A f \in End : f = e \/ f = r
  BY PeerIsOther
<1>2. /\ p.to = r /\ p.seq > incoming_sequence[r]
      /\ p.seq \in Nat /\ p.ack \in Nat /\ p.reliable \in BOOLEAN
      /\ p.block.no \in Nat
  BY DEF ReadPacket, Fresh, TypeOK, Packet, BlockType
<1>3. UNCHANGED <<outgoing_sequence, last_reliable_sequence, reliable_sequence,
                  net, loaded, aborted>>
  BY DEF ReadPacket, outvars, clearvars
<1>4. /\ incoming_sequence' = [incoming_sequence EXCEPT ![r] = p.seq]
      /\ incoming_acknowledged' = [incoming_acknowledged EXCEPT ![r] = p.ack]
      /\ incoming_reliable_acknowledged' =
           [incoming_reliable_acknowledged EXCEPT ![r] = p.reliable_ack]
      /\ incoming_reliable_sequence' =
           [incoming_reliable_sequence EXCEPT ![r] =
              IF p.reliable THEN Toggle(@) ELSE @]
      /\ reliable_buf' =
           [reliable_buf EXCEPT ![r] = IF Acknowledges(r, p) THEN Empty ELSE @]
      /\ accepted' = [accepted EXCEPT ![r] =
           IF p.reliable THEN Append(@, p.block.no) ELSE @]
  BY DEF ReadPacket, ProcessHeader
<1>5. /\ incoming_sequence'[r] = p.seq
      /\ incoming_sequence'[e] = incoming_sequence[e]
      /\ incoming_sequence[r] \in Nat /\ incoming_sequence[e] \in Nat
  BY <1>1, <1>4 DEF TypeOK
<1>6. p.seq < outgoing_sequence[e] /\ p.ack <= incoming_sequence[e]
  BY <1>2 DEF ChannelInv, SequencesInv
<1> HIDE DEF e
<1>7. SequencesInv'
  <2>1. ASSUME NEW f \in End
        PROVE  /\ incoming_sequence'[Peer(f)] < outgoing_sequence[f]
               /\ last_reliable_sequence[f] < outgoing_sequence[f]
               /\ incoming_acknowledged'[f] <= incoming_sequence'[Peer(f)]
    <3>1. /\ incoming_sequence[Peer(f)] < outgoing_sequence[f]
          /\ last_reliable_sequence[f] < outgoing_sequence[f]
          /\ incoming_acknowledged[f] <= incoming_sequence[Peer(f)]
      BY DEF ChannelInv, SequencesInv
    <3>2. incoming_acknowledged[f] \in Nat
      BY DEF TypeOK
    <3>3. CASE f = e
      BY <1>1, <1>2, <1>4, <1>5, <1>6, <3>1, <3>2, <3>3
    <3>4. CASE f = r
      <4>1. incoming_acknowledged'[f] = p.ack /\ Peer(f) = e
        BY <1>4, <3>4 DEF TypeOK, e
      <4> QED
        BY <1>5, <1>6, <3>1, <4>1
    <3> QED
      BY <1>1, <3>3, <3>4
  <2>2. ASSUME NEW q \in net
        PROVE  /\ q.seq < outgoing_sequence[Peer(q.to)]
               /\ q.ack <= incoming_sequence'[Peer(q.to)]
    <3>1. q.seq < outgoing_sequence[Peer(q.to)] /\ q.ack <= incoming_sequence[Peer(q.to)]
      BY DEF ChannelInv, SequencesInv
    <3>2. q.to \in End /\ q.ack \in Nat
      BY DEF TypeOK, Packet
    <3>3. Peer(q.to) = e \/ Peer(q.to) = r
      BY <1>1, <3>2, PeerIsOther
    <3> QED
      BY <1>2, <1>5, <3>1, <3>2, <3>3
  <2> QED
    BY <1>3, <2>1, <2>2 DEF SequencesInv
<1>8. ASSUME aborted[r] = 0 PROVE AlternatingInv(r)'
  <2>1. AlternatingInv(r)
    BY <1>8 DEF ChannelInv
  <2>2. /\ incoming_reliable_sequence'[e] = incoming_reliable_sequence[e]
        /\ accepted'[e] = accepted[e]
        /\ incoming_acknowledged'[r] = p.ack
        /\ incoming_reliable_acknowledged'[r] = p.reliable_ack
        /\ reliable_buf'[r] = IF Acknowledges(r, p) THEN Empty ELSE reliable_buf[r]
    BY <1>1, <1>4 DEF TypeOK
  <2>3. Peer(r) = e
    BY DEF e
  <2>4. (Has(r) <=> Has(r)') /\ (Lacks(r) <=> Lacks(r)')
    BY <1>3, <2>2, <2>3 DEF Has, Lacks
  <2>5. \A ack, bit : AckMeans(r, ack, bit) <=> AckMeans(r, ack, bit)'
    BY <1>3, <2>4 DEF AckMeans
  <2>6. AckMeans(r, p.ack, p.reliable_ack)
    BY <1>2, <2>1 DEF AlternatingInv
  <2>7. Acknowledges(r, p) => Has(r)
    BY <2>6 DEF Acknowledges, AckMeans
  <2>8. IF reliable_buf'[r] = Empty THEN Has(r) ELSE reliable_buf'[r].no = loaded[r]
    BY <2>1, <2>2, <2>7 DEF AlternatingInv
  <2>9. \A q \in net : q.to = r => AckMeans(r, q.ack, q.reliable_ack)
    BY <2>1 DEF AlternatingInv
  <2>10. \A q \in net :
           q.to = e /\ q.reliable /\ q.seq > incoming_sequence[e] =>
             q.seq = last_reliable_sequence[r] /\ q.block.no = loaded[r] /\ Lacks(r)
    BY <2>1, <2>3 DEF AlternatingInv
  <2>11. /\ Counting(accepted[e]) /\ (Has(r) \/ Lacks(r))
         /\ Has(r) <=> reliable_sequence[r] = incoming_reliable_sequence[e]
    BY <2>1, <2>3 DEF AlternatingInv
  <2> QED
    BY <1>3, <1>5, <2>2, <2>3, <2>4, <2>5, <2>6, <2>8, <2>9, <2>10, <2>11
       DEF AlternatingInv
<1>9. ASSUME aborted[e] = 0 PROVE AlternatingInv(e)'
  <2>1. AlternatingInv(e)
    BY <1>1, <1>9 DEF ChannelInv
  <2>2. /\ incoming_acknowledged'[e] = incoming_acknowledged[e]
        /\ incoming_reliable_acknowledged'[e] = incoming_reliable_acknowledged[e]
        /\ reliable_buf'[e] = reliable_buf[e]
    BY <1>1, <1>4 DEF TypeOK
  <2>3. CASE ~p.reliable
    <3>1. /\ incoming_reliable_sequence'[r] = incoming_reliable_sequence[r]
          /\ accepted'[r] = accepted[r]
      BY <1>4, <2>3 DEF TypeOK
    <3>2. (Has(e) <=> Has(e)') /\ (Lacks(e) <=> Lacks(e)')
      BY <1>1, <1>3, <3>1 DEF Has, Lacks
    <3>3. \A ack, bit : AckMeans(e, ack, bit) <=> AckMeans(e, ack, bit)'
      BY <1>3, <3>2 DEF AckMeans
    <3>4. \A q \in net : q.seq > p.seq => q.seq > incoming_sequence[r]
      <4>1. \A q \in net : q.seq \in Nat
        BY DEF TypeOK, Packet
      <4> QED
        BY <1>2, <1>5, <4>1
    <3> QED
      BY <1>1, <1>3, <1>5, <2>1, <2>2, <3>1, <3>2, <3>3, <3>4 DEF AlternatingInv
  <2>4. CASE p.reliable
    <3>1. p.seq = last_reliable_sequence[e] /\ p.block.no = loaded[e] /\ Lacks(e)
      BY <1>1, <1>2, <2>1, <2>4 DEF AlternatingInv
    <3>2. /\ accepted'[r] = Append(accepted[r], loaded[e])
          /\ accepted[r] \in Seq(Nat) /\ loaded[e] \in Nat
      BY <1>1, <1>4, <2>4, <3>1 DEF TypeOK
    <3>3. Len(accepted[r]) + 1 = loaded[e]
      BY <1>1, <3>1 DEF Lacks
    <3>4. Counting(accepted[r]) /\ ~Has(e)
      BY <1>1, <2>1, <3>2, <3>3 DEF AlternatingInv, Has
    <3>5. Counting(accepted'[r]) /\ Len(accepted'[r]) = loaded[e]
      BY <3>2, <3>3, <3>4, AppendProperties DEF Counting
    <3>6. Has(e)'
      BY <1>1, <1>3, <3>5 DEF Has
    <3>7. /\ incoming_reliable_sequence'[r] = Toggle(incoming_reliable_sequence[r])
          /\ incoming_reliable_sequence[r] \in Bit /\ reliable_sequence[e] \in Bit
      BY <1>1, <1>4, <2>4 DEF TypeOK
    <3>8. reliable_sequence[e] # incoming_reliable_sequence[r]
      BY <1>1, <2>1, <3>4 DEF AlternatingInv
    <3>9. reliable_sequence[e] = incoming_reliable_sequence'[r]
      BY <3>7, <3>8 DEF Bit, Toggle
    <3>10. \A ack \in Nat : \A bit : ack <= incoming_sequence[r] => AckMeans(e, ack, bit)'
      <4>1. last_reliable_sequence[e] > incoming_sequence[r]
            /\ last_reliable_sequence[e] \in Nat
        BY <1>2, <3>1
      <4> QED
        BY <1>3, <1>5, <3>6, <4>1 DEF AckMeans
    <3>11. ASSUME NEW q \in net, q.to = e PROVE AckMeans(e, q.ack, q.reliable_ack)'
      <4>1. q.ack <= incoming_sequence[r] /\ q.ack \in Nat
        BY <1>1, <3>11 DEF ChannelInv, SequencesInv, TypeOK, Packet
      <4> QED
        BY <3>10, <4>1
    <3>12. AckMeans(e, incoming_acknowledged[e], incoming_reliable_acknowledged[e])'
      <4>1. incoming_acknowledged[e] <= incoming_sequence[r]
            /\ incoming_acknowledged[e] \in Nat
        BY <1>1 DEF ChannelInv, SequencesInv, TypeOK
      <4> QED
        BY <2>2, <3>10, <4>1
    <3>13. ASSUME NEW q \in net, q.to = r, q.reliable, q.seq > p.seq PROVE FALSE
      <4>1. q.seq \in Nat
        BY DEF TypeOK, Packet
      <4>2. q.seq > incoming_sequence[r]
        BY <1>2, <1>5, <3>13, <4>1
      <4>3. q.seq = last_reliable_sequence[e]
        BY <1>1, <2>1, <3>13, <4>2 DEF AlternatingInv
      <4> QED
        BY <1>2, <3>1, <3>13, <4>3
    <3>14. reliable_buf[e] # Empty => reliable_buf[e].no = loaded[e]
      BY <2>1 DEF AlternatingInv
    <3> QED
      BY <1>1, <1>3, <1>5, <2>2, <3>5, <3>6, <3>9, <3>11, <3>12, <3>13, <3>14
         DEF AlternatingInv
  <2> QED
    BY <1>2, <2>3, <2>4
<1> QED
  BY <1>1, <1>3, <1>7, <1>8, <1>9 DEF ChannelInv

-----------------------------------------------------------------------------
(* Theorems                                                                *)

\* Each direction obeys the alternating-bit protocol in every reachable state
\* (Netchan_Transmit, Netchan_Process, Netchan_Clear).
THEOREM ChannelInvHolds == Spec => []ChannelInv
<1>1. Init => ChannelInv
  BY InitInv
<1>2. TypeOK /\ ChannelInv /\ [Next]_vars => ChannelInv'
  <2> SUFFICES ASSUME TypeOK, ChannelInv, [Next]_vars PROVE ChannelInv'
    OBVIOUS
  <2>1. ASSUME NEW e \in Writer, Queue(e) PROVE ChannelInv'
    <3>1. e \in End
      BY Sizes
    <3> QED
      BY <2>1, <3>1, QueueInv
  <2>2. ASSUME NEW e \in End, TransmitAny(e) PROVE ChannelInv'
    BY <2>2, TransmitInv, Sizes DEF TransmitAny
  <2>3. ASSUME NEW e \in End, ReadAny(e) PROVE ChannelInv'
    BY <2>3, ReadInv DEF ReadAny
  <2>4. ASSUME NEW e \in End, Clear(e) PROVE ChannelInv'
    BY <2>4, ClearInv
  <2>5. CASE UNCHANGED vars
    <3>1. UNCHANGED <<seqvars, outvars, relvars, net, blockvars, clearvars>>
      BY <2>5 DEF vars
    <3>2. SequencesInv'
      BY <3>1 DEF ChannelInv, SequencesInv, seqvars, outvars
    <3>3. ASSUME NEW f \in End, aborted'[f] = 0 PROVE AlternatingInv(f)'
      <4>1. AlternatingInv(f)
        BY <3>1, <3>3 DEF ChannelInv, clearvars
      <4> QED
        BY <3>1, <4>1 DEF AlternatingInv, AckMeans, Has, Lacks, seqvars,
                          outvars, relvars, blockvars
    <3> QED
      BY <3>2, <3>3 DEF ChannelInv
  <2> QED
    BY <2>1, <2>2, <2>3, <2>4, <2>5 DEF Next
<1> QED
  BY <1>1, <1>2, TypeCorrect, PTL DEF Spec

\* The peer accepts every block an end loads, once and in order.
THEOREM BlocksExactlyOnce == Spec => []ExactlyOnce
<1>1. TypeOK /\ ChannelInv => ExactlyOnce
  <2> SUFFICES ASSUME TypeOK, ChannelInv, NEW e \in End, aborted[e] = 0
               PROVE  /\ Counting(accepted[Peer(e)])
                      /\ Len(accepted[Peer(e)]) <= loaded[e]
                      /\ loaded[e] <= Len(accepted[Peer(e)]) + 1
    BY DEF ExactlyOnce
  <2>1. Counting(accepted[Peer(e)]) /\ (Has(e) \/ Lacks(e))
    BY DEF ChannelInv, AlternatingInv
  <2>2. Len(accepted[Peer(e)]) \in Nat /\ loaded[e] \in Nat
    BY PeerIsOther DEF TypeOK
  <2> QED
    BY <2>1, <2>2 DEF Has, Lacks
<1> QED
  BY <1>1, TypeCorrect, ChannelInvHolds, PTL

\* A sender whose reliable_buf is empty has nothing on the way: the "it has
\* been received" of Netchan_Process is true until Netchan_Clear cuts a block.
THEOREM EmptyMeansReceived == Spec => []NothingMissing
<1>1. ChannelInv => NothingMissing
  BY DEF ChannelInv, AlternatingInv, NothingMissing, Has
<1> QED
  BY <1>1, ChannelInvHolds, PTL

-----------------------------------------------------------------------------
(* Ends out of phase                                                       *)

\* Reliable packets of e that its peer may still read.
Inflight(e) == {p \in net : /\ p.to = Peer(e) /\ p.reliable
                            /\ p.seq > incoming_sequence[Peer(e)]}

\* The peer of e took block n.
Took(e, n) == \E i \in DOMAIN accepted[Peer(e)] : accepted[Peer(e)][i] = n

BitsEqual(e) == reliable_sequence[e] = incoming_reliable_sequence[Peer(e)]

\* Packet p carries the block in reliable_buf.
Carries(e, p) == reliable_buf[e] # Empty /\ p.block.no = loaded[e]

\* Whatever was cleared, an acknowledgement of the last reliable packet or of
\* a later one tells the bit the peer has now.
TellsBit(e, ack, bit) ==
  ack >= last_reliable_sequence[e] => bit = incoming_reliable_sequence[Peer(e)]

AcksInv(e) ==
  /\ TellsBit(e, incoming_acknowledged[e], incoming_reliable_acknowledged[e])
  /\ \A p \in net : p.to = e => TellsBit(e, p.ack, p.reliable_ack)

\* Blocks are numbered as they are loaded, and leave in this order.
NumbersInv(e) ==
  /\ reliable_buf[e] # Empty => reliable_buf[e].no = loaded[e] /\ loaded[e] # 0
  /\ \A i \in DOMAIN accepted[Peer(e)] : accepted[Peer(e)][i] <= loaded[e]
  /\ \A p \in net : p.to = Peer(e) =>
       p.block.no <= loaded[e] /\ (p.reliable => p.seq <= last_reliable_sequence[e])
  /\ \A p, q \in net : p.to = Peer(e) /\ q.to = Peer(e) /\ p.reliable /\ q.reliable =>
       /\ p.seq = q.seq => p = q
       /\ p.seq < q.seq /\ q.block.no # 0 => p.block.no <= q.block.no
  /\ \A p \in Inflight(e) : p.block.no # 0 =>
       \A i \in DOMAIN accepted[Peer(e)] : accepted[Peer(e)][i] <= p.block.no

\* A block is sent again only when no packet that the peer may read is left,
\* and when it was taken already only because the bits differ.
CopiesInv(e) ==
  /\ \A p, q \in Inflight(e) : p.block.no = q.block.no /\ p.block.no # 0 => p = q
  /\ \A p \in Inflight(e) : Carries(e, p) => p.seq = last_reliable_sequence[e]
  /\ reliable_buf[e] # Empty /\ Took(e, loaded[e]) =>
       \A p \in Inflight(e) : p.seq = last_reliable_sequence[e] /\ ~BitsEqual(e)

\* The bits are equal exactly when the peer has the block in reliable_buf, and
\* nothing else is under way.
InPhase(e) ==
  /\ \A p \in Inflight(e) : Carries(e, p) /\ ~Took(e, loaded[e])
  /\ BitsEqual(e) <=> reliable_buf[e] = Empty \/ Took(e, loaded[e])

\* Packets that bring a block the peer took and the sender has given up.
Again(e) ==
  {p \in Inflight(e) : p.block.no # 0 /\ Took(e, p.block.no) /\ ~Carries(e, p)}

\* Each cut of a block pays for one repetition: one that has happened, one
\* that is on its way, or one that may come of the ends being out of phase.
PhaseBound(e) ==
  Cardinality(Repeats(accepted[Peer(e)])) + Cardinality(Again(e))
     + (IF InPhase(e) THEN 0 ELSE 1) <= aborted[e]

DirectionInPhase(e) == AcksInv(e) /\ NumbersInv(e) /\ CopiesInv(e) /\ PhaseBound(e)

PhaseInv == IsFiniteSet(net) /\ \A e \in End : DirectionInPhase(e)

\* What the types and SequencesInv say of the direction e to Peer(e).
LEMMA DirectionFacts ==
  ASSUME TypeOK, SequencesInv, NEW e \in End
  PROVE  /\ Peer(e) \in End /\ Peer(e) # e /\ Peer(Peer(e)) = e
         /\ incoming_sequence[Peer(e)] \in Nat /\ incoming_acknowledged[e] \in Nat
         /\ last_reliable_sequence[e] \in Nat /\ outgoing_sequence[e] \in Nat
         /\ loaded[e] \in Nat /\ aborted[e] \in Nat
         /\ reliable_sequence[e] \in Bit /\ incoming_reliable_sequence[Peer(e)] \in Bit
         /\ accepted[Peer(e)] \in Seq(Nat)
         /\ incoming_acknowledged[e] <= incoming_sequence[Peer(e)]
         /\ incoming_sequence[Peer(e)] < outgoing_sequence[e]
         /\ last_reliable_sequence[e] < outgoing_sequence[e]
         /\ \A p \in net : /\ p.to \in End /\ p.seq \in Nat /\ p.ack \in Nat
                           /\ p.block.no \in Nat
                           /\ p.to = e => p.ack <= incoming_sequence[Peer(e)]
                           /\ p.to = Peer(e) => p.seq < outgoing_sequence[e]
<1>1. Peer(e) \in End /\ Peer(e) # e /\ Peer(Peer(e)) = e
  BY PeerIsOther
<1>2. ASSUME NEW p \in net
      PROVE  /\ p.to \in End /\ p.seq \in Nat /\ p.ack \in Nat
             /\ p.block.no \in Nat
             /\ p.to = e => p.ack <= incoming_sequence[Peer(e)]
             /\ p.to = Peer(e) => p.seq < outgoing_sequence[e]
  BY <1>1 DEF TypeOK, Packet, BlockType, SequencesInv
<1> QED
  BY <1>1, <1>2 DEF TypeOK, SequencesInv

LEMMA RepeatsFacts ==
  ASSUME NEW s \in Seq(Nat), NEW n \in Nat
  PROVE  /\ IsFiniteSet(Repeats(s)) /\ Cardinality(Repeats(s)) \in Nat
         /\ Repeats(Append(s, n)) =
              Repeats(s) \union (IF n # 0 /\ \E i \in DOMAIN s : s[i] = n
                                 THEN {Len(s) + 1} ELSE {})
         /\ Len(s) + 1 \notin Repeats(s)
<1>1. Len(s) \in Nat /\ DOMAIN s = 1..Len(s)
  OBVIOUS
<1>2. Repeats(s) \subseteq 1..Len(s)
  BY <1>1 DEF Repeats
<1>3. IsFiniteSet(Repeats(s)) /\ Cardinality(Repeats(s)) \in Nat
  <2>1. IsFiniteSet(1..Len(s))
    BY <1>1, FS_Interval
  <2> QED
    BY <1>2, <2>1, FS_Subset, FS_CardinalityType
<1>4. /\ DOMAIN Append(s, n) = 1..Len(s) + 1
      /\ Append(s, n)[Len(s) + 1] = n
      /\ \A i \in 1..Len(s) : Append(s, n)[i] = s[i]
  BY <1>1
<1> DEFINE t == Append(s, n)
<1>5. ASSUME NEW j \in 1..Len(s) PROVE j \in Repeats(t) <=> j \in Repeats(s)
  <2>1. j \in DOMAIN t /\ j \in DOMAIN s /\ t[j] = s[j] /\ 1..j-1 \subseteq 1..Len(s)
    BY <1>1, <1>4
  <2> HIDE DEF t
  <2>2. \A i \in 1..j-1 : t[i] = s[i]
    BY <1>4, <2>1 DEF t
  <2> QED
    BY <2>1, <2>2 DEF Repeats
<1>6. Len(s) + 1 \in Repeats(t) <=> n # 0 /\ \E i \in DOMAIN s : s[i] = n
  <2>1. 1..(Len(s) + 1) - 1 = DOMAIN s /\ Len(s) + 1 \in DOMAIN t /\ t[Len(s) + 1] = n
    BY <1>1, <1>4
  <2>2. \A i \in DOMAIN s : t[i] = s[i]
    BY <1>1, <1>4
  <2> HIDE DEF t
  <2> QED
    BY <2>1, <2>2 DEF Repeats
<1>7. Repeats(t) \subseteq 1..Len(s) + 1
  BY <1>4 DEF Repeats
<1>8. 1..Len(s) + 1 = 1..Len(s) \union {Len(s) + 1} /\ Len(s) + 1 \notin 1..Len(s)
  BY <1>1
<1> HIDE DEF t
<1>9. Repeats(t) = Repeats(s) \union (IF n # 0 /\ \E i \in DOMAIN s : s[i] = n
                                      THEN {Len(s) + 1} ELSE {})
  BY <1>2, <1>5, <1>6, <1>7, <1>8
<1> QED
  BY <1>2, <1>3, <1>8, <1>9 DEF t

LEMMA AgainFinite ==
  ASSUME NEW e \in End, IsFiniteSet(net)
  PROVE  IsFiniteSet(Again(e)) /\ Cardinality(Again(e)) \in Nat
BY FS_Subset, FS_CardinalityType DEF Again, Inflight

\* A step that lets the peer take nothing and brings nothing out of phase.
LEMMA BoundKept ==
  ASSUME NEW e \in End, TypeOK, IsFiniteSet(net), PhaseBound(e),
         Again(e)' \subseteq Again(e), InPhase(e) => InPhase(e)',
         UNCHANGED <<accepted[Peer(e)], aborted[e]>>
  PROVE  PhaseBound(e)'
<1>1. accepted[Peer(e)] \in Seq(Nat) /\ aborted[e] \in Nat
  BY PeerIsOther DEF TypeOK
<1>2. Cardinality(Repeats(accepted[Peer(e)])) \in Nat
  BY <1>1, RepeatsFacts
<1>3. /\ Cardinality(Again(e)) \in Nat /\ Cardinality(Again(e)') \in Nat
      /\ Cardinality(Again(e)') <= Cardinality(Again(e))
  BY AgainFinite, FS_Subset, FS_CardinalityType
<1>4. Cardinality(Repeats(accepted'[Peer(e)])) = Cardinality(Repeats(accepted[Peer(e)]))
  OBVIOUS
<1> QED
  BY <1>1, <1>2, <1>3, <1>4 DEF PhaseBound

\* A step that touches the direction only by acknowledgements of the peer, or
\* by packets that are forgotten.
LEMMA QuietPhase ==
  ASSUME TypeOK, SequencesInv, PhaseInv, NEW e \in End,
         UNCHANGED <<incoming_sequence[Peer(e)], incoming_acknowledged[e],
                     incoming_reliable_acknowledged[e],
                     incoming_reliable_sequence[Peer(e)], last_reliable_sequence[e],
                     reliable_sequence[e], reliable_buf[e], loaded[e],
                     accepted[Peer(e)], aborted[e]>>,
         \A p \in net' : \/ p \in net
                         \/ p.to = e /\ p.reliable_ack = incoming_reliable_sequence[Peer(e)]
  PROVE  DirectionInPhase(e)'
<1>1. Peer(e) \in End /\ Peer(e) # e
  BY PeerIsOther
<1>2. Inflight(e)' \subseteq Inflight(e)
  BY <1>1 DEF Inflight
<1>3. /\ \A n : Took(e, n)' <=> Took(e, n)
      /\ \A p : Carries(e, p)' <=> Carries(e, p)
      /\ BitsEqual(e)' <=> BitsEqual(e)
  BY DEF Took, Carries, BitsEqual
<1>4. AcksInv(e)'
  BY <1>1 DEF PhaseInv, DirectionInPhase, AcksInv, TellsBit
<1>5. NumbersInv(e)'
  BY <1>1, <1>2 DEF PhaseInv, DirectionInPhase, NumbersInv
<1>6. CopiesInv(e)'
  BY <1>2, <1>3 DEF PhaseInv, DirectionInPhase, CopiesInv
<1>7. PhaseBound(e)'
  <2>1. Again(e)' \subseteq Again(e)
    BY <1>2, <1>3 DEF Again
  <2>2. InPhase(e) => InPhase(e)'
    BY <1>2, <1>3 DEF InPhase
  <2> QED
    BY <2>1, <2>2, BoundKept DEF PhaseInv, DirectionInPhase
<1> QED
  BY <1>4, <1>5, <1>6, <1>7 DEF DirectionInPhase

-----------------------------------------------------------------------------
(* Netchan_Transmit                                                        *)

\* The packet that Send sends, and what it makes of the acknowledgements: none
\* of them is of the new packet.
LEMMA SendPhase ==
  ASSUME TypeOK, SequencesInv, PhaseInv, NEW e \in End,
         NEW reliable \in BOOLEAN, NEW block, Send(e, reliable, block),
         UNCHANGED seqvars
  PROVE  \E new :
           /\ net' \subseteq net \union {new} /\ IsFiniteSet(net')
           /\ new.to = Peer(e) /\ new.seq = outgoing_sequence[e]
           /\ new.reliable = reliable
           /\ new.reliable_ack = incoming_reliable_sequence[e]
           /\ new.block = IF reliable THEN block ELSE Empty
           /\ last_reliable_sequence'[Peer(e)] = last_reliable_sequence[Peer(e)]
           /\ last_reliable_sequence'[e] =
                IF reliable THEN outgoing_sequence[e] ELSE last_reliable_sequence[e]
           /\ AcksInv(e)'
<1> DEFINE new == [to |-> Peer(e), seq |-> outgoing_sequence[e],
                   reliable |-> reliable, ack |-> incoming_sequence[e],
                   reliable_ack |-> incoming_reliable_sequence[e],
                   block |-> IF reliable THEN block ELSE Empty]
           kept == {q \in net : q.to = Peer(e) => q.seq + Window > outgoing_sequence[e]}
<1>1. /\ net' = kept \union {new}
      /\ last_reliable_sequence' =
           [last_reliable_sequence EXCEPT ![e] =
              IF reliable THEN outgoing_sequence[e] ELSE @]
  BY DEF Send
<1>2. IsFiniteSet(net')
  <2>1. IsFiniteSet(kept)
    BY FS_Subset DEF PhaseInv
  <2> HIDE DEF kept, new
  <2> QED
    BY <1>1, <2>1, FS_AddElement
<1>3. /\ new.to = Peer(e) /\ new.seq = outgoing_sequence[e]
      /\ new.reliable = reliable
      /\ new.reliable_ack = incoming_reliable_sequence[e]
      /\ new.block = IF reliable THEN block ELSE Empty
      /\ kept \subseteq net
  OBVIOUS
<1> HIDE DEF new, kept
<1>4. /\ Peer(e) \in End /\ Peer(e) # e
      /\ incoming_acknowledged[e] <= incoming_sequence[Peer(e)]
      /\ incoming_sequence[Peer(e)] < outgoing_sequence[e]
      /\ \A p \in net : p.to = e => p.ack <= incoming_sequence[Peer(e)] /\ p.ack \in Nat
      /\ incoming_sequence[Peer(e)] \in Nat /\ incoming_acknowledged[e] \in Nat
      /\ outgoing_sequence[e] \in Nat
  BY DirectionFacts
<1>5. /\ last_reliable_sequence'[Peer(e)] = last_reliable_sequence[Peer(e)]
      /\ last_reliable_sequence'[e] =
           IF reliable THEN outgoing_sequence[e] ELSE last_reliable_sequence[e]
  BY <1>1, <1>4 DEF TypeOK
<1>6. AcksInv(e)'
  <2>1. UNCHANGED <<incoming_acknowledged, incoming_reliable_acknowledged,
                    incoming_reliable_sequence>>
    BY DEF seqvars
  <2>2. \A p \in net' : p.to = e => p \in net
    BY <1>1, <1>3, <1>4
  <2>3. CASE reliable
    <3>1. ~(incoming_acknowledged[e] >= last_reliable_sequence'[e])
      BY <1>4, <1>5, <2>3
    <3>2. \A p \in net : p.to = e => ~(p.ack >= last_reliable_sequence'[e])
      BY <1>4, <1>5, <2>3
    <3> QED
      BY <2>1, <2>2, <3>1, <3>2 DEF AcksInv, TellsBit
  <2>4. CASE ~reliable
    BY <1>5, <2>1, <2>2, <2>4 DEF AcksInv, TellsBit, PhaseInv, DirectionInPhase
  <2> QED
    BY <2>3, <2>4
<1> QED
  BY <1>1, <1>2, <1>3, <1>5, <1>6

\* No reliable packet may be read any more when the last one was acknowledged,
\* and the bit that was told is the bit of the peer.
LEMMA NothingInflight ==
  ASSUME TypeOK, SequencesInv, PhaseInv, NEW e \in End, NEW ack \in Nat,
         ack >= last_reliable_sequence[e], ack <= incoming_sequence[Peer(e)]
  PROVE  Inflight(e) = {}
<1>1. \A p \in Inflight(e) : /\ p.seq > incoming_sequence[Peer(e)]
                             /\ p.seq <= last_reliable_sequence[e]
                             /\ p.seq \in Nat
  BY DirectionFacts DEF PhaseInv, DirectionInPhase, NumbersInv, Inflight
<1>2. incoming_sequence[Peer(e)] \in Nat /\ last_reliable_sequence[e] \in Nat
  BY DirectionFacts
<1> QED
  BY <1>1, <1>2

\* Nothing new is loaded: the packet is not reliable, or it is sent again.
LEMMA HoldPhase ==
  ASSUME TypeOK, SequencesInv, PhaseInv, NEW e \in End,
         Send(e, ResendDue(e), reliable_buf[e]),
         UNCHANGED <<seqvars, relvars, loaded, accepted, aborted>>
  PROVE  DirectionInPhase(e)'
<1> DEFINE r == Peer(e)
<1>0. ResendDue(e) \in BOOLEAN
  BY DEF ResendDue
<1>1. PICK new :
           /\ net' \subseteq net \union {new}
           /\ new.to = r /\ new.seq = outgoing_sequence[e]
           /\ new.reliable = ResendDue(e)
           /\ new.block = IF ResendDue(e) THEN reliable_buf[e] ELSE Empty
           /\ last_reliable_sequence'[e] =
                IF ResendDue(e) THEN outgoing_sequence[e] ELSE last_reliable_sequence[e]
           /\ AcksInv(e)'
  BY <1>0, SendPhase
<1>2. UNCHANGED <<incoming_sequence, incoming_reliable_sequence, reliable_sequence,
                  reliable_buf, loaded, accepted, aborted>>
  BY DEF seqvars, relvars
<1>3. /\ r \in End /\ incoming_sequence[r] \in Nat /\ outgoing_sequence[e] \in Nat
      /\ last_reliable_sequence[e] \in Nat /\ loaded[e] \in Nat
      /\ last_reliable_sequence[e] < outgoing_sequence[e]
      /\ incoming_sequence[r] < outgoing_sequence[e]
      /\ \A p \in net : /\ p.seq \in Nat /\ p.block.no \in Nat
                        /\ p.to = r => p.seq < outgoing_sequence[e]
  BY DirectionFacts
<1>4. AcksInv(e) /\ NumbersInv(e) /\ CopiesInv(e) /\ PhaseBound(e) /\ IsFiniteSet(net)
  BY DEF PhaseInv, DirectionInPhase
<1>5. /\ \A n : Took(e, n)' <=> Took(e, n)
      /\ \A p : Carries(e, p)' <=> Carries(e, p)
      /\ BitsEqual(e)' <=> BitsEqual(e)
  BY <1>2 DEF Took, Carries, BitsEqual
<1>6. Empty.no = 0
  BY DEF Empty
<1> HIDE DEF r
<1>7. CASE ~ResendDue(e)
  <2>1. Inflight(e)' \subseteq Inflight(e)
    BY <1>1, <1>2, <1>7 DEF Inflight, r
  <2>2. NumbersInv(e)'
    <3>1. /\ \A p \in net' : p.to = r => p.block.no <= loaded[e]
          /\ \A p \in net' : p.reliable => p \in net
      BY <1>1, <1>3, <1>4, <1>6, <1>7 DEF NumbersInv, r
    <3>2. last_reliable_sequence'[e] = last_reliable_sequence[e]
      BY <1>1, <1>7
    <3> QED
      BY <1>2, <1>4, <2>1, <3>1, <3>2 DEF NumbersInv, r
  <2>3. CopiesInv(e)'
    BY <1>1, <1>2, <1>4, <1>5, <1>7, <2>1 DEF CopiesInv
  <2>4. PhaseBound(e)'
    <3>1. Again(e)' \subseteq Again(e) /\ (InPhase(e) => InPhase(e)')
      BY <1>2, <1>5, <2>1 DEF Again, InPhase
    <3> QED
      BY <1>2, <1>4, <3>1, BoundKept
  <2> QED
    BY <1>1, <2>2, <2>3, <2>4 DEF DirectionInPhase
<1>8. CASE ResendDue(e)
  <2>1. /\ incoming_acknowledged[e] > last_reliable_sequence[e]
        /\ incoming_reliable_acknowledged[e] # reliable_sequence[e]
        /\ incoming_acknowledged[e] \in Nat
        /\ incoming_acknowledged[e] <= incoming_sequence[r]
    BY <1>8, DirectionFacts DEF ResendDue, r
  <2>2. Inflight(e) = {}
    BY <1>3, <2>1, NothingInflight DEF r
  <2>3. ~BitsEqual(e)
    BY <1>3, <1>4, <2>1 DEF AcksInv, TellsBit, BitsEqual, r
  <2>4. \A p \in Inflight(e)' : p = new
    BY <1>1, <1>2, <2>2 DEF Inflight, r
  <2>5. /\ new.block = reliable_buf[e] /\ new.reliable
        /\ new.seq = last_reliable_sequence'[e] /\ new.seq = outgoing_sequence[e]
        /\ new.to = r
    BY <1>1, <1>8
  <2>6. new.block.no = IF reliable_buf[e] = Empty THEN 0 ELSE loaded[e]
    BY <1>4, <1>6, <2>5 DEF NumbersInv
  <2>7. \A i \in DOMAIN accepted[r] : accepted[r][i] <= loaded[e]
    BY <1>4 DEF NumbersInv, r
  <2>8. NumbersInv(e)'
    <3>1. ASSUME NEW p \in net', p.to = r
          PROVE  /\ p.block.no <= loaded[e] /\ p.block.no \in Nat
                 /\ p.reliable => p.seq <= last_reliable_sequence'[e]
                 /\ p # new => p \in net /\ p.seq < new.seq /\ p.seq \in Nat
      BY <1>1, <1>3, <1>4, <2>5, <2>6, <3>1 DEF NumbersInv, r
    <3>2. ASSUME NEW p \in net', NEW q \in net', p.to = r, q.to = r,
                 p.reliable, q.reliable
          PROVE  /\ p.seq = q.seq => p = q
                 /\ p.seq < q.seq /\ q.block.no # 0 => p.block.no <= q.block.no
      <4>1. CASE p # new /\ q # new
        BY <1>4, <3>1, <3>2, <4>1 DEF NumbersInv, r
      <4>2. CASE p = new \/ q = new
        BY <1>3, <2>5, <2>6, <3>1, <3>2, <4>2
      <4> QED
        BY <4>1, <4>2
    <3>3. \A p \in Inflight(e)' : p.block.no # 0 =>
             \A i \in DOMAIN accepted[r] : accepted[r][i] <= p.block.no
      BY <2>4, <2>6, <2>7
    <3> QED
      BY <1>2, <1>4, <3>1, <3>2, <3>3 DEF NumbersInv, r
  <2>9. CopiesInv(e)'
    BY <1>5, <2>3, <2>4, <2>5 DEF CopiesInv
  <2>10. PhaseBound(e)'
    <3>1. Again(e)' = {}
      BY <1>2, <1>5, <2>4, <2>6 DEF Again, Carries
    <3>2. InPhase(e) => InPhase(e)'
      BY <1>2, <1>5, <2>3, <2>4, <2>6 DEF InPhase, Carries
    <3> QED
      BY <1>2, <1>4, <3>1, <3>2, BoundKept
  <2> QED
    BY <1>1, <2>8, <2>9, <2>10 DEF DirectionInPhase
<1> QED
  BY <1>7, <1>8

\* A new block is loaded, of which the peer cannot have a copy.
LEMMA LoadPhase ==
  ASSUME TypeOK, SequencesInv, PhaseInv, NEW e \in End, NEW block,
         reliable_buf[e] = Empty,
         block.no = loaded[e] + 1,
         reliable_sequence' = [reliable_sequence EXCEPT ![e] = Toggle(@)],
         reliable_buf' = [reliable_buf EXCEPT ![e] = block],
         loaded' = [loaded EXCEPT ![e] = @ + 1],
         Send(e, TRUE, block),
         UNCHANGED <<seqvars, accepted, aborted>>
  PROVE  DirectionInPhase(e)'
<1> DEFINE r == Peer(e)
<1>1. PICK new :
           /\ net' \subseteq net \union {new}
           /\ new.to = r /\ new.seq = outgoing_sequence[e] /\ new.reliable = TRUE
           /\ new.block = block
           /\ last_reliable_sequence'[e] = outgoing_sequence[e]
           /\ AcksInv(e)'
  <2>1. PICK reliable \in BOOLEAN : reliable = TRUE
    OBVIOUS
  <2>2. Send(e, reliable, block) /\ UNCHANGED seqvars
    BY <2>1
  <2>3. PICK new :
           /\ net' \subseteq net \union {new}
           /\ new.to = r /\ new.seq = outgoing_sequence[e]
           /\ new.reliable = reliable
           /\ new.block = IF reliable THEN block ELSE Empty
           /\ last_reliable_sequence'[e] =
                IF reliable THEN outgoing_sequence[e] ELSE last_reliable_sequence[e]
           /\ AcksInv(e)'
    BY <2>2, SendPhase
  <2> QED
    BY <2>1, <2>3
<1>2. UNCHANGED <<incoming_sequence, incoming_reliable_sequence, accepted, aborted>>
  BY DEF seqvars
<1>3. /\ r \in End /\ incoming_sequence[r] \in Nat /\ outgoing_sequence[e] \in Nat
      /\ last_reliable_sequence[e] \in Nat /\ loaded[e] \in Nat
      /\ last_reliable_sequence[e] < outgoing_sequence[e]
      /\ accepted[r] \in Seq(Nat)
      /\ reliable_sequence[e] \in Bit /\ incoming_reliable_sequence[r] \in Bit
      /\ \A p \in net : /\ p.seq \in Nat /\ p.block.no \in Nat
                        /\ p.to = r => p.seq < outgoing_sequence[e]
  BY DirectionFacts
<1>4. AcksInv(e) /\ NumbersInv(e) /\ CopiesInv(e) /\ PhaseBound(e) /\ IsFiniteSet(net)
  BY DEF PhaseInv, DirectionInPhase
<1>5. /\ loaded'[e] = loaded[e] + 1 /\ reliable_buf'[e] = block /\ block # Empty
      /\ BitsEqual(e)' <=> ~BitsEqual(e)
  <2>1. reliable_sequence'[e] = Toggle(reliable_sequence[e])
    BY DEF TypeOK
  <2>2. block # Empty
    BY <1>3 DEF Empty
  <2>3. loaded'[e] = loaded[e] + 1 /\ reliable_buf'[e] = block
    BY DEF TypeOK
  <2>4. BitsEqual(e)' <=> ~BitsEqual(e)
    BY <1>2, <1>3, <2>1 DEF BitsEqual, Toggle, Bit
  <2> QED
    BY <2>2, <2>3, <2>4
<1> HIDE DEF r
<1>6. /\ \A i \in DOMAIN accepted[r] : accepted[r][i] \in Nat /\ accepted[r][i] <= loaded[e]
      /\ \A p \in net : p.to = r =>
           p.block.no <= loaded[e] /\ (p.reliable => p.seq <= last_reliable_sequence[e])
  BY <1>3, <1>4 DEF NumbersInv, r
<1>7. \A n : Took(e, n)' <=> Took(e, n)
  BY <1>2 DEF Took
<1>8. ~Took(e, loaded[e])'
  BY <1>2, <1>3, <1>5, <1>6 DEF Took, r
<1>9. ASSUME NEW p \in Inflight(e)', p # new
      PROVE  p \in Inflight(e) /\ ~Carries(e, p)' /\ ~Carries(e, p)
             /\ p.block.no <= loaded[e] /\ p.block.no \in Nat
  <2>1. p \in net /\ p.to = r /\ p \in Inflight(e)
    BY <1>1, <1>2, <1>9 DEF Inflight, r
  <2>2. p.block.no <= loaded[e] /\ p.block.no \in Nat
    BY <1>3, <1>6, <2>1
  <2> QED
    BY <1>3, <1>5, <2>1, <2>2 DEF Carries
<1>10. NumbersInv(e)'
  <2>1. ASSUME NEW p \in net', p.to = r
        PROVE  /\ p.block.no <= loaded'[e] /\ p.block.no \in Nat
               /\ p.reliable => p.seq <= last_reliable_sequence'[e]
               /\ p # new => p \in net /\ p.seq < new.seq /\ p.seq \in Nat
                             /\ p.block.no <= loaded[e]
    BY <1>1, <1>3, <1>5, <1>6, <2>1
  <2>2. ASSUME NEW p \in net', NEW q \in net', p.to = r, q.to = r,
               p.reliable, q.reliable
        PROVE  /\ p.seq = q.seq => p = q
               /\ p.seq < q.seq /\ q.block.no # 0 => p.block.no <= q.block.no
    <3>1. CASE p # new /\ q # new
      BY <1>4, <2>1, <2>2, <3>1 DEF NumbersInv, r
    <3>2. CASE p = new \/ q = new
      BY <1>1, <1>3, <2>1, <2>2, <3>2
    <3> QED
      BY <3>1, <3>2
  <2>3. ASSUME NEW p \in Inflight(e)', p.block.no # 0, NEW i \in DOMAIN accepted[r]
        PROVE  accepted[r][i] <= p.block.no
    <3>1. CASE p = new
      BY <1>1, <1>3, <1>6, <3>1
    <3>2. CASE p # new
      BY <1>4, <1>9, <2>3, <3>2 DEF NumbersInv, r
    <3> QED
      BY <3>1, <3>2
  <2>4. reliable_buf'[e].no = loaded'[e] /\ loaded'[e] # 0
    BY <1>3, <1>5
  <2>5. \A i \in DOMAIN accepted[r] : accepted[r][i] <= loaded'[e]
    BY <1>3, <1>5, <1>6
  <2> QED
    BY <1>2, <2>1, <2>2, <2>3, <2>4, <2>5 DEF NumbersInv, r
<1>11. CopiesInv(e)'
  <2>1. ASSUME NEW p \in Inflight(e)', NEW q \in Inflight(e)',
               p.block.no = q.block.no, p.block.no # 0
        PROVE  p = q
    <3>1. CASE p # new /\ q # new
      BY <1>4, <1>9, <2>1, <3>1 DEF CopiesInv
    <3>2. CASE p = new \/ q = new
      BY <1>1, <1>3, <1>9, <2>1, <3>2
    <3> QED
      BY <3>1, <3>2
  <2>2. ASSUME NEW p \in Inflight(e)', Carries(e, p)'
        PROVE  p.seq = last_reliable_sequence'[e]
    BY <1>1, <1>9, <2>2
  <2> QED
    BY <1>3, <1>8, <2>1, <2>2 DEF CopiesInv
<1>12. PhaseBound(e)'
  <2>1. Again(e)' \subseteq Again(e)
    <3>1. ASSUME NEW p \in Again(e)' PROVE p # new
      <4>1. ~Carries(e, p)'
        BY <3>1 DEF Again
      <4>2. Carries(e, new)'
        BY <1>1, <1>5 DEF Carries
      <4> QED
        BY <4>1, <4>2
    <3> QED
      BY <1>7, <1>9, <3>1 DEF Again
  <2>2. ASSUME InPhase(e) PROVE InPhase(e)'
    <3>1. Inflight(e) = {} /\ BitsEqual(e)
      BY <2>2 DEF InPhase, Carries
    <3>2. \A p \in Inflight(e)' : p = new
      BY <1>9, <3>1
    <3>3. Carries(e, new)'
      BY <1>1, <1>5 DEF Carries
    <3> QED
      BY <1>5, <1>8, <3>1, <3>2, <3>3 DEF InPhase
  <2> QED
    BY <1>2, <1>4, <2>1, <2>2, BoundKept
<1> QED
  BY <1>1, <1>10, <1>11, <1>12 DEF DirectionInPhase

LEMMA TransmitPhase ==
  ASSUME TypeOK, SequencesInv, PhaseInv, NEW e \in End, NEW packed \in BOOLEAN,
         NEW opened \in BOOLEAN, Transmit(e, packed, opened)
  PROVE  PhaseInv'
<1>1. UNCHANGED <<seqvars, accepted, clearvars>>
  BY DEF Transmit
<1>2. UNCHANGED <<seqvars, accepted, aborted>>
  BY <1>1 DEF clearvars
<1>3. Peer(e) \in End /\ Peer(e) # e /\ Peer(Peer(e)) = e
      /\ \A f \in End : f = e \/ f = Peer(e)
  BY PeerIsOther
<1>4. ResendDue(e) \in BOOLEAN
  BY DEF ResendDue
<1>5. ASSUME NEW reliable \in BOOLEAN, NEW block, Send(e, reliable, block),
             UNCHANGED <<reliable_sequence[Peer(e)], reliable_buf[Peer(e)],
                         loaded[Peer(e)]>>
      PROVE  IsFiniteSet(net') /\ DirectionInPhase(Peer(e))'
  <2>1. PICK new :
           /\ net' \subseteq net \union {new} /\ IsFiniteSet(net')
           /\ new.to = Peer(e)
           /\ new.reliable_ack = incoming_reliable_sequence[e]
           /\ last_reliable_sequence'[Peer(e)] = last_reliable_sequence[Peer(e)]
    BY <1>2, <1>5, SendPhase
  <2>2. \A p \in net' : \/ p \in net
                        \/ /\ p.to = Peer(e)
                           /\ p.reliable_ack = incoming_reliable_sequence[Peer(Peer(e))]
    BY <1>3, <2>1
  <2>3. UNCHANGED <<incoming_sequence, incoming_acknowledged,
                    incoming_reliable_acknowledged, incoming_reliable_sequence,
                    accepted, aborted>>
    BY <1>2 DEF seqvars
  <2> QED
    BY <1>3, <1>5, <2>1, <2>2, <2>3, QuietPhase
<1>6. CASE reliable_buf[e] = Empty /\ HasData(Refill(outq[e], packed, opened))
  <2> DEFINE q == Refill(outq[e], packed, opened)
             block == Block(q, loaded[e] + 1)
  <2>1. /\ reliable_sequence' = [reliable_sequence EXCEPT ![e] = Toggle(@)]
        /\ reliable_buf' = [reliable_buf EXCEPT ![e] = block]
        /\ loaded' = [loaded EXCEPT ![e] = @ + 1]
        /\ Send(e, TRUE, block)
    BY <1>6 DEF Transmit, Load
  <2>2. block.no = loaded[e] + 1
    BY DEF Block
  <2> HIDE DEF q, block
  <2>3. UNCHANGED <<reliable_sequence[Peer(e)], reliable_buf[Peer(e)],
                    loaded[Peer(e)]>>
    BY <1>3, <2>1 DEF TypeOK
  <2>4. DirectionInPhase(e)'
    BY <1>2, <1>6, <2>1, <2>2, LoadPhase
  <2> QED
    BY <1>3, <1>5, <2>1, <2>3, <2>4 DEF PhaseInv
<1>7. CASE ~(reliable_buf[e] = Empty /\ HasData(Refill(outq[e], packed, opened)))
  <2>1. Send(e, ResendDue(e), reliable_buf[e]) /\ UNCHANGED <<relvars, loaded>>
    BY <1>7 DEF Transmit, Load, Hold
  <2>2. DirectionInPhase(e)'
    BY <1>2, <2>1, HoldPhase
  <2> QED
    BY <1>3, <1>4, <1>5, <2>1, <2>2 DEF PhaseInv, relvars
<1> QED
  BY <1>6, <1>7

-----------------------------------------------------------------------------
(* Netchan_Clear                                                           *)

\* The direction of the end that cuts a block: its bit is taken back.
LEMMA CutPhase ==
  ASSUME TypeOK, SequencesInv, PhaseInv, NEW e \in End, Clear(e),
         reliable_buf[e] # Empty
  PROVE  DirectionInPhase(e)'
<1>1. /\ UNCHANGED <<incoming_sequence, incoming_acknowledged,
                     incoming_reliable_acknowledged, incoming_reliable_sequence,
                     last_reliable_sequence, net, loaded, accepted>>
      /\ reliable_buf'[e] = Empty /\ aborted'[e] = aborted[e] + 1
  BY DEF Clear, seqvars, outvars, blockvars, TypeOK
<1>2. AcksInv(e) /\ NumbersInv(e) /\ CopiesInv(e) /\ PhaseBound(e) /\ IsFiniteSet(net)
  BY DEF PhaseInv, DirectionInPhase
<1>3. /\ Inflight(e)' = Inflight(e)
      /\ \A n : Took(e, n)' <=> Took(e, n)
      /\ \A p : ~Carries(e, p)'
  BY <1>1 DEF Inflight, Took, Carries
<1>4. AcksInv(e)'
  BY <1>1, <1>2 DEF AcksInv, TellsBit
<1>5. NumbersInv(e)'
  BY <1>1, <1>2, <1>3 DEF NumbersInv
<1>6. CopiesInv(e)'
  BY <1>1, <1>2, <1>3 DEF CopiesInv
<1>7. PhaseBound(e)'
  <2> DEFINE repeats == Cardinality(Repeats(accepted[Peer(e)]))
             before == Cardinality(Again(e))
             after == Cardinality(Again(e)')
  <2>1. repeats \in Nat /\ before \in Nat /\ aborted[e] \in Nat
    BY <1>2, DirectionFacts, RepeatsFacts, AgainFinite
  <2>2. CASE \E p \in Inflight(e) : Took(e, p.block.no) /\ Carries(e, p)
    <3>1. PICK p \in Inflight(e) : Took(e, p.block.no) /\ Carries(e, p)
      BY <2>2
    <3>2. p.block.no = loaded[e] /\ p.block.no # 0 /\ ~InPhase(e)
      BY <1>2, <3>1 DEF Carries, NumbersInv, InPhase
    <3>3. \A q \in Inflight(e) : Carries(e, q) => q = p
      BY <1>2, <3>1, <3>2 DEF CopiesInv, Carries
    <3>4. Again(e)' \subseteq Again(e) \union {p}
      BY <1>3, <3>3 DEF Again
    <3>5. after \in Nat /\ after <= before + 1
      <4>1. IsFiniteSet(Again(e)) /\ p \notin Again(e)
        BY <1>2, <3>1, AgainFinite DEF Again
      <4>2. /\ IsFiniteSet(Again(e) \union {p})
            /\ Cardinality(Again(e) \union {p}) = before + 1
        BY <4>1, FS_AddElement
      <4> QED
        BY <3>4, <4>2, FS_Subset, FS_CardinalityType
    <3> HIDE DEF repeats, before, after
    <3>6. repeats + before + 1 <= aborted[e]
      BY <1>2, <3>2 DEF PhaseBound, repeats, before
    <3>7. repeats + after + 1 <= aborted'[e]
      BY <1>1, <2>1, <3>5, <3>6
    <3> QED
      BY <1>1, <2>1, <3>5, <3>7 DEF PhaseBound, repeats, after
  <2>3. CASE ~\E p \in Inflight(e) : Took(e, p.block.no) /\ Carries(e, p)
    <3>1. Again(e)' \subseteq Again(e)
      BY <1>3, <2>3 DEF Again
    <3>2. after \in Nat /\ after <= before
      BY <1>2, <3>1, AgainFinite, FS_Subset, FS_CardinalityType
    <3> HIDE DEF repeats, before, after
    <3>3. repeats + before <= aborted[e]
      <4>1. CASE InPhase(e)
        BY <1>2, <2>1, <4>1 DEF PhaseBound, repeats, before
      <4>2. CASE ~InPhase(e)
        <5>1. repeats + before + 1 <= aborted[e]
          BY <1>2, <4>2 DEF PhaseBound, repeats, before
        <5> QED
          BY <2>1, <5>1
      <4> QED
        BY <4>1, <4>2
    <3>4. repeats + after + 1 <= aborted'[e] /\ repeats + after + 0 <= aborted'[e]
      BY <1>1, <2>1, <3>2, <3>3
    <3> QED
      BY <1>1, <3>4 DEF PhaseBound, repeats, after
  <2> QED
    BY <2>2, <2>3
<1> QED
  BY <1>4, <1>5, <1>6, <1>7 DEF DirectionInPhase

LEMMA ClearPhase ==
  ASSUME TypeOK, SequencesInv, PhaseInv, NEW e \in End, Clear(e)
  PROVE  PhaseInv'
<1>1. UNCHANGED <<seqvars, outvars, net, loaded, accepted>>
  BY DEF Clear, blockvars
<1>2. UNCHANGED <<incoming_sequence, incoming_acknowledged,
                  incoming_reliable_acknowledged, incoming_reliable_sequence,
                  last_reliable_sequence, net>>
  BY <1>1 DEF seqvars, outvars
<1>3. ASSUME NEW f \in End, f # e \/ reliable_buf[e] = Empty
      PROVE  DirectionInPhase(f)'
  <2>1. UNCHANGED <<reliable_sequence[f], reliable_buf[f], aborted[f]>>
    BY <1>3, ZenonT(30) DEF Clear, relvars, TypeOK
  <2> QED
    BY <1>1, <1>2, <2>1, QuietPhase
<1>4. reliable_buf[e] # Empty => DirectionInPhase(e)'
  BY CutPhase
<1> QED
  BY <1>2, <1>3, <1>4 DEF PhaseInv

-----------------------------------------------------------------------------
(* Netchan_Process                                                         *)

\* The direction whose blocks the reader sends: an acknowledgement that counts
\* puts it in phase, since it tells the bit the peer has now.
LEMMA AcknowledgedPhase ==
  ASSUME TypeOK, SequencesInv, PhaseInv, NEW e \in End, NEW p \in net, ReadPacket(e, p)
  PROVE  DirectionInPhase(e)'
<1> DEFINE r == Peer(e)
<1>1. /\ r \in End /\ r # e /\ p.to = e /\ p.ack \in Nat
      /\ p.ack <= incoming_sequence[r]
      /\ incoming_sequence[r] \in Nat /\ last_reliable_sequence[e] \in Nat
  BY DirectionFacts DEF ReadPacket
<1>2. /\ UNCHANGED <<last_reliable_sequence, reliable_sequence, net, loaded, aborted>>
      /\ incoming_sequence'[r] = incoming_sequence[r]
      /\ incoming_reliable_sequence'[r] = incoming_reliable_sequence[r]
      /\ accepted'[r] = accepted[r]
      /\ incoming_acknowledged'[e] = p.ack
      /\ incoming_reliable_acknowledged'[e] = p.reliable_ack
      /\ reliable_buf'[e] = IF Acknowledges(e, p) THEN Empty ELSE reliable_buf[e]
  BY <1>1 DEF ReadPacket, ProcessHeader, outvars, clearvars, TypeOK
<1>3. AcksInv(e) /\ NumbersInv(e) /\ CopiesInv(e) /\ PhaseBound(e) /\ IsFiniteSet(net)
  BY DEF PhaseInv, DirectionInPhase
<1> HIDE DEF r
<1>4. /\ Inflight(e)' = Inflight(e)
      /\ \A n : Took(e, n)' <=> Took(e, n)
      /\ BitsEqual(e)' <=> BitsEqual(e)
      /\ \A q : Carries(e, q)' => Carries(e, q)
      /\ Acknowledges(e, p) \/ reliable_buf'[e] = reliable_buf[e]
      /\ Acknowledges(e, p) => \A q : ~Carries(e, q)'
  BY <1>2 DEF Inflight, Took, BitsEqual, Carries, r
<1>5. AcksInv(e)'
  BY <1>1, <1>2, <1>3 DEF AcksInv, TellsBit, r
<1>6. NumbersInv(e)'
  BY <1>2, <1>3, <1>4 DEF NumbersInv, r
<1>7. CopiesInv(e)'
  BY <1>2, <1>3, <1>4 DEF CopiesInv
<1>8. ASSUME Acknowledges(e, p) PROVE Inflight(e) = {} /\ BitsEqual(e)
  <2>1. p.ack >= last_reliable_sequence[e] /\ p.reliable_ack = reliable_sequence[e]
    BY <1>8 DEF Acknowledges
  <2>2. BitsEqual(e)
    BY <1>1, <1>3, <2>1 DEF AcksInv, TellsBit, BitsEqual
  <2> QED
    BY <1>1, <2>1, <2>2, NothingInflight DEF r
<1>9. PhaseBound(e)'
  <2>1. Again(e)' \subseteq Again(e)
    <3>1. CASE Acknowledges(e, p)
      BY <1>4, <1>8, <3>1 DEF Again
    <3>2. CASE ~Acknowledges(e, p)
      <4>1. \A q : Carries(e, q)' <=> Carries(e, q)
        BY <1>2, <3>2 DEF Carries
      <4> QED
        BY <1>4, <4>1 DEF Again
    <3> QED
      BY <3>1, <3>2
  <2>2. InPhase(e) => InPhase(e)'
    <3>1. CASE Acknowledges(e, p)
      BY <1>2, <1>4, <1>8, <3>1 DEF InPhase
    <3>2. CASE ~Acknowledges(e, p)
      <4>1. \A q : Carries(e, q)' <=> Carries(e, q)
        BY <1>2, <3>2 DEF Carries
      <4> QED
        BY <1>2, <1>4, <3>2, <4>1 DEF InPhase
    <3> QED
      BY <3>1, <3>2
  <2> QED
    BY <1>2, <1>3, <2>1, <2>2, BoundKept DEF r
<1> QED
  BY <1>5, <1>6, <1>7, <1>9 DEF DirectionInPhase

\* The direction whose block the reader takes.
LEMMA TakenPhase ==
  ASSUME TypeOK, SequencesInv, PhaseInv, NEW e \in End, NEW p \in net,
         ReadPacket(Peer(e), p), p.reliable
  PROVE  DirectionInPhase(e)'
<1> DEFINE r == Peer(e)
           no == p.block.no
           acc == accepted[r]
<1>1. /\ r \in End /\ r # e /\ p.to = r /\ p.seq > incoming_sequence[r]
      /\ p.seq \in Nat /\ no \in Nat /\ acc \in Seq(Nat)
      /\ incoming_sequence[r] \in Nat /\ last_reliable_sequence[e] \in Nat
      /\ loaded[e] \in Nat /\ aborted[e] \in Nat
      /\ reliable_sequence[e] \in Bit /\ incoming_reliable_sequence[r] \in Bit
      /\ incoming_acknowledged[e] \in Nat
      /\ incoming_acknowledged[e] <= incoming_sequence[r]
      /\ \A q \in net : /\ q.seq \in Nat /\ q.ack \in Nat /\ q.block.no \in Nat
                        /\ q.to = e => q.ack <= incoming_sequence[r]
  BY DirectionFacts DEF ReadPacket, Fresh
<1>2. /\ UNCHANGED <<last_reliable_sequence, reliable_sequence, net, loaded, aborted>>
      /\ incoming_sequence'[r] = p.seq
      /\ incoming_reliable_sequence'[r] = Toggle(incoming_reliable_sequence[r])
      /\ accepted'[r] = Append(acc, no)
      /\ incoming_acknowledged'[e] = incoming_acknowledged[e]
      /\ incoming_reliable_acknowledged'[e] = incoming_reliable_acknowledged[e]
      /\ reliable_buf'[e] = reliable_buf[e]
  BY <1>1 DEF ReadPacket, ProcessHeader, outvars, clearvars, TypeOK
<1>3. AcksInv(e) /\ NumbersInv(e) /\ CopiesInv(e) /\ PhaseBound(e) /\ IsFiniteSet(net)
  BY DEF PhaseInv, DirectionInPhase
<1>4. /\ DOMAIN accepted'[r] = 1..Len(acc) + 1 /\ DOMAIN acc = 1..Len(acc)
      /\ Len(acc) \in Nat
      /\ accepted'[r][Len(acc) + 1] = no
      /\ \A i \in 1..Len(acc) : accepted'[r][i] = acc[i] /\ acc[i] \in Nat
  BY <1>1, <1>2, SMTT(30)
<1> HIDE DEF r, no, acc
<1>5. p \in Inflight(e) /\ p.seq <= last_reliable_sequence[e] /\ no <= loaded[e]
  BY <1>1, <1>3 DEF Inflight, NumbersInv, r, no
<1>6. Inflight(e)' = {q \in Inflight(e) : q.seq > p.seq}
  <2>1. \A q \in net : q.seq > p.seq => q.seq > incoming_sequence[r]
    BY <1>1
  <2> QED
    BY <1>2, <2>1 DEF Inflight, r
<1>7. /\ \A n : Took(e, n)' <=> Took(e, n) \/ n = no
      /\ \A q : Carries(e, q)' <=> Carries(e, q)
      /\ BitsEqual(e)' <=> ~BitsEqual(e)
  <2>1. \A n : Took(e, n)' <=> Took(e, n) \/ n = no
    BY <1>4, SMTT(30) DEF Took, r, acc
  <2>2. \A q : Carries(e, q)' <=> Carries(e, q)
    BY <1>2 DEF Carries
  <2>3. BitsEqual(e)' <=> ~BitsEqual(e)
    BY <1>1, <1>2 DEF BitsEqual, Toggle, Bit, r
  <2> QED
    BY <2>1, <2>2, <2>3
<1>8. p.seq = last_reliable_sequence[e] => Inflight(e)' = {}
  <2>1. \A q \in Inflight(e) : q.seq <= last_reliable_sequence[e] /\ q.seq \in Nat
    BY <1>1, <1>3 DEF Inflight, NumbersInv, r
  <2> QED
    BY <1>1, <1>6, <2>1
<1>9. AcksInv(e)'
  <2>1. /\ ~(incoming_acknowledged[e] >= last_reliable_sequence[e])
        /\ \A q \in net : q.to = e => ~(q.ack >= last_reliable_sequence[e])
    BY <1>1, <1>5
  <2> QED
    BY <1>2, <2>1 DEF AcksInv, TellsBit
<1>10. NumbersInv(e)'
  <2>1. \A i \in DOMAIN accepted'[r] : accepted'[r][i] <= loaded[e]
    <3>1. \A i \in 1..Len(acc) : acc[i] <= loaded[e]
      BY <1>3, <1>4 DEF NumbersInv, r, acc
    <3> QED
      BY <1>4, <1>5, <3>1
  <2>2. ASSUME NEW q \in Inflight(e)', q.block.no # 0, NEW i \in DOMAIN accepted'[r]
        PROVE  accepted'[r][i] <= q.block.no
    <3>1. q \in Inflight(e) /\ q.seq > p.seq
      BY <1>6, <2>2
    <3>2. CASE i = Len(acc) + 1
      <4>1. no <= q.block.no
        BY <1>3, <1>5, <2>2, <3>1 DEF NumbersInv, Inflight, no
      <4> QED
        BY <1>4, <3>2, <4>1
    <3>3. CASE i \in 1..Len(acc)
      BY <1>3, <1>4, <2>2, <3>1, <3>3 DEF NumbersInv, r, acc
    <3> QED
      BY <1>4, <2>2, <3>2, <3>3
  <2> QED
    BY <1>2, <1>3, <2>1, <2>2 DEF NumbersInv, r
<1>11. CopiesInv(e)'
  <2>1. ASSUME reliable_buf[e] # Empty, Took(e, loaded[e]) \/ loaded[e] = no
        PROVE  p.seq = last_reliable_sequence[e]
    BY <1>3, <1>5, <2>1 DEF CopiesInv, Carries, no
  <2> QED
    BY <1>2, <1>3, <1>6, <1>7, <1>8, <2>1 DEF CopiesInv
<1>12. PhaseBound(e)'
  <2> DEFINE repeats == Cardinality(Repeats(acc))
             repeatsNew == Cardinality(Repeats(Append(acc, no)))
             again == Cardinality(Again(e))
             againNew == Cardinality(Again(e)')
  <2>1. Again(e)' \subseteq Again(e) \ {p}
    <3>1. ASSUME NEW q \in Again(e)' PROVE q \in Again(e) \ {p}
      <4>1. q \in Inflight(e) /\ q.seq > p.seq /\ q # p
        BY <1>1, <1>6, <3>1 DEF Again
      <4>2. q.block.no # 0 /\ ~Carries(e, q)
        BY <1>7, <3>1 DEF Again
      <4>3. q.block.no # no
        BY <1>3, <1>5, <4>1, <4>2 DEF CopiesInv, no
      <4>4. Took(e, q.block.no)'
        BY <3>1 DEF Again
      <4>5. Took(e, q.block.no)
        BY <1>7, <4>3, <4>4
      <4> QED
        BY <4>1, <4>2, <4>5 DEF Again
    <3> QED
      BY <3>1
  <2>2. /\ IsFiniteSet(Again(e)) /\ again \in Nat /\ againNew \in Nat
        /\ againNew <= again
        /\ p \in Again(e) => againNew + 1 <= again
    <3>1. IsFiniteSet(Again(e)) /\ again \in Nat
      BY <1>3, AgainFinite
    <3>2. Again(e)' \subseteq Again(e)
      BY <2>1
    <3>3. againNew \in Nat /\ againNew <= again
      BY <3>1, <3>2, FS_Subset, FS_CardinalityType
    <3>4. ASSUME p \in Again(e) PROVE againNew + 1 <= again
      <4>1. IsFiniteSet(Again(e) \ {p}) /\ Cardinality(Again(e) \ {p}) = again - 1
        BY <3>1, <3>4, FS_RemoveElement
      <4>2. againNew <= Cardinality(Again(e) \ {p})
        BY <2>1, <4>1, FS_Subset
      <4> HIDE DEF again, againNew
      <4> QED
        BY <3>1, <3>3, <4>1, <4>2
    <3> QED
      BY <3>1, <3>3, <3>4
  <2>3. /\ repeats \in Nat
        /\ no # 0 /\ Took(e, no) => repeatsNew = repeats + 1
        /\ ~(no # 0 /\ Took(e, no)) => repeatsNew = repeats
    <3>1. /\ IsFiniteSet(Repeats(acc)) /\ repeats \in Nat
          /\ Len(acc) + 1 \notin Repeats(acc)
          /\ Repeats(Append(acc, no)) =
               Repeats(acc) \union (IF no # 0 /\ \E i \in DOMAIN acc : acc[i] = no
                                    THEN {Len(acc) + 1} ELSE {})
      BY <1>1, RepeatsFacts
    <3>2. Took(e, no) <=> \E i \in DOMAIN acc : acc[i] = no
      BY DEF Took, acc, r
    <3>3. ASSUME no # 0, Took(e, no) PROVE repeatsNew = repeats + 1
      <4>1. Repeats(Append(acc, no)) = Repeats(acc) \union {Len(acc) + 1}
        BY <3>1, <3>2, <3>3
      <4> QED
        BY <3>1, <3>3, <4>1, FS_AddElement
    <3>4. ASSUME ~(no # 0 /\ Took(e, no)) PROVE repeatsNew = repeats
      <4>1. Repeats(Append(acc, no)) = Repeats(acc)
        BY <3>1, <3>2, <3>4
      <4> QED
        BY <3>1, <3>4, <4>1
    <3> HIDE DEF repeats, repeatsNew, no
    <3> QED
      BY <3>1, <3>3, <3>4
  <2>4. /\ repeats + again + (IF InPhase(e) THEN 0 ELSE 1) <= aborted[e]
        /\ PhaseBound(e)' <=>
             repeatsNew + againNew + (IF InPhase(e)' THEN 0 ELSE 1) <= aborted[e]
    BY <1>2, <1>3 DEF PhaseBound, acc, r
  <2> HIDE DEF repeats, repeatsNew, again, againNew
  <2>5. CASE no # 0 /\ Took(e, no) /\ ~Carries(e, p)
    <3>1. p \in Again(e) /\ ~InPhase(e)
      BY <1>5, <2>5 DEF Again, InPhase, no
    <3>2. repeats + again + 1 <= aborted[e] /\ againNew + 1 <= again
          /\ repeatsNew = repeats + 1
      BY <2>2, <2>3, <2>4, <2>5, <3>1
    <3>3. repeatsNew + againNew + 1 <= aborted[e] /\ repeatsNew + againNew + 0 <= aborted[e]
      BY <1>1, <2>2, <2>3, <3>2, SMTT(30)
    <3> QED
      BY <2>4, <3>3
  <2>6. CASE no # 0 /\ Took(e, no) /\ Carries(e, p)
    <3>1. no = loaded[e] /\ reliable_buf[e] # Empty
      BY <2>6 DEF Carries, no
    <3>2. ~BitsEqual(e) /\ p.seq = last_reliable_sequence[e] /\ ~InPhase(e)
      BY <1>3, <1>5, <2>6, <3>1 DEF CopiesInv, InPhase
    <3>3. InPhase(e)'
      <4>1. Inflight(e)' = {} /\ BitsEqual(e)'
        BY <1>7, <1>8, <3>2
      <4>2. Took(e, loaded[e])'
        BY <1>2, <1>7, <3>1 DEF Took
      <4> QED
        BY <1>2, <4>1, <4>2 DEF InPhase
    <3>4. repeats + again + 1 <= aborted[e] /\ repeatsNew = repeats + 1
      BY <2>3, <2>4, <2>6, <3>2
    <3>5. repeatsNew + againNew + 0 <= aborted[e]
      BY <1>1, <2>2, <2>3, <3>4
    <3> QED
      BY <2>4, <3>3, <3>5
  <2>7. CASE ~(no # 0 /\ Took(e, no))
    <3>1. ASSUME InPhase(e) PROVE InPhase(e)'
      <4>1. /\ Carries(e, p) /\ ~Took(e, loaded[e]) /\ no = loaded[e]
            /\ reliable_buf[e] # Empty /\ ~BitsEqual(e)
        BY <1>5, <3>1 DEF InPhase, Carries, no
      <4>2. Inflight(e)' = {}
        BY <1>3, <1>5, <1>8, <4>1 DEF CopiesInv
      <4>3. Took(e, loaded[e])' /\ BitsEqual(e)'
        BY <1>2, <1>7, <4>1 DEF Took
      <4> QED
        BY <4>2, <4>3 DEF InPhase
    <3>2. repeatsNew = repeats
      BY <2>3, <2>7
    <3>3. CASE InPhase(e)
      <4>1. repeats + again + 0 <= aborted[e]
        BY <2>4, <3>3
      <4>2. repeatsNew + againNew + 0 <= aborted[e]
        BY <1>1, <2>2, <2>3, <3>2, <4>1
      <4> QED
        BY <2>4, <3>1, <3>3, <4>2
    <3>4. CASE ~InPhase(e)
      <4>1. repeats + again + 1 <= aborted[e]
        BY <2>4, <3>4
      <4>2. /\ repeatsNew + againNew + 1 <= aborted[e]
            /\ repeatsNew + againNew + 0 <= aborted[e]
        BY <1>1, <2>2, <2>3, <3>2, <4>1
      <4> QED
        BY <2>4, <4>2
    <3> QED
      BY <3>3, <3>4
  <2> QED
    BY <2>5, <2>6, <2>7
<1> QED
  BY <1>9, <1>10, <1>11, <1>12 DEF DirectionInPhase

LEMMA ReadPhase ==
  ASSUME TypeOK, SequencesInv, PhaseInv, NEW r \in End, NEW p \in net, ReadPacket(r, p)
  PROVE  PhaseInv'
<1> DEFINE e == Peer(r)
<1>1. /\ e \in End /\ e # r /\ Peer(e) = r /\ \A f \in End : f = e \/ f = r
  BY PeerIsOther
<1>2. DirectionInPhase(r)'
  BY AcknowledgedPhase
<1>3. DirectionInPhase(e)'
  <2>1. CASE p.reliable
    BY <1>1, <2>1, TakenPhase
  <2>2. CASE ~p.reliable
    <3>1. /\ UNCHANGED <<last_reliable_sequence, reliable_sequence, net, loaded, aborted>>
          /\ incoming_sequence'[r] = p.seq
          /\ incoming_reliable_sequence'[r] = incoming_reliable_sequence[r]
          /\ accepted'[r] = accepted[r]
          /\ incoming_acknowledged'[e] = incoming_acknowledged[e]
          /\ incoming_reliable_acknowledged'[e] = incoming_reliable_acknowledged[e]
          /\ reliable_buf'[e] = reliable_buf[e]
      BY <1>1, <2>2 DEF ReadPacket, ProcessHeader, outvars, clearvars, TypeOK
    <3>2. /\ \A q \in net : q.seq \in Nat
          /\ p.seq > incoming_sequence[r] /\ incoming_sequence[r] \in Nat
      BY <1>1, DirectionFacts DEF ReadPacket, Fresh
    <3>3. AcksInv(e) /\ NumbersInv(e) /\ CopiesInv(e) /\ PhaseBound(e)
      BY <1>1 DEF PhaseInv, DirectionInPhase
    <3> HIDE DEF e
    <3>4. Inflight(e)' \subseteq Inflight(e)
      BY <1>1, <3>1, <3>2 DEF Inflight
    <3>5. /\ \A n : Took(e, n)' <=> Took(e, n)
          /\ \A q : Carries(e, q)' <=> Carries(e, q)
          /\ BitsEqual(e)' <=> BitsEqual(e)
      BY <1>1, <3>1 DEF Took, Carries, BitsEqual
    <3>6. AcksInv(e)' /\ NumbersInv(e)'
      BY <1>1, <3>1, <3>3, <3>4 DEF AcksInv, TellsBit, NumbersInv
    <3>7. CopiesInv(e)'
      BY <3>1, <3>3, <3>4, <3>5 DEF CopiesInv
    <3>8. PhaseBound(e)'
      <4>1. Again(e)' \subseteq Again(e) /\ (InPhase(e) => InPhase(e)')
        BY <3>1, <3>4, <3>5 DEF Again, InPhase
      <4> QED
        BY <1>1, <3>1, <3>3, <4>1, BoundKept DEF PhaseInv
    <3> QED
      BY <3>6, <3>7, <3>8 DEF DirectionInPhase
  <2> QED
    BY <2>1, <2>2
<1>4. IsFiniteSet(net')
  BY DEF ReadPacket, PhaseInv
<1> HIDE DEF e
<1> QED
  BY <1>1, <1>2, <1>3, <1>4 DEF PhaseInv

\* Each cut pays for one repetition at most, in every reachable state.
THEOREM PhaseInvHolds == Spec => []PhaseInv
<1>1. Init => PhaseInv
  <2>0. Init => IsFiniteSet(net)
    BY FS_EmptySet DEF Init
  <2> SUFFICES ASSUME Init, NEW e \in End
               PROVE  DirectionInPhase(e)
    BY <2>0 DEF PhaseInv
  <2>1. net = {} /\ Inflight(e) = {} /\ Again(e) = {}
    BY DEF Init, Inflight, Again
  <2>2. /\ accepted[Peer(e)] = <<>> /\ reliable_buf[e] = Empty /\ BitsEqual(e)
        /\ aborted[e] = 0
    BY PeerIsOther DEF Init, BitsEqual
  <2>3. AcksInv(e) /\ NumbersInv(e) /\ CopiesInv(e) /\ InPhase(e)
    <3>1. AcksInv(e)
      BY <2>1, PeerIsOther DEF Init, AcksInv, TellsBit
    <3>2. NumbersInv(e) /\ CopiesInv(e)
      BY <2>1, <2>2 DEF NumbersInv, CopiesInv
    <3>3. InPhase(e)
      BY <2>1, <2>2 DEF InPhase
    <3> QED
      BY <3>1, <3>2, <3>3
  <2>4. Repeats(<<>>) = {} /\ Cardinality({}) = 0
    BY FS_EmptySet DEF Repeats
  <2>5. PhaseBound(e)
    <3>1. Repeats(accepted[Peer(e)]) = {} /\ Cardinality({}) = 0 /\ 0 + 0 + 0 <= 0
      BY <2>2, <2>4
    <3>2. PhaseBound(e) <=> 0 + 0 + 0 <= aborted[e]
      BY <2>1, <2>3, <3>1 DEF PhaseBound
    <3> QED
      BY <2>2, <3>1, <3>2
  <2> QED
    BY <2>1, <2>3, <2>5 DEF DirectionInPhase
<1>2. TypeOK /\ ChannelInv /\ PhaseInv /\ [Next]_vars => PhaseInv'
  <2> SUFFICES ASSUME TypeOK, ChannelInv, PhaseInv, [Next]_vars PROVE PhaseInv'
    OBVIOUS
  <2>0. SequencesInv
    BY DEF ChannelInv
  <2>1. CASE \/ \E e \in Writer : Queue(e)
             \/ UNCHANGED vars
    <3>1. UNCHANGED <<seqvars, outvars, relvars, net, blockvars, clearvars>>
      BY <2>1 DEF Queue, Write, CreateFragments, CreateFileFragments, vars
    <3>2. UNCHANGED <<incoming_sequence, incoming_acknowledged,
                      incoming_reliable_acknowledged, incoming_reliable_sequence,
                      last_reliable_sequence, reliable_sequence, reliable_buf,
                      loaded, accepted, aborted, net>>
      BY <3>1 DEF seqvars, outvars, relvars, blockvars, clearvars
    <3>3. \A e \in End : DirectionInPhase(e)'
      BY <2>0, <3>2, QuietPhase
    <3> QED
      BY <3>2, <3>3 DEF PhaseInv
  <2>2. ASSUME NEW e \in End, TransmitAny(e) PROVE PhaseInv'
    BY <2>0, <2>2, TransmitPhase, Sizes DEF TransmitAny
  <2>3. ASSUME NEW e \in End, ReadAny(e) PROVE PhaseInv'
    BY <2>0, <2>3, ReadPhase DEF ReadAny
  <2>4. ASSUME NEW e \in End, Clear(e) PROVE PhaseInv'
    BY <2>0, <2>4, ClearPhase
  <2> QED
    BY <2>1, <2>2, <2>3, <2>4 DEF Next
<1> QED
  BY <1>1, <1>2, TypeCorrect, ChannelInvHolds, PTL DEF Spec

\* Netchan_Clear or not, the bit and the sequence numbers of Netchan_Process
\* let no block be accepted after a later one.
THEOREM BlocksNeverGoBack == Spec => []NeverBackwards
<1>1. Init => NeverBackwards
  BY PeerIsOther DEF Init, NeverBackwards
<1>2. TypeOK /\ ChannelInv /\ PhaseInv /\ NeverBackwards /\ [Next]_vars
        => NeverBackwards'
  <2> SUFFICES ASSUME TypeOK, ChannelInv, PhaseInv, NeverBackwards, [Next]_vars
               PROVE  NeverBackwards'
    OBVIOUS
  <2>1. ASSUME NEW r \in End, NEW p \in net, ReadPacket(r, p)
        PROVE  NeverBackwards'
    <3>1. Peer(r) \in End /\ Peer(Peer(r)) = r
      BY PeerIsOther
    <3>2. /\ accepted[r] \in Seq(Nat) /\ p.block.no \in Nat
          /\ p.to = r /\ p.seq > incoming_sequence[r]
      BY <2>1 DEF TypeOK, Packet, BlockType, ReadPacket, Fresh
    <3>3. \A e \in End : e # r => accepted'[e] = accepted[e]
      BY <2>1 DEF ReadPacket, ProcessHeader, TypeOK
    <3>4. ASSUME p.reliable,
                 NEW i \in DOMAIN accepted'[r], NEW j \in DOMAIN accepted'[r],
                 i < j, accepted'[r][j] # 0
          PROVE  accepted'[r][i] <= accepted'[r][j]
      <4>1. accepted'[r] = Append(accepted[r], p.block.no)
        BY <2>1, <3>4 DEF ReadPacket, ProcessHeader, TypeOK
      <4>2. p \in Inflight(Peer(r))
        BY <3>1, <3>2, <3>4 DEF Inflight
      <4>3. p.block.no # 0 =>
              \A k \in DOMAIN accepted[r] : accepted[r][k] <= p.block.no
        BY <3>1, <4>2 DEF PhaseInv, DirectionInPhase, NumbersInv
      <4>4. /\ DOMAIN accepted'[r] = 1..Len(accepted[r]) + 1
            /\ DOMAIN accepted[r] = 1..Len(accepted[r]) /\ Len(accepted[r]) \in Nat
            /\ accepted'[r][Len(accepted[r]) + 1] = p.block.no
            /\ \A k \in 1..Len(accepted[r]) : accepted'[r][k] = accepted[r][k]
        BY <3>2, <4>1
      <4>5. i \in 1..Len(accepted[r])
        BY <3>4, <4>4
      <4> QED
        BY <3>4, <4>3, <4>4, <4>5 DEF NeverBackwards
    <3>5. ~p.reliable => accepted'[r] = accepted[r]
      BY <2>1 DEF ReadPacket, ProcessHeader, TypeOK
    <3> QED
      BY <3>3, <3>4, <3>5 DEF NeverBackwards
  <2>2. CASE UNCHANGED accepted
    BY <2>2 DEF NeverBackwards
  <2>3. (\E r \in End, p \in net : ReadPacket(r, p)) \/ UNCHANGED accepted
    BY DEF Next, Queue, Write, CreateFragments, CreateFileFragments, TransmitAny,
           Transmit, ReadAny, Clear, vars, blockvars
  <2> QED
    BY <2>1, <2>2, <2>3
<1> QED
  BY <1>1, <1>2, TypeCorrect, ChannelInvHolds, PhaseInvHolds, PTL DEF Spec

\* What one Netchan_Clear on a live channel can repeat: one block.
THEOREM OneRepeatPerCut == Spec => []RepeatsBounded
<1>1. TypeOK /\ PhaseInv => RepeatsBounded
  <2> SUFFICES ASSUME TypeOK, PhaseInv, NEW e \in End
               PROVE  Cardinality(Repeats(accepted[Peer(e)])) <= aborted[e]
    BY DEF RepeatsBounded
  <2>1. /\ Cardinality(Repeats(accepted[Peer(e)])) \in Nat /\ aborted[e] \in Nat
        /\ Cardinality(Again(e)) \in Nat
    BY PeerIsOther, RepeatsFacts, AgainFinite DEF TypeOK, PhaseInv
  <2>2. Cardinality(Repeats(accepted[Peer(e)])) + Cardinality(Again(e))
          + (IF InPhase(e) THEN 0 ELSE 1) <= aborted[e]
    BY DEF PhaseInv, DirectionInPhase, PhaseBound
  <2> QED
    BY <2>1, <2>2
<1> QED
  BY <1>1, TypeCorrect, PhaseInvHolds, PTL

-----------------------------------------------------------------------------
(***************************************************************************)
(* The stream of units, and messages and files                             *)
(***************************************************************************)

\* The units after a up to b.
Units(a, b) == [i \in 1..b-a |-> a + i]

\* The first j fragments of a source as the peer keeps them, and those after
\* them as the sender does.
Received(src, j) == [i \in 1..j |-> [id |-> i, count |-> Chunks(src), src |-> src]]
ToSend(src, j) == [i \in 1..Chunks(src)-j |-> [id |-> j + i, src |-> src]]

\* The block that the peer of e still lacks.
Pending(e) == IF Lacks(e) THEN reliable_buf[e] ELSE Empty

\* No source of a stream is under way.
Idle(q, block, bufs, s) ==
  q.fragbufs[s] = <<>> /\ block.frag[s] = NoFrag /\ bufs = <<>>

\* One is, of which the peer has the first fragments and the sender the last;
\* the one between them may be in the block.
Between(q, block, bufs, s, src) ==
  LET j == Len(bufs)
  IN  /\ j < Chunks(src) /\ bufs = Received(src, j)
      /\ q.fragbufs[s] # <<>> => q.fragbufcount[s] = Chunks(src)
      /\ \/ block.frag[s] = NoFrag /\ q.fragbufs[s] = ToSend(src, j)
         \/ /\ block.frag[s] = [id |-> j + 1, count |-> Chunks(src), src |-> src]
            /\ q.fragbufs[s] = ToSend(src, j + 1)

\* The waiting list w holds the units after k up to c, cut into messages.
Waiting(w, k, c) ==
  \E cut \in [0..Len(w) -> k..c] :
    /\ cut[0] = k /\ cut[Len(w)] = c
    /\ \A i, j \in 0..Len(w) : i < j => cut[i] < cut[j]
    /\ \A i \in 1..Len(w) : /\ w[i].units = Units(cut[i-1], cut[i])
                            /\ w[i].file = NoFile /\ ~w[i].deferred

\* The units after k up to n wait: first those of the waiting list, then those
\* of chan->message.
Queued(q, k, n) ==
  \E c \in k..n : Waiting(q.waitlist["normal"], k, c) /\ q.message = Units(c, n)

\* One direction of the normal stream: q is the queues, block what the peer
\* lacks, bufs and got what it has, n how much was queued.
NormalFlow(q, block, bufs, got, n) ==
  \E k \in 0..n :
    /\ \/ Idle(q, block, bufs, "normal") /\ got \o block.regular = Units(0, k)
       \/ \E src \in Source :
            /\ Between(q, block, bufs, "normal", src) /\ block.regular = <<>>
            /\ src.file = NoFile /\ Len(got) < k
            /\ got = Units(0, Len(got)) /\ src.units = Units(Len(got), k)
    /\ ~q.overflowed => Queued(q, k, n)

\* One direction of the file stream, of which m files are done with; the others
\* are on their way or wait.
FileFlow(q, block, bufs, got, queued, lost) ==
  LET w == q.waitlist["file"]
  IN  \E m \in 0..Len(queued) :
    /\ GotFiles(got, queued, lost, m)
    /\ lost \subseteq {queued[i] : i \in 1..m}
    /\ \/ Idle(q, block, bufs, "file") /\ Len(w) = Len(queued) - m
       \/ /\ m < Len(queued) /\ Len(w) = Len(queued) - m - 1
          /\ \E src \in Source : /\ Between(q, block, bufs, "file", src)
                                /\ src.file = queued[m+1]
    /\ \A i \in 1..Len(w) : w[i].file = queued[Len(queued) - Len(w) + i]

Distinct(queued) == \A i, j \in 1..Len(queued) : queued[i] = queued[j] => i = j

\* Every packet that the peer may still read carries the block it lacks.
Carried(e) ==
  /\ \A p \in net : p.to = Peer(e) /\ p.reliable /\ p.seq > incoming_sequence[Peer(e)] =>
       p.block = reliable_buf[e]
  /\ \A p \in net : p.to = Peer(e) /\ ~p.reliable => p.block = Empty

DirectionInv(e) ==
  LET r == Peer(e)
  IN  /\ alive[r] /\ Carried(e)
      /\ Distinct(filesQueued[e])
      /\ NormalFlow(outq[e], Pending(e), incomingbufs[r]["normal"], delivered[r], written[e])
      /\ FileFlow(outq[e], Pending(e), incomingbufs[r]["file"], filesGot[r],
                  filesQueued[e], filesLost[e])

StreamInv ==
  /\ \A e \in End : clears[e] = 0 => aborted[e] = 0
  /\ Uncleared => \A e \in End : DirectionInv(e)

-----------------------------------------------------------------------------
(* Runs of units                                                           *)

LEMMA UnitsSeq ==
  ASSUME NEW a \in Nat, NEW b \in Nat, a <= b
  PROVE  /\ Units(a, b) \in Seq(Nat) /\ Len(Units(a, b)) = b - a
         /\ \A i \in 1..b-a : Units(a, b)[i] = a + i
<1>1. b - a \in Nat /\ \A i \in 1..b-a : a + i \in Nat
  OBVIOUS
<1> QED
  BY <1>1 DEF Units

LEMMA UnitsEmpty ==
  ASSUME NEW a \in Nat, NEW b \in Nat, a <= b
  PROVE  Units(a, b) = <<>> <=> a = b
<1>1. Units(a, b) \in Seq(Nat) /\ Len(Units(a, b)) = b - a
  BY UnitsSeq
<1>2. Units(a, b) = <<>> <=> Len(Units(a, b)) = 0
  BY <1>1, EmptySeq
<1> QED
  BY <1>1, <1>2

LEMMA UnitsJoin ==
  ASSUME NEW a \in Nat, NEW b \in Nat, NEW c \in Nat, a <= b, b <= c
  PROVE  Units(a, b) \o Units(b, c) = Units(a, c)
<1> DEFINE u == Units(a, b)
           v == Units(b, c)
           w == Units(a, c)
<1>1. /\ u \in Seq(Nat) /\ Len(u) = b - a /\ \A i \in 1..b-a : u[i] = a + i
      /\ v \in Seq(Nat) /\ Len(v) = c - b /\ \A i \in 1..c-b : v[i] = b + i
      /\ w \in Seq(Nat) /\ Len(w) = c - a /\ \A i \in 1..c-a : w[i] = a + i
  <2>1. a <= c
    OBVIOUS
  <2> QED
    BY <2>1, UnitsSeq
<1> HIDE DEF u, v, w
<1>2. /\ u \o v \in Seq(Nat) /\ Len(u \o v) = Len(u) + Len(v)
      /\ \A i \in 1..Len(u) + Len(v) :
           (u \o v)[i] = IF i <= Len(u) THEN u[i] ELSE v[i - Len(u)]
  BY <1>1, ConcatProperties
<1>3. Len(u \o v) = Len(w)
  BY <1>1, <1>2
<1>4. ASSUME NEW i \in 1..Len(w) PROVE (u \o v)[i] = w[i]
  <2>1. i \in 1..Len(u) + Len(v)
    BY <1>1
  <2>2. CASE i <= Len(u)
    <3>1. i \in 1..b-a /\ (u \o v)[i] = u[i]
      BY <1>1, <1>2, <2>1, <2>2
    <3> QED
      BY <1>1, <3>1
  <2>3. CASE ~(i <= Len(u))
    <3>1. /\ i \in Nat /\ i > b - a /\ i <= c - a /\ Len(u) = b - a
          /\ i - (b - a) \in 1..c-b /\ i \in 1..c-a
          /\ b + (i - (b - a)) = a + i
      BY <1>1, <2>1, <2>3
    <3>2. (u \o v)[i] = v[i - (b - a)]
      BY <1>2, <2>1, <2>3, <3>1
    <3>3. v[i - (b - a)] = b + (i - (b - a)) /\ w[i] = a + i
      BY <1>1, <3>1
    <3> QED
      BY <3>1, <3>2, <3>3
  <2> QED
    BY <2>2, <2>3
<1> QED
  BY <1>1, <1>2, <1>3, <1>4, SeqEqual DEF u, v, w

\* A source that is not empty has a fragment.
LEMMA ChunksPositive ==
  ASSUME NEW src \in Source, src.file # NoFile \/ src.units # <<>>
  PROVE  Chunks(src) \in Nat \ {0}
<1>1. ASSUME NEW n \in Nat \ {0}, NEW d \in Nat \ {0}
      PROVE  Ceil(n, d) \in Nat \ {0}
  <2>1. (n + d - 1) \div d >= 1
    <3> DEFINE q == (n + d - 1) \div d
               r == (n + d - 1) % d
    <3>1. n + d - 1 = d * q + r /\ r \in 0..d-1 /\ q \in Int
      OBVIOUS
    <3> HIDE DEF q, r
    <3>2. d * q >= 1
      BY <3>1
    <3>3. q >= 1
      BY <3>1, <3>2
    <3> QED
      BY <3>3 DEF q
  <2> QED
    BY <2>1, CeilNat DEF Ceil
<1>2. CASE src.file # NoFile
  BY <1>2, Sizes DEF Chunks
<1>3. CASE src.file = NoFile
  <2>1. Len(src.units) \in Nat \ {0}
    BY <1>3, EmptySeq DEF Source
  <2>2. Ceil(Len(src.units), BlockSize) \in Nat \ {0}
    BY <1>1, <2>1, Sizes
  <2>3. 2 \in Nat \ {0}
    OBVIOUS
  <2>4. Ceil(Ceil(Len(src.units), BlockSize), 2) \in Nat \ {0}
    BY <1>1, <2>2, <2>3
  <2> QED
    BY <1>3, <2>2, <2>4 DEF Chunks
<1> QED
  BY <1>2, <1>3

-----------------------------------------------------------------------------
(* The waiting list of the normal stream                                   *)

LEMMA WaitingEmpty ==
  ASSUME NEW k \in Nat
  PROVE  Waiting(<<>>, k, k)
<1> DEFINE cut == [i \in 0..0 |-> k]
<1>1. /\ cut \in [0..Len(<<>>) -> k..k] /\ cut[0] = k /\ Len(<<>>) = 0
  OBVIOUS
<1> HIDE DEF cut
<1> QED
  BY <1>1 DEF Waiting

LEMMA WaitingNil ==
  ASSUME NEW k, NEW c, Waiting(<<>>, k, c)
  PROVE  c = k
BY DEF Waiting

LEMMA WaitingAppend ==
  ASSUME NEW w \in Seq(Source), NEW k \in Nat, NEW c \in Nat, NEW d \in Nat,
         k <= c, c < d, Waiting(w, k, c), NEW packed \in BOOLEAN
  PROVE  Waiting(Append(w, Message(Units(c, d), packed)), k, d)
<1>1. PICK cut \in [0..Len(w) -> k..c] :
        /\ cut[0] = k /\ cut[Len(w)] = c
        /\ \A i, j \in 0..Len(w) : i < j => cut[i] < cut[j]
        /\ \A i \in 1..Len(w) : /\ w[i].units = Units(cut[i-1], cut[i])
                                /\ w[i].file = NoFile /\ ~w[i].deferred
  BY DEF Waiting
<1> DEFINE m == Message(Units(c, d), packed)
           w1 == Append(w, m)
           n == Len(w)
           cut1 == [i \in 0..n+1 |-> IF i = n + 1 THEN d ELSE cut[i]]
<1>2. n \in Nat /\ Len(w1) = n + 1 /\ w1[n+1] = m /\ \A i \in 1..n : w1[i] = w[i]
  OBVIOUS
<1>3. m.units = Units(c, d) /\ m.file = NoFile /\ m.deferred = FALSE
  BY DEF Message
<1> HIDE DEF m, w1, n
<1>4. \A i \in 0..n : cut[i] \in k..c
  BY <1>1 DEF n
<1>5. cut1 \in [0..n+1 -> k..d]
  BY <1>2, <1>4
<1>6. cut1[0] = k /\ cut1[n+1] = d /\ cut1[n] = c /\ \A i \in 0..n : cut1[i] = cut[i]
  BY <1>1, <1>2 DEF n
<1> HIDE DEF cut1
<1>7. ASSUME NEW i \in 0..n+1, NEW j \in 0..n+1, i < j PROVE cut1[i] < cut1[j]
  <2>1. i \in 0..n
    BY <1>2, <1>7
  <2>2. CASE j = n + 1
    BY <1>4, <1>6, <2>1, <2>2
  <2>3. CASE j \in 0..n
    BY <1>1, <1>6, <1>7, <2>1, <2>3 DEF n
  <2> QED
    BY <1>2, <2>2, <2>3
<1>8. ASSUME NEW i \in 1..n+1
      PROVE  /\ w1[i].units = Units(cut1[i-1], cut1[i])
             /\ w1[i].file = NoFile /\ ~w1[i].deferred
  <2>1. CASE i = n + 1
    <3>1. i - 1 = n
      BY <1>2, <2>1
    <3> QED
      BY <1>2, <1>3, <1>6, <2>1, <3>1
  <2>2. CASE i \in 1..n
    <3>1. i - 1 \in 0..n /\ i \in 0..n
      BY <1>2, <2>2
    <3> QED
      BY <1>1, <1>2, <1>6, <2>2, <3>1 DEF n
  <2> QED
    BY <1>2, <2>1, <2>2
<1>9. Waiting(w1, k, d)
  BY <1>2, <1>5, <1>6, <1>7, <1>8 DEF Waiting
<1> QED
  BY <1>9 DEF w1, m

LEMMA WaitingTail ==
  ASSUME NEW w \in Seq(Source), NEW k \in Nat, NEW c \in Nat, k <= c,
         w # <<>>, Waiting(w, k, c)
  PROVE  \E b \in k+1..c :
           /\ Head(w).units = Units(k, b) /\ Head(w).file = NoFile /\ ~Head(w).deferred
           /\ Waiting(Tail(w), b, c)
<1>1. PICK cut \in [0..Len(w) -> k..c] :
        /\ cut[0] = k /\ cut[Len(w)] = c
        /\ \A i, j \in 0..Len(w) : i < j => cut[i] < cut[j]
        /\ \A i \in 1..Len(w) : /\ w[i].units = Units(cut[i-1], cut[i])
                                /\ w[i].file = NoFile /\ ~w[i].deferred
  BY DEF Waiting
<1> DEFINE n == Len(w) - 1
           t == Tail(w)
           b == cut[1]
           cut1 == [i \in 0..n |-> cut[i+1]]
<1>2. n \in Nat /\ Len(w) = n + 1 /\ Len(t) = n /\ Head(w) = w[1]
      /\ \A i \in 1..n : t[i] = w[i+1]
  BY EmptySeq
<1> HIDE DEF n, t
<1>3. /\ b \in k+1..c /\ Head(w).units = Units(k, b)
      /\ Head(w).file = NoFile /\ ~Head(w).deferred
  <2>1. 1 \in 1..Len(w) /\ 1 \in 0..Len(w) /\ 0 \in 0..Len(w)
    BY <1>2
  <2>2. cut[1] \in k..c /\ cut[0] < cut[1] /\ w[1].units = Units(cut[0], cut[1])
        /\ w[1].file = NoFile /\ ~w[1].deferred
    <3>1. 1 - 1 = 0
      OBVIOUS
    <3> QED
      BY <1>1, <2>1, <3>1
  <2> QED
    BY <1>1, <1>2, <2>2
<1>4. cut1 \in [0..n -> b..c]
  <2> SUFFICES ASSUME NEW i \in 0..n PROVE cut[i+1] \in b..c
    OBVIOUS
  <2>1. i + 1 \in 0..Len(w) /\ 1 \in 0..Len(w) /\ (i + 1 = 1 \/ 1 < i + 1)
    BY <1>2
  <2>2. cut[i+1] \in k..c /\ (i + 1 = 1 \/ cut[1] < cut[i+1])
    BY <1>1, <2>1
  <2> QED
    BY <1>3, <2>2
<1>5. cut1[0] = b /\ cut1[n] = c
  BY <1>1, <1>2
<1>6. ASSUME NEW i \in 0..n, NEW j \in 0..n, i < j PROVE cut1[i] < cut1[j]
  <2>1. i + 1 \in 0..Len(w) /\ j + 1 \in 0..Len(w) /\ i + 1 < j + 1
    BY <1>2, <1>6
  <2> QED
    BY <1>1, <2>1
<1>7. ASSUME NEW i \in 1..n
      PROVE  /\ t[i].units = Units(cut1[i-1], cut1[i])
             /\ t[i].file = NoFile /\ ~t[i].deferred
  <2>1. /\ i + 1 \in 1..Len(w) /\ i \in 0..n /\ i - 1 \in 0..n
        /\ (i + 1) - 1 = i /\ (i - 1) + 1 = i
    BY <1>2
  <2>2. cut1[i-1] = cut[(i+1)-1] /\ cut1[i] = cut[i+1]
    BY <2>1
  <2> QED
    BY <1>1, <1>2, <2>1, <2>2
<1> HIDE DEF cut1
<1>8. Waiting(t, b, c)
  BY <1>2, <1>4, <1>5, <1>6, <1>7 DEF Waiting
<1> QED
  BY <1>3, <1>8 DEF t

-----------------------------------------------------------------------------
(* The queues when Netchan_Transmit fills them up                          *)

NormalPart(q) ==
  <<q.waitlist["normal"], q.fragbufs["normal"], q.fragbufcount["normal"],
    q.message, q.overflowed>>
FilePart(q) ==
  <<q.waitlist["file"], q.fragbufs["file"], q.fragbufcount["file"]>>

LEMMA CreateFrame ==
  ASSUME NEW q \in OutQueue, NEW units \in Seq(Nat), NEW packed \in BOOLEAN
  PROVE  LET r == CreateFragments_(q, units, packed)
         IN  /\ FilePart(r) = FilePart(q)
             /\ r.fragbufs = q.fragbufs /\ r.fragbufcount = q.fragbufcount
             /\ r.message = q.message /\ r.overflowed = q.overflowed
             /\ r.waitlist["normal"] =
                  IF units = <<>> THEN q.waitlist["normal"]
                  ELSE Append(q.waitlist["normal"], Message(units, packed))
BY DEF CreateFragments_, OutQueue, STREAM, FilePart

LEMMA SpillFrame ==
  ASSUME NEW q \in OutQueue, NEW packed \in BOOLEAN
  PROVE  LET r == Spill(q, packed)
         IN  /\ FilePart(r) = FilePart(q)
             /\ r.fragbufs = q.fragbufs /\ r.fragbufcount = q.fragbufcount
             /\ r.message = <<>> /\ r.overflowed = q.overflowed
             /\ r.waitlist["normal"] =
                  IF q.message = <<>> THEN q.waitlist["normal"]
                  ELSE Append(q.waitlist["normal"], Message(q.message, packed))
<1> DEFINE c == CreateFragments_(q, q.message, packed)
<1>1. q.message \in Seq(Nat)
  BY DEF OutQueue
<1>2. c \in OutQueue
  BY <1>1, SpillType
<1>3. /\ FilePart(c) = FilePart(q)
      /\ c.fragbufs = q.fragbufs /\ c.fragbufcount = q.fragbufcount
      /\ c.overflowed = q.overflowed
      /\ c.waitlist["normal"] =
           IF q.message = <<>> THEN q.waitlist["normal"]
           ELSE Append(q.waitlist["normal"], Message(q.message, packed))
  BY <1>1, CreateFrame
<1>4. Spill(q, packed) = [c EXCEPT !.message = <<>>]
  BY DEF Spill
<1> HIDE DEF c
<1> QED
  BY <1>2, <1>3, <1>4 DEF OutQueue, FilePart

\* Spilled units wait where they waited.
LEMMA SpillQueued ==
  ASSUME NEW q \in OutQueue, NEW packed \in BOOLEAN,
         NEW k \in Nat, NEW n \in Nat, k <= n, Queued(q, k, n)
  PROVE  Queued(Spill(q, packed), k, n)
<1>1. PICK c \in k..n : Waiting(q.waitlist["normal"], k, c) /\ q.message = Units(c, n)
  BY DEF Queued
<1> DEFINE r == Spill(q, packed)
<1>2. /\ r.message = <<>>
      /\ r.waitlist["normal"] =
           IF q.message = <<>> THEN q.waitlist["normal"]
           ELSE Append(q.waitlist["normal"], Message(q.message, packed))
  BY SpillFrame
<1> HIDE DEF r
<1>3. c \in Nat /\ c <= n /\ k <= c /\ (q.message = <<>> <=> c = n)
  BY <1>1, UnitsEmpty
<1>4. Units(n, n) = <<>> /\ n \in k..n
  BY UnitsEmpty
<1>5. Waiting(r.waitlist["normal"], k, n)
  <2>1. CASE c = n
    BY <1>1, <1>2, <1>3, <2>1
  <2>2. CASE c # n
    <3>1. q.waitlist["normal"] \in Seq(Source) /\ c < n
      BY <1>3, <2>2 DEF OutQueue, STREAM
    <3> QED
      BY <1>1, <1>2, <1>3, <2>2, <3>1, WaitingAppend
  <2> QED
    BY <2>1, <2>2
<1> QED
  BY <1>2, <1>4, <1>5 DEF Queued, r

\* One turn of the loop of Netchan_FragSend leaves the other stream alone.
LEMMA FragSendFrame ==
  ASSUME NEW q \in OutQueue, NEW opened \in BOOLEAN
  PROVE  /\ FilePart(FragSendStream(q, "normal", opened)) = FilePart(q)
         /\ NormalPart(FragSendStream(q, "file", opened)) = NormalPart(q)
BY DEF FragSendStream, OutQueue, STREAM, FilePart, NormalPart

LEMMA FragSendStreamType ==
  ASSUME NEW q \in OutQueue, NEW s \in STREAM, NEW opened \in BOOLEAN
  PROVE  FragSendStream(q, s, opened) \in OutQueue
<1>1. CASE q.fragbufs[s] # <<>> \/ q.waitlist[s] = <<>>
  BY <1>1 DEF FragSendStream
<1>2. CASE ~(q.fragbufs[s] # <<>> \/ q.waitlist[s] = <<>>)
  <2>1. PICK src : src = Head(q.waitlist[s])
    OBVIOUS
  <2>2. PICK rest : rest = [q EXCEPT !.waitlist[s] = Tail(@)]
    OBVIOUS
  <2>3. src \in Source /\ Tail(q.waitlist[s]) \in Seq(Source)
    BY <1>2, <2>1 DEF OutQueue
  <2>4. rest \in OutQueue
    BY <2>2, <2>3 DEF OutQueue
  <2>5. Fragments(src) \in Seq(Fragment) /\ Chunks(src) \in Nat
    BY <2>3, FragmentsType, ChunksNat
  <2>6. [rest EXCEPT !.fragbufs[s] = Fragments(src),
                     !.fragbufcount[s] = Chunks(src)] \in OutQueue
    BY <2>4, <2>5 DEF OutQueue
  <2> QED
    BY <1>2, <2>1, <2>2, <2>4, <2>6 DEF FragSendStream
<1> QED
  BY <1>1, <1>2

\* The next message of the waiting list is cut when none is being sent.
LEMMA FragSendQueued ==
  ASSUME NEW q \in OutQueue, NEW opened \in BOOLEAN,
         NEW k \in Nat, NEW n \in Nat, k <= n, Queued(q, k, n),
         q.fragbufs["normal"] = <<>>, q.waitlist["normal"] # <<>>
  PROVE  LET r == FragSendStream(q, "normal", opened)
         IN  /\ r.message = q.message /\ r.overflowed = q.overflowed
             /\ \E b \in k+1..n, src \in Source :
                  /\ src.units = Units(k, b) /\ src.file = NoFile
                  /\ r.fragbufs["normal"] = Fragments(src)
                  /\ r.fragbufcount["normal"] = Chunks(src)
                  /\ Queued(r, b, n)
<1> DEFINE w == q.waitlist["normal"]
           src == Head(w)
           rest == [q EXCEPT !.waitlist["normal"] = Tail(@)]
           r == FragSendStream(q, "normal", opened)
<1>1. PICK c \in k..n : Waiting(w, k, c) /\ q.message = Units(c, n)
  BY DEF Queued
<1>2. w \in Seq(Source) /\ src \in Source
  BY DEF OutQueue, STREAM
<1>3. PICK b \in k+1..c :
        /\ src.units = Units(k, b) /\ src.file = NoFile /\ ~src.deferred
        /\ Waiting(Tail(w), b, c)
  BY <1>1, <1>2, WaitingTail
<1>4. r = [rest EXCEPT !.fragbufs["normal"] = Fragments(src),
                       !.fragbufcount["normal"] = Chunks(src)]
  BY <1>3 DEF FragSendStream
<1>5. /\ r.waitlist["normal"] = Tail(w) /\ r.message = q.message
      /\ r.overflowed = q.overflowed
      /\ r.fragbufs["normal"] = Fragments(src)
      /\ r.fragbufcount["normal"] = Chunks(src)
  BY <1>4, ZenonT(30) DEF OutQueue, STREAM
<1> HIDE DEF r, rest, src, w
<1>6. c \in b..n /\ b \in k+1..n
  BY <1>1, <1>3
<1>7. Queued(r, b, n)
  BY <1>1, <1>3, <1>5, <1>6 DEF Queued
<1> QED
  BY <1>2, <1>3, <1>5, <1>6, <1>7 DEF r

\* What Netchan_Transmit does to the normal stream before it takes a block: the
\* next message is cut when none is being sent.
LEMMA RefillNormal ==
  ASSUME NEW q \in OutQueue, NEW packed \in BOOLEAN, NEW opened \in BOOLEAN,
         NEW k \in Nat, NEW n \in Nat, k <= n, Queued(q, k, n)
  PROVE  LET r == Refill(q, packed, opened)
         IN  /\ r.overflowed = q.overflowed
             /\ \/ /\ q.fragbufs["normal"] # <<>> /\ Queued(r, k, n)
                   /\ r.fragbufs["normal"] = q.fragbufs["normal"]
                   /\ r.fragbufcount["normal"] = q.fragbufcount["normal"]
                \/ /\ q.fragbufs["normal"] = <<>> /\ r.fragbufs["normal"] = <<>>
                   /\ r.waitlist["normal"] = <<>> /\ Queued(r, k, n)
                \/ /\ q.fragbufs["normal"] = <<>>
                   /\ \E b \in k+1..n, src \in Source :
                        /\ src.units = Units(k, b) /\ src.file = NoFile
                        /\ r.fragbufs["normal"] = Fragments(src)
                        /\ r.fragbufcount["normal"] = Chunks(src)
                        /\ Queued(r, b, n)
<1> DEFINE long == IF Len(q.message) > MAX_MSGLEN THEN Spill(q, packed) ELSE q
           cut == FragSendStream(long, "normal", opened)
           sent == FragSendStream(cut, "file", opened)
           r == Refill(q, packed, opened)
<1>1. q.message \in Seq(Nat)
  BY DEF OutQueue
<1>2. /\ long \in OutQueue /\ Queued(long, k, n) /\ long.overflowed = q.overflowed
      /\ long.fragbufs = q.fragbufs /\ long.fragbufcount = q.fragbufcount
  BY <1>1, SpillType, SpillFrame, SpillQueued
<1> HIDE DEF long
<1>3. cut \in OutQueue
  BY <1>2, FragSendStreamType DEF STREAM
<1>4. sent \in OutQueue
  <2> HIDE DEF cut
  <2> QED
    BY <1>3, FragSendStreamType DEF STREAM
<1>5. NormalPart(sent) = NormalPart(cut)
  <2> HIDE DEF cut
  <2> QED
    BY <1>3, FragSendFrame
<1>6. r = IF Stalled(sent) /\ Len(sent.message) > MAX_RELIABLE_PAYLOAD
          THEN Spill(sent, packed) ELSE sent
  BY DEF Refill, FragSend, long
<1> HIDE DEF r, sent
<1>7. /\ sent.waitlist["normal"] = cut.waitlist["normal"]
      /\ sent.fragbufs["normal"] = cut.fragbufs["normal"]
      /\ sent.fragbufcount["normal"] = cut.fragbufcount["normal"]
      /\ sent.message = cut.message /\ sent.overflowed = cut.overflowed
  BY <1>5 DEF NormalPart
<1>8. /\ r.overflowed = sent.overflowed /\ r.fragbufs = sent.fragbufs
      /\ r.fragbufcount = sent.fragbufcount
      /\ r.fragbufs["normal"] = <<>> => r.waitlist = sent.waitlist
  BY <1>4, <1>6, SpillFrame DEF Stalled
<1>9. ASSUME NEW b \in Nat, b <= n, Queued(cut, b, n) PROVE Queued(r, b, n)
  <2>1. Queued(sent, b, n)
    BY <1>7, <1>9 DEF Queued
  <2> QED
    BY <1>4, <1>6, <1>9, <2>1, SpillQueued
<1>10. CASE q.fragbufs["normal"] # <<>> \/ long.waitlist["normal"] = <<>>
  <2>1. cut = long
    BY <1>2, <1>10 DEF FragSendStream
  <2>2. Queued(r, k, n)
    BY <1>2, <1>9, <2>1
  <2> HIDE DEF cut
  <2> QED
    BY <1>2, <1>7, <1>8, <1>10, <2>1, <2>2 DEF r
<1>11. CASE q.fragbufs["normal"] = <<>> /\ long.waitlist["normal"] # <<>>
  <2>1. /\ cut.overflowed = long.overflowed
        /\ \E b \in k+1..n, src \in Source :
             /\ src.units = Units(k, b) /\ src.file = NoFile
             /\ cut.fragbufs["normal"] = Fragments(src)
             /\ cut.fragbufcount["normal"] = Chunks(src)
             /\ Queued(cut, b, n)
    BY <1>2, <1>11, FragSendQueued
  <2> HIDE DEF cut
  <2>2. PICK b \in k+1..n, src \in Source :
             /\ src.units = Units(k, b) /\ src.file = NoFile
             /\ cut.fragbufs["normal"] = Fragments(src)
             /\ cut.fragbufcount["normal"] = Chunks(src)
             /\ Queued(cut, b, n)
    BY <2>1
  <2>3. Queued(r, b, n)
    BY <1>9, <2>2
  <2> QED
    BY <1>2, <1>7, <1>8, <1>11, <2>1, <2>2, <2>3 DEF r
<1> QED
  BY <1>10, <1>11

\* And to the file stream: the next file is cut, or given up when it cannot be
\* opened.
LEMMA RefillFile ==
  ASSUME NEW q \in OutQueue, NEW packed \in BOOLEAN, NEW opened \in BOOLEAN
  PROVE  LET r == Refill(q, packed, opened)
             w == q.waitlist["file"]
         IN  \/ /\ q.fragbufs["file"] # <<>> \/ w = <<>>
                /\ FilePart(r) = FilePart(q) /\ Unopened(q, opened) = {}
             \/ /\ q.fragbufs["file"] = <<>> /\ w # <<>>
                /\ Unopened(q, opened) = {Head(w).file}
                /\ r.waitlist["file"] = Tail(w) /\ r.fragbufs["file"] = <<>>
             \/ /\ q.fragbufs["file"] = <<>> /\ w # <<>>
                /\ Unopened(q, opened) = {} /\ r.waitlist["file"] = Tail(w)
                /\ r.fragbufs["file"] = Fragments(Head(w))
                /\ r.fragbufcount["file"] = Chunks(Head(w))
<1> DEFINE long == IF Len(q.message) > MAX_MSGLEN THEN Spill(q, packed) ELSE q
           cut == FragSendStream(long, "normal", opened)
           sent == FragSendStream(cut, "file", opened)
           r == Refill(q, packed, opened)
           w == q.waitlist["file"]
<1>1. q.message \in Seq(Nat)
  BY DEF OutQueue
<1>2. long \in OutQueue /\ FilePart(long) = FilePart(q)
  BY <1>1, SpillType, SpillFrame
<1> HIDE DEF long
<1>3. cut \in OutQueue /\ FilePart(cut) = FilePart(q)
  BY <1>2, FragSendStreamType, FragSendFrame DEF STREAM
<1> HIDE DEF cut
<1>4. sent \in OutQueue
  BY <1>3, FragSendStreamType DEF STREAM
<1>5. r = IF Stalled(sent) /\ Len(sent.message) > MAX_RELIABLE_PAYLOAD
          THEN Spill(sent, packed) ELSE sent
  BY DEF Refill, FragSend, long, cut
<1>6. FilePart(r) = FilePart(sent)
  <2> HIDE DEF sent, r
  <2> QED
    BY <1>4, <1>5, SpillFrame
<1>7. /\ cut.waitlist["file"] = w /\ cut.fragbufs["file"] = q.fragbufs["file"]
      /\ cut.fragbufcount["file"] = q.fragbufcount["file"]
  BY <1>3 DEF FilePart
<1> HIDE DEF r
<1>8. CASE q.fragbufs["file"] # <<>> \/ w = <<>>
  <2>1. sent = cut
    BY <1>7, <1>8 DEF FragSendStream
  <2>2. Unopened(q, opened) = {}
    BY <1>8 DEF Unopened
  <2> QED
    BY <1>3, <1>6, <1>8, <2>1, <2>2 DEF r
<1>9. CASE q.fragbufs["file"] = <<>> /\ w # <<>>
  <2>1. CASE Head(w).deferred /\ ~opened
    <3>1. sent.waitlist["file"] = Tail(w) /\ sent.fragbufs["file"] = <<>>
      BY <1>3, <1>7, <1>9, <2>1 DEF FragSendStream, OutQueue, STREAM
    <3>2. Unopened(q, opened) = {Head(w).file}
      BY <1>9, <2>1 DEF Unopened
    <3> HIDE DEF sent
    <3> QED
      BY <1>6, <1>9, <3>1, <3>2 DEF r, FilePart
  <2>2. CASE ~(Head(w).deferred /\ ~opened)
    <3>1. sent.waitlist["file"] = Tail(w) /\ sent.fragbufs["file"] = Fragments(Head(w))
          /\ sent.fragbufcount["file"] = Chunks(Head(w))
      BY <1>3, <1>7, <1>9, <2>2 DEF FragSendStream, OutQueue, STREAM
    <3>2. Unopened(q, opened) = {}
      BY <1>9, <2>2 DEF Unopened
    <3> HIDE DEF sent
    <3> QED
      BY <1>6, <1>9, <3>1, <3>2 DEF r, FilePart
  <2> QED
    BY <2>1, <2>2
<1> QED
  BY <1>8, <1>9

-----------------------------------------------------------------------------
(* Fragments                                                               *)

LEMMA ToSendAll ==
  ASSUME NEW src \in Source
  PROVE  /\ Fragments(src) = ToSend(src, 0)
         /\ ToSend(src, Chunks(src)) = <<>> /\ Received(src, 0) = <<>>
<1>1. Chunks(src) \in Nat
  BY ChunksNat
<1> QED
  BY <1>1 DEF Fragments, ToSend, Received

LEMMA ToSendNext ==
  ASSUME NEW src \in Source, NEW j \in Nat, j < Chunks(src)
  PROVE  /\ ToSend(src, j) # <<>>
         /\ Head(ToSend(src, j)) = [id |-> j + 1, src |-> src]
         /\ Tail(ToSend(src, j)) = ToSend(src, j + 1)
<1> DEFINE n == Chunks(src) - j
           frag(i) == [id |-> j + i, src |-> src]
           u == [i \in 1..n |-> frag(i)]
<1>1. Chunks(src) \in Nat /\ n \in Nat /\ n >= 1
  BY ChunksNat
<1>2. \A i \in 1..n : frag(i) \in Fragment
  BY <1>1 DEF Fragment
<1> HIDE DEF n, frag
<1>3. u \in Seq(Fragment) /\ Len(u) = n /\ u[1] = frag(1) /\ \A i \in 1..n : u[i] = frag(i)
  BY <1>1, <1>2
<1> HIDE DEF u
<1>4. u # <<>> /\ Head(u) = frag(1)
  BY <1>1, <1>3
<1>5. Tail(u) = [i \in 1..n-1 |-> frag(i + 1)]
  <2> DEFINE g(i) == frag(i + 1)
             v == [i \in 1..n-1 |-> g(i)]
  <2>1. Tail(u) \in Seq(Fragment) /\ Len(Tail(u)) = n - 1
        /\ \A i \in 1..n-1 : Tail(u)[i] = u[i+1]
    BY <1>1, <1>3, <1>4, HeadTailProperties
  <2>2. \A i \in 1..n-1 : g(i) \in Fragment /\ g(i) = u[i+1]
    BY <1>1, <1>2, <1>3
  <2>3. n - 1 \in Nat
    BY <1>1
  <2> HIDE DEF g
  <2>4. v \in Seq(Fragment) /\ Len(v) = n - 1 /\ \A i \in 1..n-1 : v[i] = g(i)
    BY <2>2, <2>3
  <2> HIDE DEF v
  <2>5. Tail(u) = v
    BY <2>1, <2>2, <2>4, SeqEqual
  <2> QED
    BY <2>5 DEF v, g
<1>6. n - 1 = Chunks(src) - (j + 1)
  BY <1>1 DEF n
<1>7. [i \in 1..n-1 |-> frag(i + 1)] = ToSend(src, j + 1)
  <2>1. \A i \in 1..n-1 : frag(i + 1) = [id |-> (j + 1) + i, src |-> src]
    BY <1>1 DEF frag
  <2> QED
    BY <1>6, <2>1 DEF ToSend
<1>8. u = ToSend(src, j)
  BY DEF u, ToSend, n, frag
<1> QED
  BY <1>4, <1>5, <1>7, <1>8 DEF frag

LEMMA ReceivedSeq ==
  ASSUME NEW src \in Source, NEW j \in Nat
  PROVE  /\ Received(src, j) \in Seq(SentFragment) /\ Len(Received(src, j)) = j
         /\ \A i \in 1..j : Received(src, j)[i] = [id |-> i, count |-> Chunks(src), src |-> src]
<1>1. \A i \in 1..j : [id |-> i, count |-> Chunks(src), src |-> src] \in SentFragment
  BY ChunksNat DEF SentFragment
<1> DEFINE frag(i) == [id |-> i, count |-> Chunks(src), src |-> src]
<1>2. \A i \in 1..j : frag(i) \in SentFragment
  BY <1>1
<1>3. LET u == [i \in 1..j |-> frag(i)]
      IN  u \in Seq(SentFragment) /\ Len(u) = j /\ \A i \in 1..j : u[i] = frag(i)
  <2> HIDE DEF frag
  <2> QED
    BY <1>2
<1> QED
  BY <1>3 DEF Received

LEMMA EmptyBlock == /\ Empty.regular = <<>> /\ \A s \in STREAM : Empty.frag[s] = NoFrag
BY DEF Empty

LEMMA BetweenEmpty ==
  ASSUME NEW q, NEW bufs \in Seq(SentFragment), NEW s \in STREAM, NEW src \in Source,
         Between(q, Empty, bufs, s, src)
  PROVE  /\ Len(bufs) \in Nat /\ Len(bufs) < Chunks(src) /\ bufs = Received(src, Len(bufs))
         /\ q.fragbufs[s] = ToSend(src, Len(bufs)) /\ q.fragbufs[s] # <<>>
         /\ q.fragbufcount[s] = Chunks(src)
<1>1. Len(bufs) \in Nat /\ Len(bufs) < Chunks(src) /\ bufs = Received(src, Len(bufs))
  BY DEF Between
<1>2. NoFrag # [id |-> Len(bufs) + 1, count |-> Chunks(src), src |-> src]
  BY <1>1 DEF NoFrag
<1>3. q.fragbufs[s] = ToSend(src, Len(bufs))
  BY <1>2, EmptyBlock DEF Between
<1>4. q.fragbufs[s] # <<>>
  BY <1>1, <1>3, ToSendNext
<1> QED
  BY <1>1, <1>3, <1>4 DEF Between

\* Netchan_Transmit takes the next fragment of a stream, or none.
LEMMA TakeBetween ==
  ASSUME NEW q \in OutQueue, NEW bufs \in Seq(SentFragment), NEW s \in STREAM,
         NEW src \in Source, NEW no, Between(q, Empty, bufs, s, src)
  PROVE  Between(Rest(q), Block(q, no), bufs, s, src)
<1> DEFINE j == Len(bufs)
<1>1. /\ j \in Nat /\ j < Chunks(src) /\ bufs = Received(src, j)
      /\ q.fragbufs[s] = ToSend(src, j) /\ q.fragbufcount[s] = Chunks(src)
  BY BetweenEmpty, ZenonT(60)
<1>2. /\ Head(q.fragbufs[s]) = [id |-> j + 1, src |-> src]
      /\ Tail(q.fragbufs[s]) = ToSend(src, j + 1)
  BY <1>1, ToSendNext
<1>3. Rest(q).fragbufcount[s] = Chunks(src)
  BY <1>1 DEF Rest, OutQueue
<1>4. CASE Takes(q)[s]
  <2>1. Block(q, no).frag[s] = [id |-> j + 1, count |-> Chunks(src), src |-> src]
    BY <1>1, <1>2, <1>4 DEF Block, FragOf
  <2>2. Rest(q).fragbufs[s] = ToSend(src, j + 1)
    BY <1>2, <1>4 DEF Rest, OutQueue
  <2> QED
    BY <1>1, <1>3, <2>1, <2>2 DEF Between
<1>5. CASE ~Takes(q)[s]
  <2>1. Block(q, no).frag[s] = NoFrag
    BY <1>5 DEF Block
  <2>2. Rest(q).fragbufs[s] = ToSend(src, j)
    BY <1>1, <1>5 DEF Rest, OutQueue
  <2> QED
    BY <1>1, <1>3, <2>1, <2>2 DEF Between
<1> QED
  BY <1>4, <1>5

LEMMA TakeIdle ==
  ASSUME NEW q \in OutQueue, NEW bufs, NEW s \in STREAM, NEW no, Idle(q, Empty, bufs, s)
  PROVE  Idle(Rest(q), Block(q, no), bufs, s)
<1>1. ~Takes(q)[s]
  BY DEF Idle, Takes, NormalFits, FileFits, Fits, STREAM
<1> QED
  BY <1>1 DEF Idle, Rest, Block, OutQueue

-----------------------------------------------------------------------------
(* The normal stream                                                       *)

\* Filling up the queues moves no unit out of its place.
LEMMA RefillFlow ==
  ASSUME NEW q \in OutQueue, NEW packed \in BOOLEAN, NEW opened \in BOOLEAN,
         NEW bufs \in Seq(SentFragment), NEW got \in Seq(Nat), NEW n \in Nat,
         ~q.overflowed, NormalFlow(q, Empty, bufs, got, n)
  PROVE  LET r == Refill(q, packed, opened)
         IN  /\ NormalFlow(r, Empty, bufs, got, n) /\ ~r.overflowed
             /\ r.fragbufs["normal"] = <<>> => r.waitlist["normal"] = <<>>
<1> DEFINE r == Refill(q, packed, opened)
<1>1. PICK k \in 0..n :
    /\ \/ Idle(q, Empty, bufs, "normal") /\ got \o Empty.regular = Units(0, k)
       \/ \E src \in Source :
            /\ Between(q, Empty, bufs, "normal", src) /\ Empty.regular = <<>>
            /\ src.file = NoFile /\ Len(got) < k
            /\ got = Units(0, Len(got)) /\ src.units = Units(Len(got), k)
    /\ ~q.overflowed => Queued(q, k, n)
  BY DEF NormalFlow
<1>2. k \in Nat /\ k <= n /\ Queued(q, k, n)
  BY <1>1
<1>3. /\ r.overflowed = q.overflowed
      /\ \/ /\ q.fragbufs["normal"] # <<>> /\ Queued(r, k, n)
            /\ r.fragbufs["normal"] = q.fragbufs["normal"]
            /\ r.fragbufcount["normal"] = q.fragbufcount["normal"]
         \/ /\ q.fragbufs["normal"] = <<>> /\ r.fragbufs["normal"] = <<>>
            /\ r.waitlist["normal"] = <<>> /\ Queued(r, k, n)
         \/ /\ q.fragbufs["normal"] = <<>>
            /\ \E b \in k+1..n, src \in Source :
                 /\ src.units = Units(k, b) /\ src.file = NoFile
                 /\ r.fragbufs["normal"] = Fragments(src)
                 /\ r.fragbufcount["normal"] = Chunks(src)
                 /\ Queued(r, b, n)
  BY <1>2, RefillNormal
<1> HIDE DEF r
<1>4. CASE Idle(q, Empty, bufs, "normal") /\ got \o Empty.regular = Units(0, k)
  <2>1. q.fragbufs["normal"] = <<>> /\ bufs = <<>> /\ Empty.frag["normal"] = NoFrag
    BY <1>4 DEF Idle
  <2>2. got = Units(0, k) /\ Len(got) = k
    <3>1. got = Units(0, k)
      BY <1>4, EmptyBlock, ConcatEmptySeq
    <3>2. Len(Units(0, k)) = k - 0
      BY <1>2, UnitsSeq
    <3> QED
      BY <1>2, <3>1, <3>2
  <2>3. CASE r.fragbufs["normal"] = <<>> /\ r.waitlist["normal"] = <<>> /\ Queued(r, k, n)
    BY <1>3, <1>4, <2>1, <2>3 DEF NormalFlow, Idle, r
  <2>4. ASSUME NEW b \in k+1..n, NEW src \in Source,
               src.units = Units(k, b), src.file = NoFile,
               r.fragbufs["normal"] = Fragments(src),
               r.fragbufcount["normal"] = Chunks(src), Queued(r, b, n)
        PROVE  NormalFlow(r, Empty, bufs, got, n) /\ r.fragbufs["normal"] # <<>>
    <3>1. src.units # <<>> /\ b \in 0..n /\ Len(got) < b
      BY <1>2, <2>2, <2>4, UnitsEmpty
    <3>2. Chunks(src) \in Nat \ {0}
      BY <3>1, ChunksPositive
    <3>3. /\ r.fragbufs["normal"] = ToSend(src, 0) /\ bufs = Received(src, 0)
          /\ r.fragbufs["normal"] # <<>> /\ Len(bufs) = 0
      BY <2>1, <2>4, <3>2, ToSendAll, ToSendNext
    <3>4. Between(r, Empty, bufs, "normal", src)
      BY <2>1, <2>4, <3>2, <3>3 DEF Between
    <3>5. got = Units(0, Len(got)) /\ src.units = Units(Len(got), b)
      BY <2>2, <2>4
    <3> QED
      BY <2>4, <3>1, <3>3, <3>4, <3>5, EmptyBlock DEF NormalFlow
  <2> QED
    BY <1>3, <2>1, <2>3, <2>4 DEF r
<1>5. ASSUME NEW src \in Source, Between(q, Empty, bufs, "normal", src),
             src.file = NoFile, Len(got) < k,
             got = Units(0, Len(got)), src.units = Units(Len(got), k)
      PROVE  NormalFlow(r, Empty, bufs, got, n) /\ r.fragbufs["normal"] # <<>>
  <2>1. /\ q.fragbufs["normal"] # <<>>
        /\ r.fragbufs["normal"] = q.fragbufs["normal"]
        /\ r.fragbufcount["normal"] = q.fragbufcount["normal"] /\ Queued(r, k, n)
    BY <1>3, <1>5, BetweenEmpty DEF STREAM
  <2>2. Between(r, Empty, bufs, "normal", src)
    BY <1>5, <2>1 DEF Between
  <2> QED
    BY <1>5, <2>1, <2>2, EmptyBlock DEF NormalFlow
<1> QED
  BY <1>1, <1>3, <1>4, <1>5 DEF r

\* A block takes the regular message only when nothing else waits before it.
LEMMA TakeFlow ==
  ASSUME NEW q \in OutQueue, NEW bufs \in Seq(SentFragment), NEW got \in Seq(Nat),
         NEW n \in Nat, NEW no, ~q.overflowed, NormalFlow(q, Empty, bufs, got, n),
         q.fragbufs["normal"] = <<>> => q.waitlist["normal"] = <<>>
  PROVE  NormalFlow(Rest(q), Block(q, no), bufs, got, n)
<1> DEFINE r == Rest(q)
           block == Block(q, no)
<1>1. PICK k \in 0..n :
    /\ \/ Idle(q, Empty, bufs, "normal") /\ got \o Empty.regular = Units(0, k)
       \/ \E src \in Source :
            /\ Between(q, Empty, bufs, "normal", src) /\ Empty.regular = <<>>
            /\ src.file = NoFile /\ Len(got) < k
            /\ got = Units(0, Len(got)) /\ src.units = Units(Len(got), k)
    /\ ~q.overflowed => Queued(q, k, n)
  BY DEF NormalFlow
<1>2. k \in Nat /\ k <= n /\ Queued(q, k, n)
  BY <1>1
<1>3. /\ r.overflowed = q.overflowed /\ r.waitlist = q.waitlist
      /\ r.message = IF Stalled(q) THEN q.message ELSE <<>>
      /\ block.regular = IF Stalled(q) THEN <<>> ELSE q.message
  BY DEF Rest, Block, Regular, OutQueue
<1>4. CASE Idle(q, Empty, bufs, "normal") /\ got \o Empty.regular = Units(0, k)
  <2>1. Idle(r, block, bufs, "normal")
    BY <1>4, TakeIdle DEF STREAM
  <2>2. q.waitlist["normal"] = <<>> /\ ~Stalled(q)
    BY <1>4 DEF Idle, Stalled
  <2>3. q.message = Units(k, n)
    BY <1>2, <2>2, WaitingNil DEF Queued
  <2>4. got \o block.regular = Units(0, n)
    <3>1. got = Units(0, k)
      BY <1>4, EmptyBlock, ConcatEmptySeq
    <3>2. Units(0, k) \o Units(k, n) = Units(0, n)
      <4>1. 0 \in Nat /\ 0 <= k
        BY <1>2
      <4> HIDE DEF r, block
      <4> QED
        BY <1>2, <4>1, UnitsJoin
    <3> HIDE DEF block
    <3> QED
      BY <1>3, <2>2, <2>3, <3>1, <3>2
  <2>5. Queued(r, n, n)
    <3>1. Waiting(<<>>, n, n) /\ Units(n, n) = <<>> /\ n \in n..n
      BY WaitingEmpty, UnitsEmpty
    <3> HIDE DEF r
    <3> QED
      BY <1>3, <2>2, <3>1 DEF Queued
  <2> HIDE DEF r, block
  <2> QED
    BY <2>1, <2>4, <2>5 DEF NormalFlow, r, block
<1>5. ASSUME NEW src \in Source, Between(q, Empty, bufs, "normal", src),
             src.file = NoFile, Len(got) < k,
             got = Units(0, Len(got)), src.units = Units(Len(got), k)
      PROVE  NormalFlow(r, block, bufs, got, n)
  <2>1. Stalled(q)
    BY <1>5, BetweenEmpty DEF Stalled, STREAM
  <2>2. Between(r, block, bufs, "normal", src)
    BY <1>5, TakeBetween DEF STREAM
  <2> HIDE DEF r, block
  <2>3. Queued(r, k, n)
    BY <1>2, <1>3, <2>1 DEF Queued
  <2>4. block.regular = <<>>
    BY <1>3, <2>1
  <2> QED
    BY <1>5, <2>2, <2>3, <2>4 DEF NormalFlow
<1> QED
  BY <1>1, <1>4, <1>5

\* Units that are queued come after all others.
LEMMA WriteFlow ==
  ASSUME NEW q \in OutQueue, NEW block, NEW bufs, NEW got,
         NEW n \in Nat, NEW d \in Nat \ {0}, NormalFlow(q, block, bufs, got, n)
  PROVE  NormalFlow(SZ_Write(q, Units(n, n + d)), block, bufs, got, n + d)
<1> DEFINE r == SZ_Write(q, Units(n, n + d))
<1>1. PICK k \in 0..n :
    /\ \/ Idle(q, block, bufs, "normal") /\ got \o block.regular = Units(0, k)
       \/ \E src \in Source :
            /\ Between(q, block, bufs, "normal", src) /\ block.regular = <<>>
            /\ src.file = NoFile /\ Len(got) < k
            /\ got = Units(0, Len(got)) /\ src.units = Units(Len(got), k)
    /\ ~q.overflowed => Queued(q, k, n)
  BY DEF NormalFlow
<1>2. /\ r.fragbufs = q.fragbufs /\ r.fragbufcount = q.fragbufcount
      /\ r.waitlist = q.waitlist
      /\ ~r.overflowed => ~q.overflowed /\ r.message = q.message \o Units(n, n + d)
  BY DEF SZ_Write, OutQueue
<1> HIDE DEF r
<1>3. ~r.overflowed => Queued(r, k, n + d)
  <2> SUFFICES ASSUME ~r.overflowed PROVE Queued(r, k, n + d)
    OBVIOUS
  <2>1. PICK c \in k..n : Waiting(q.waitlist["normal"], k, c) /\ q.message = Units(c, n)
    BY <1>1, <1>2 DEF Queued
  <2>2. c \in Nat /\ n + d \in Nat /\ c <= n /\ n <= n + d /\ c \in k..n+d
    BY <1>1, <2>1
  <2>3. r.message = Units(c, n + d)
    <3>1. Units(c, n) \o Units(n, n + d) = Units(c, n + d)
      BY <2>2, UnitsJoin
    <3> QED
      BY <1>2, <2>1, <3>1
  <2> QED
    BY <1>2, <2>1, <2>2, <2>3 DEF Queued
<1>4. k \in 0..n+d
  BY <1>1
<1>5. /\ Idle(q, block, bufs, "normal") => Idle(r, block, bufs, "normal")
      /\ \A src : Between(q, block, bufs, "normal", src) => Between(r, block, bufs, "normal", src)
  BY <1>2 DEF Idle, Between
<1> QED
  BY <1>1, <1>3, <1>4, <1>5 DEF NormalFlow, r

LEMMA CreateFlow ==
  ASSUME NEW q \in OutQueue, NEW block, NEW bufs, NEW got, NEW packed \in BOOLEAN,
         NEW n \in Nat, NEW d \in Nat \ {0}, NormalFlow(q, block, bufs, got, n)
  PROVE  NormalFlow(CreateFragments_(Spill(q, packed), Units(n, n + d), packed),
                    block, bufs, got, n + d)
<1> DEFINE s == Spill(q, packed)
           r == CreateFragments_(s, Units(n, n + d), packed)
<1>1. PICK k \in 0..n :
    /\ \/ Idle(q, block, bufs, "normal") /\ got \o block.regular = Units(0, k)
       \/ \E src \in Source :
            /\ Between(q, block, bufs, "normal", src) /\ block.regular = <<>>
            /\ src.file = NoFile /\ Len(got) < k
            /\ got = Units(0, Len(got)) /\ src.units = Units(Len(got), k)
    /\ ~q.overflowed => Queued(q, k, n)
  BY DEF NormalFlow
<1>2. n + d \in Nat /\ n < n + d /\ Units(n, n + d) \in Seq(Nat) /\ Units(n, n + d) # <<>>
  <2>1. PICK m \in Nat : m = n + d
    OBVIOUS
  <2>2. n < m /\ n <= m
    BY <2>1
  <2>3. Units(n, m) \in Seq(Nat) /\ (Units(n, m) = <<>> <=> n = m)
    BY <2>2, UnitsSeq, UnitsEmpty
  <2> QED
    BY <2>1, <2>2, <2>3
<1>3. /\ s \in OutQueue /\ s.message = <<>> /\ s.overflowed = q.overflowed
      /\ s.fragbufs = q.fragbufs /\ s.fragbufcount = q.fragbufcount
  BY SpillType, SpillFrame, <1>2
<1>4. ~q.overflowed => Queued(s, k, n)
  BY <1>1, SpillQueued
<1> HIDE DEF s
<1>5. /\ r.fragbufs = q.fragbufs /\ r.fragbufcount = q.fragbufcount
      /\ r.overflowed = q.overflowed /\ r.message = <<>>
      /\ r.waitlist["normal"] = Append(s.waitlist["normal"], Message(Units(n, n + d), packed))
  BY <1>2, <1>3, CreateFrame
<1> HIDE DEF r
<1>6. ~r.overflowed => Queued(r, k, n + d)
  <2> SUFFICES ASSUME ~r.overflowed PROVE Queued(r, k, n + d)
    OBVIOUS
  <2>1. PICK c \in k..n : Waiting(s.waitlist["normal"], k, c) /\ s.message = Units(c, n)
    BY <1>4, <1>5 DEF Queued
  <2>2. c = n
    BY <1>1, <1>3, <2>1, UnitsEmpty
  <2>3. s.waitlist["normal"] \in Seq(Source) /\ k \in Nat /\ k <= n
    BY <1>1, <1>3 DEF OutQueue, STREAM
  <2>4. Waiting(r.waitlist["normal"], k, n + d)
    BY <1>2, <1>5, <2>1, <2>2, <2>3, WaitingAppend
  <2>5. Units(n + d, n + d) = <<>> /\ n + d \in k..n+d
    BY <1>2, <2>3, UnitsEmpty
  <2> QED
    BY <1>5, <2>4, <2>5 DEF Queued
<1>7. k \in 0..n+d
  BY <1>1
<1>8. /\ Idle(q, block, bufs, "normal") => Idle(r, block, bufs, "normal")
      /\ \A src : Between(q, block, bufs, "normal", src) => Between(r, block, bufs, "normal", src)
  BY <1>5 DEF Idle, Between
<1> QED
  BY <1>1, <1>6, <1>7, <1>8 DEF NormalFlow, r, s

-----------------------------------------------------------------------------
(* The peer reads a block                                                  *)

\* What the peer has of a stream after a block with the fragment frag.
Stored(bufs, frag) == IF frag = NoFrag THEN bufs ELSE StoreFragment(bufs, frag)

\* The next fragment goes to the end of the list.
LEMMA StoreNext ==
  ASSUME NEW src \in Source, NEW j \in Nat
  PROVE  StoreFragment(Received(src, j),
                       [id |-> j + 1, count |-> Chunks(src), src |-> src])
           = Received(src, j + 1)
<1>1. PICK frag : frag = [id |-> j + 1, count |-> Chunks(src), src |-> src]
  OBVIOUS
<1>2. PICK bufs : bufs = Received(src, j)
  OBVIOUS
<1>3. PICK next : next = Received(src, j + 1)
  OBVIOUS
<1>4. /\ bufs \in Seq(SentFragment) /\ Len(bufs) = j
      /\ \A i \in 1..j : bufs[i] = [id |-> i, count |-> Chunks(src), src |-> src]
  BY <1>2, ReceivedSeq
<1>5. /\ next \in Seq(SentFragment) /\ Len(next) = j + 1
      /\ \A i \in 1..j+1 : next[i] = [id |-> i, count |-> Chunks(src), src |-> src]
  BY <1>3, ReceivedSeq
<1>6. frag \in SentFragment
  BY <1>1, ChunksNat DEF SentFragment
<1>7. ~\E i \in DOMAIN bufs : SameId(bufs[i], frag)
  BY <1>1, <1>4 DEF SameId
<1>8. {i \in 2..Len(bufs) : bufs[i].id > frag.id} = {}
  BY <1>1, <1>4
<1>9. StoreFragment(bufs, frag) = Append(bufs, frag)
  BY <1>7, <1>8 DEF StoreFragment, AddBufferToList
<1>10. /\ Append(bufs, frag) \in Seq(SentFragment) /\ Len(Append(bufs, frag)) = j + 1
       /\ \A i \in 1..j+1 : Append(bufs, frag)[i] = next[i]
  <2>1. /\ Append(bufs, frag) \in Seq(SentFragment) /\ Len(Append(bufs, frag)) = j + 1
        /\ \A i \in 1..j : Append(bufs, frag)[i] = bufs[i]
        /\ Append(bufs, frag)[j+1] = frag
    BY <1>4, <1>6, AppendProperties
  <2> QED
    BY <2>1, <1>1, <1>4, <1>5
<1>11. Append(bufs, frag) = next
  BY <1>5, <1>10, SeqEqual
<1> QED
  BY <1>1, <1>2, <1>3, <1>9, <1>11

\* The fragments of one source complete it only when it is whole.
LEMMA WholeReceived ==
  ASSUME NEW src \in Source, Chunks(src) \in Nat \ {0}
  PROVE  /\ Whole(Received(src, Chunks(src))) /\ Decompresses(Received(src, Chunks(src)))
         /\ Received(src, Chunks(src))[1].src = src
<1>1. PICK bufs : bufs = Received(src, Chunks(src))
  OBVIOUS
<1>2. /\ bufs \in Seq(SentFragment) /\ Len(bufs) = Chunks(src)
      /\ \A i \in 1..Chunks(src) : bufs[i] = [id |-> i, count |-> Chunks(src), src |-> src]
  BY <1>1, ReceivedSeq
<1>3. bufs[1].src = src /\ Whole(bufs)
  BY <1>2 DEF Whole
<1> QED
  BY <1>1, <1>3 DEF Decompresses

\* What reading a block does to one stream, in the middle of a source.
LEMMA StoreBetween ==
  ASSUME NEW q, NEW block, NEW bufs \in Seq(SentFragment), NEW s \in STREAM,
         NEW src \in Source, Between(q, block, bufs, s, src)
  PROVE  LET frag == block.frag[s]
             now == Stored(bufs, frag)
         IN  \/ /\ ~IncomingReady(now, frag) /\ Between(q, Empty, now, s, src)
             \/ /\ IncomingReady(now, frag) /\ now = Received(src, Chunks(src))
                /\ Chunks(src) \in Nat \ {0} /\ Idle(q, Empty, <<>>, s)
<1> DEFINE j == Len(bufs)
<1>1. /\ j \in Nat /\ j < Chunks(src) /\ bufs = Received(src, j) /\ Chunks(src) \in Nat
      /\ q.fragbufs[s] # <<>> => q.fragbufcount[s] = Chunks(src)
  BY ChunksNat DEF Between
<1>2. CASE block.frag[s] = NoFrag /\ q.fragbufs[s] = ToSend(src, j)
  <2>1. ~IncomingReady(bufs, NoFrag)
    BY DEF IncomingReady
  <2> QED
    BY <1>1, <1>2, <2>1, EmptyBlock DEF Stored, Between
<1>3. CASE /\ block.frag[s] = [id |-> j + 1, count |-> Chunks(src), src |-> src]
           /\ q.fragbufs[s] = ToSend(src, j + 1)
  <2>1. block.frag[s] # NoFrag /\ block.frag[s].count = Chunks(src)
    BY <1>1, <1>3 DEF NoFrag
  <2>2. PICK now : now = Stored(bufs, block.frag[s])
    OBVIOUS
  <2>3. now = Received(src, j + 1) /\ Len(now) = j + 1
    <3>1. now = StoreFragment(bufs, block.frag[s])
      BY <2>1, <2>2 DEF Stored
    <3>2. now = StoreFragment(Received(src, j),
                              [id |-> j + 1, count |-> Chunks(src), src |-> src])
      BY <1>1, <1>3, <3>1
    <3>3. now = Received(src, j + 1)
      BY <1>1, <3>2, StoreNext
    <3> QED
      BY <1>1, <3>3, ReceivedSeq
  <2>4. IncomingReady(now, block.frag[s]) <=> j + 1 = Chunks(src)
    BY <2>1, <2>3 DEF IncomingReady
  <2>5. CASE j + 1 = Chunks(src)
    <3>1. IncomingReady(now, block.frag[s]) /\ now = Received(src, Chunks(src))
      BY <2>3, <2>4, <2>5
    <3>2. Chunks(src) \in Nat \ {0}
      BY <1>1, <2>5
    <3>3. q.fragbufs[s] = <<>>
      BY <1>3, <2>5, ToSendAll
    <3>4. Idle(q, Empty, <<>>, s)
      BY <3>3, EmptyBlock DEF Idle
    <3> QED
      BY <2>2, <3>1, <3>2, <3>4
  <2>6. CASE j + 1 # Chunks(src)
    <3>1. Between(q, Empty, now, s, src)
      BY <1>1, <1>3, <2>3, <2>6, EmptyBlock DEF Between
    <3> QED
      BY <2>2, <2>4, <2>6, <3>1
  <2> QED
    BY <2>5, <2>6
<1> QED
  BY <1>2, <1>3 DEF Between

LEMMA ReadFlow ==
  ASSUME NEW q, NEW block \in BlockType, NEW bufs \in Seq(SentFragment),
         NEW got \in Seq(Nat), NEW n \in Nat, NormalFlow(q, block, bufs, got, n)
  PROVE  LET frag == block.frag["normal"]
             now == Stored(bufs, frag)
             ready == IncomingReady(now, frag)
         IN  /\ ready => Decompresses(now)
             /\ NormalFlow(q, Empty, IF ready THEN <<>> ELSE now,
                           got \o block.regular \o (IF ready THEN Assembled(now) ELSE <<>>),
                           n)
<1> DEFINE frag == block.frag["normal"]
           now == Stored(bufs, frag)
           ready == IncomingReady(now, frag)
<1>1. PICK k \in 0..n :
    /\ \/ Idle(q, block, bufs, "normal") /\ got \o block.regular = Units(0, k)
       \/ \E src \in Source :
            /\ Between(q, block, bufs, "normal", src) /\ block.regular = <<>>
            /\ src.file = NoFile /\ Len(got) < k
            /\ got = Units(0, Len(got)) /\ src.units = Units(Len(got), k)
    /\ ~q.overflowed => Queued(q, k, n)
  BY DEF NormalFlow
<1>2. block.regular \in Seq(Nat) /\ got \o block.regular \in Seq(Nat)
  BY ConcatProperties DEF BlockType
<1>3. (got \o block.regular) \o <<>> = got \o block.regular
  BY <1>2, ConcatEmptySeq
<1>4. \A u \in Seq(Nat) : u \o Empty.regular = u
  BY EmptyBlock, ConcatEmptySeq
<1>5. CASE Idle(q, block, bufs, "normal") /\ got \o block.regular = Units(0, k)
  <2>1. now = <<>> /\ ~ready
    BY <1>5 DEF Idle, Stored, IncomingReady
  <2>2. Idle(q, Empty, <<>>, "normal")
    BY <1>5, EmptyBlock DEF Idle, STREAM
  <2>3. NormalFlow(q, Empty, <<>>, got \o block.regular, n)
    BY <1>1, <1>2, <1>4, <1>5, <2>2 DEF NormalFlow
  <2> QED
    BY <1>3, <2>1, <2>3
<1>6. ASSUME NEW src \in Source, Between(q, block, bufs, "normal", src),
             block.regular = <<>>, src.file = NoFile, Len(got) < k,
             got = Units(0, Len(got)), src.units = Units(Len(got), k)
      PROVE  /\ ready => Decompresses(now)
             /\ NormalFlow(q, Empty, IF ready THEN <<>> ELSE now,
                           got \o block.regular \o (IF ready THEN Assembled(now) ELSE <<>>),
                           n)
  <2>1. got \o block.regular = got
    BY <1>6, ConcatEmptySeq
  <2>2. \/ /\ ~ready /\ Between(q, Empty, now, "normal", src)
        \/ /\ ready /\ now = Received(src, Chunks(src))
           /\ Chunks(src) \in Nat \ {0} /\ Idle(q, Empty, <<>>, "normal")
    BY <1>6, StoreBetween DEF STREAM
  <2> HIDE DEF ready, now, frag
  <2>3. CASE ~ready /\ Between(q, Empty, now, "normal", src)
    <3>1. NormalFlow(q, Empty, now, got, n)
      BY <1>1, <1>6, <2>3, EmptyBlock DEF NormalFlow
    <3> QED
      BY <1>3, <2>1, <2>3, <3>1
  <2>4. CASE /\ ready /\ now = Received(src, Chunks(src))
             /\ Chunks(src) \in Nat \ {0} /\ Idle(q, Empty, <<>>, "normal")
    <3>1. Decompresses(now) /\ Assembled(now) = Units(Len(got), k)
      BY <1>6, <2>4, WholeReceived DEF Assembled
    <3>2. got \o Units(Len(got), k) = Units(0, k)
      <4>1. PICK a \in Nat : a = Len(got)
        OBVIOUS
      <4>2. k \in Nat /\ a <= k /\ 0 <= a /\ 0 \in Nat
        BY <1>1, <1>6, <4>1
      <4>3. Units(0, a) \o Units(a, k) = Units(0, k)
        BY <4>1, <4>2, UnitsJoin
      <4> QED
        BY <1>6, <4>1, <4>3
    <3>3. Units(0, k) \in Seq(Nat)
      <4>1. k \in Nat /\ 0 <= k /\ 0 \in Nat
        BY <1>1
      <4> QED
        BY <4>1, UnitsSeq
    <3>4. NormalFlow(q, Empty, <<>>, Units(0, k), n)
      BY <1>1, <1>4, <2>4, <3>3 DEF NormalFlow
    <3> QED
      BY <2>1, <2>4, <3>1, <3>2, <3>4
  <2> QED
    BY <2>2, <2>3, <2>4
<1> QED
  BY <1>1, <1>5, <1>6

\* What was handed on is an initial part of what was queued.
LEMMA FlowPrefix ==
  ASSUME NEW q, NEW block \in BlockType, NEW bufs, NEW got \in Seq(Nat),
         NEW n \in Nat, NormalFlow(q, block, bufs, got, n)
  PROVE  got = Units(0, Len(got)) /\ Len(got) <= n
<1>1. PICK k \in 0..n :
       \/ Idle(q, block, bufs, "normal") /\ got \o block.regular = Units(0, k)
       \/ \E src \in Source :
            /\ Between(q, block, bufs, "normal", src) /\ block.regular = <<>>
            /\ src.file = NoFile /\ Len(got) < k
            /\ got = Units(0, Len(got)) /\ src.units = Units(Len(got), k)
  BY DEF NormalFlow
<1>2. CASE got \o block.regular = Units(0, k)
  <2>1. PICK m \in Nat : m = Len(got)
    OBVIOUS
  <2>2. block.regular \in Seq(Nat)
    BY DEF BlockType
  <2>3. 0 \in Nat /\ k \in Nat /\ 0 <= k /\ k <= n /\ 0 <= m
    BY <1>1, <2>1
  <2>4. Units(0, k) \in Seq(Nat) /\ Len(Units(0, k)) = k - 0
        /\ \A i \in 1..k-0 : Units(0, k)[i] = 0 + i
    BY <2>3, UnitsSeq
  <2>5. Units(0, m) \in Seq(Nat) /\ Len(Units(0, m)) = m - 0
        /\ \A i \in 1..m-0 : Units(0, m)[i] = 0 + i
    BY <2>3, UnitsSeq
  <2>6. Len(got \o block.regular) = m + Len(block.regular)
        /\ \A i \in 1..m : (got \o block.regular)[i] = got[i]
    BY <2>1, <2>2, ConcatProperties
  <2>7. m <= k /\ Len(block.regular) \in Nat
    BY <1>2, <2>2, <2>3, <2>4, <2>6
  <2>8. \A i \in 1..m : got[i] = Units(0, m)[i]
    BY <1>2, <2>1, <2>3, <2>4, <2>5, <2>6, <2>7, SMTT(30)
  <2>9. Len(Units(0, m)) = Len(got)
    BY <2>1, <2>5
  <2>10. got = Units(0, m)
    BY <2>1, <2>5, <2>8, <2>9, SeqEqual
  <2> QED
    BY <2>1, <2>3, <2>7, <2>10
<1>3. CASE got = Units(0, Len(got)) /\ Len(got) < k
  BY <1>1, <1>3
<1> QED
  BY <1>1, <1>2, <1>3

-----------------------------------------------------------------------------
(* The file stream                                                         *)

LEMMA GotMore ==
  ASSUME NEW queued \in Seq(File), NEW got \in Seq(File \union {NoFile}), NEW lost,
         NEW m \in Nat, m < Len(queued), GotFiles(got, queued, lost, m),
         queued[m+1] \notin lost
  PROVE  GotFiles(Append(got, queued[m+1]), queued, lost, m + 1)
<1>1. PICK pos \in [DOMAIN got -> 1..m] :
        /\ \A i, j \in DOMAIN got : i < j => pos[i] < pos[j]
        /\ \A i \in DOMAIN got : got[i] = queued[pos[i]]
        /\ \A p \in 1..m : queued[p] \in lost <=> \A i \in DOMAIN got : pos[i] # p
  BY DEF GotFiles
<1> DEFINE n == Len(got)
           more == Append(got, queued[m+1])
           pos1 == [i \in 1..n+1 |-> IF i = n + 1 THEN m + 1 ELSE pos[i]]
<1>2. n \in Nat /\ DOMAIN got = 1..n
  OBVIOUS
<1>3. queued[m+1] \in File \union {NoFile}
  BY ElementOfSeq
<1>4. /\ DOMAIN more = 1..n+1 /\ more[n+1] = queued[m+1]
      /\ \A i \in 1..n : more[i] = got[i]
  <2>1. Len(more) = n + 1 /\ more \in Seq(File \union {NoFile})
    BY <1>3, AppendProperties
  <2> QED
    BY <2>1, <1>3, AppendProperties
<1> HIDE DEF n, more
<1>5. pos1 \in [1..n+1 -> 1..m+1]
  <2>1. ASSUME NEW i \in 1..n+1
        PROVE  (IF i = n + 1 THEN m + 1 ELSE pos[i]) \in 1..m+1
    <3>1. CASE i = n + 1
      BY <3>1
    <3>2. CASE i # n + 1
      <4>1. i \in DOMAIN got
        BY <1>2, <3>2
      <4>2. pos[i] \in 1..m
        BY <1>1, <4>1
      <4> QED
        BY <3>2, <4>2
    <3> QED
      BY <3>1, <3>2
  <2> QED
    BY <2>1
<1>6. pos1[n+1] = m + 1 /\ \A i \in 1..n : pos1[i] = pos[i] /\ pos[i] \in 1..m
  BY <1>1, <1>2
<1> HIDE DEF pos1
<1>7. ASSUME NEW i \in 1..n+1, NEW j \in 1..n+1, i < j PROVE pos1[i] < pos1[j]
  <2>1. i \in 1..n
    BY <1>2, <1>7
  <2>2. CASE j = n + 1
    BY <1>6, <2>1, <2>2
  <2>3. CASE j \in 1..n
    BY <1>1, <1>2, <1>6, <1>7, <2>1, <2>3
  <2> QED
    BY <1>2, <2>2, <2>3
<1>8. ASSUME NEW i \in 1..n+1 PROVE more[i] = queued[pos1[i]]
  <2>1. CASE i = n + 1
    BY <1>4, <1>6, <2>1
  <2>2. CASE i \in 1..n
    BY <1>1, <1>2, <1>4, <1>6, <2>2
  <2> QED
    BY <1>2, <2>1, <2>2
<1>9. ASSUME NEW p \in 1..m+1
      PROVE  queued[p] \in lost <=> \A i \in 1..n+1 : pos1[i] # p
  <2>1. CASE p = m + 1
    <3>1. n + 1 \in 1..n+1
      BY <1>2
    <3> QED
      BY <1>6, <2>1, <3>1
  <2>2. CASE p \in 1..m
    <3>1. queued[p] \in lost <=> \A i \in 1..n : pos[i] # p
      BY <1>1, <1>2, <2>2
    <3>2. (\A i \in 1..n : pos[i] # p) <=> (\A i \in 1..n+1 : pos1[i] # p)
      <4>1. p # m + 1
        BY <2>2
      <4>2. \A i \in 1..n+1 : i = n + 1 \/ i \in 1..n
        BY <1>2
      <4>3. \A i \in 1..n : i \in 1..n+1
        BY <1>2
      <4> QED
        BY <1>6, <4>1, <4>2, <4>3
    <3> QED
      BY <3>1, <3>2
  <2> QED
    BY <2>1, <2>2
<1>10. GotFiles(more, queued, lost, m + 1)
  <2>1. PICK x \in [1..n+1 -> 1..m+1] :
          /\ \A i, j \in 1..n+1 : i < j => x[i] < x[j]
          /\ \A i \in 1..n+1 : more[i] = queued[x[i]]
          /\ \A p \in 1..m+1 : queued[p] \in lost <=> \A i \in 1..n+1 : x[i] # p
    BY <1>5, <1>7, <1>8, <1>9
  <2>2. x \in [DOMAIN more -> 1..m+1] /\ 1..n+1 = DOMAIN more
    BY <1>4
  <2> HIDE DEF n
  <2>3. /\ \A i, j \in DOMAIN more : i < j => x[i] < x[j]
        /\ \A i \in DOMAIN more : more[i] = queued[x[i]]
        /\ \A p \in 1..m+1 : queued[p] \in lost <=> \A i \in DOMAIN more : x[i] # p
    BY <2>1, <2>2
  <2> QED
    BY <2>2, <2>3 DEF GotFiles
<1> QED
  BY <1>10 DEF more

LEMMA GotLost ==
  ASSUME NEW queued \in Seq(File), Distinct(queued), NEW got, NEW lost,
         NEW m \in Nat, m < Len(queued), GotFiles(got, queued, lost, m)
  PROVE  GotFiles(got, queued, lost \union {queued[m+1]}, m + 1)
<1>1. PICK pos \in [DOMAIN got -> 1..m] :
        /\ \A i, j \in DOMAIN got : i < j => pos[i] < pos[j]
        /\ \A i \in DOMAIN got : got[i] = queued[pos[i]]
        /\ \A p \in 1..m : queued[p] \in lost <=> \A i \in DOMAIN got : pos[i] # p
  BY DEF GotFiles
<1>2. pos \in [DOMAIN got -> 1..m+1] /\ \A i \in DOMAIN got : pos[i] # m + 1
  BY <1>1
<1>3. \A p \in 1..m : queued[p] # queued[m+1]
  BY DEF Distinct
<1>4. ASSUME NEW p \in 1..m+1
      PROVE  queued[p] \in lost \union {queued[m+1]} <=> \A i \in DOMAIN got : pos[i] # p
  <2>1. CASE p = m + 1
    BY <1>2, <2>1
  <2>2. CASE p \in 1..m
    BY <1>1, <1>3, <2>2
  <2> QED
    BY <2>1, <2>2
<1> QED
  BY <1>1, <1>2, <1>4 DEF GotFiles

\* The queues matter by their part for files only.
LEMMA FileFrame ==
  ASSUME NEW q, NEW r, FilePart(r) = FilePart(q), NEW block, NEW block1,
         block1.frag["file"] = block.frag["file"], NEW bufs, NEW got,
         NEW queued, NEW lost, FileFlow(q, block, bufs, got, queued, lost)
  PROVE  FileFlow(r, block1, bufs, got, queued, lost)
<1>1. /\ r.waitlist["file"] = q.waitlist["file"]
      /\ r.fragbufs["file"] = q.fragbufs["file"]
      /\ r.fragbufcount["file"] = q.fragbufcount["file"]
  BY DEF FilePart
<1>2. /\ Idle(q, block, bufs, "file") <=> Idle(r, block1, bufs, "file")
      /\ \A src : Between(q, block, bufs, "file", src) <=> Between(r, block1, bufs, "file", src)
  BY <1>1 DEF Idle, Between
<1> QED
  BY <1>1, <1>2 DEF FileFlow

\* A file is queued.
LEMMA QueueFile ==
  ASSUME NEW q \in OutQueue, NEW block, NEW bufs, NEW got, NEW lost,
         NEW queued \in Seq(File), Distinct(queued), NEW f \in File, NEW deferred,
         ~\E i \in 1..Len(queued) : queued[i] = f,
         FileFlow(q, block, bufs, got, queued, lost)
  PROVE  /\ Distinct(Append(queued, f))
         /\ FileFlow([q EXCEPT !.waitlist["file"] = Append(@, FileSource(f, deferred))],
                     block, bufs, got, Append(queued, f), lost)
<1> DEFINE w == q.waitlist["file"]
           r == [q EXCEPT !.waitlist["file"] = Append(@, FileSource(f, deferred))]
           all == Append(queued, f)
           w1 == Append(w, FileSource(f, deferred))
<1>1. w \in Seq(Source) /\ Len(w) \in Nat /\ Len(queued) \in Nat
  BY DEF OutQueue, STREAM
<1>2. /\ Len(w1) = Len(w) + 1 /\ \A i \in 1..Len(w) : w1[i] = w[i]
      /\ w1[Len(w)+1].file = f
  BY <1>1 DEF FileSource
<1>3. /\ Len(all) = Len(queued) + 1 /\ \A i \in 1..Len(queued) : all[i] = queued[i]
      /\ all[Len(queued)+1] = f
  OBVIOUS
<1>4. /\ r.waitlist["file"] = w1 /\ r.fragbufs = q.fragbufs
      /\ r.fragbufcount = q.fragbufcount
  BY DEF OutQueue, STREAM
<1> HIDE DEF r, w1, all
<1>5. Distinct(all)
  <2> SUFFICES ASSUME NEW i \in 1..Len(queued)+1, NEW j \in 1..Len(queued)+1, all[i] = all[j]
               PROVE  i = j
    BY <1>3 DEF Distinct
  <2>1. i \in 1..Len(queued) \/ i = Len(queued) + 1
    BY <1>1
  <2>2. j \in 1..Len(queued) \/ j = Len(queued) + 1
    BY <1>1
  <2> QED
    BY <1>3, <2>1, <2>2 DEF Distinct
<1>6. PICK m \in 0..Len(queued) :
    /\ GotFiles(got, queued, lost, m)
    /\ lost \subseteq {queued[i] : i \in 1..m}
    /\ \/ Idle(q, block, bufs, "file") /\ Len(w) = Len(queued) - m
       \/ /\ m < Len(queued) /\ Len(w) = Len(queued) - m - 1
          /\ \E src \in Source : /\ Between(q, block, bufs, "file", src)
                                /\ src.file = queued[m+1]
    /\ \A i \in 1..Len(w) : w[i].file = queued[Len(queued) - Len(w) + i]
  BY DEF FileFlow
<1>7. m \in 0..Len(all) /\ m \in Nat /\ m <= Len(queued)
  BY <1>1, <1>3, <1>6
<1>8. \A p \in 1..m : all[p] = queued[p]
  BY <1>1, <1>3, <1>7
<1>9. GotFiles(got, all, lost, m)
  <2>1. PICK pos \in [DOMAIN got -> 1..m] :
          /\ \A i, j \in DOMAIN got : i < j => pos[i] < pos[j]
          /\ \A i \in DOMAIN got : got[i] = queued[pos[i]]
          /\ \A p \in 1..m : queued[p] \in lost <=> \A i \in DOMAIN got : pos[i] # p
    BY <1>6 DEF GotFiles
  <2>2. \A i \in DOMAIN got : got[i] = all[pos[i]]
    BY <1>8, <2>1
  <2> QED
    BY <1>8, <2>1, <2>2 DEF GotFiles
<1>10. lost \subseteq {all[i] : i \in 1..m}
  BY <1>6, <1>8
<1>11. /\ Idle(q, block, bufs, "file") => Idle(r, block, bufs, "file")
       /\ \A src : Between(q, block, bufs, "file", src) => Between(r, block, bufs, "file", src)
  BY <1>4 DEF Idle, Between
<1>12. \/ Idle(r, block, bufs, "file") /\ Len(w1) = Len(all) - m
       \/ /\ m < Len(all) /\ Len(w1) = Len(all) - m - 1
          /\ \E src \in Source : /\ Between(r, block, bufs, "file", src)
                                /\ src.file = all[m+1]
  <2>1. CASE Idle(q, block, bufs, "file") /\ Len(w) = Len(queued) - m
    BY <1>1, <1>2, <1>3, <1>7, <1>11, <2>1
  <2>2. CASE /\ m < Len(queued) /\ Len(w) = Len(queued) - m - 1
             /\ \E src \in Source : /\ Between(q, block, bufs, "file", src)
                                   /\ src.file = queued[m+1]
    <3>1. m < Len(all) /\ Len(w1) = Len(all) - m - 1 /\ all[m+1] = queued[m+1]
      BY <1>1, <1>2, <1>3, <1>7, <2>2
    <3> QED
      BY <1>11, <2>2, <3>1
  <2> QED
    BY <1>6, <2>1, <2>2
<1>13. ASSUME NEW i \in 1..Len(w1)
       PROVE  w1[i].file = all[Len(all) - Len(w1) + i]
  <2>1. PICK a \in Nat : a = Len(w)
    BY <1>1
  <2>2. PICK b \in Nat : b = Len(queued)
    BY <1>1
  <2>3. Len(w1) = a + 1 /\ Len(all) = b + 1 /\ a <= b
    BY <1>2, <1>3, <1>6, <1>7, <2>1, <2>2
  <2>4. PICK d \in 1..b+1 : d = Len(all) - Len(w1) + i
    BY <2>3
  <2>5. CASE i = a + 1
    <3>1. d = b + 1
      BY <2>3, <2>4, <2>5
    <3> QED
      BY <1>2, <1>3, <2>1, <2>2, <2>4, <2>5, <3>1
  <2>6. CASE i # a + 1
    <3>1. i \in 1..a /\ d = b - a + i /\ d \in 1..b
      BY <2>3, <2>4, <2>6
    <3>2. w1[i] = w[i] /\ all[d] = queued[d] /\ w[i].file = queued[d]
      BY <1>2, <1>3, <1>6, <2>1, <2>2, <3>1
    <3> QED
      BY <2>4, <3>2
  <2> QED
    BY <2>5, <2>6
<1> HIDE DEF w
<1>14. FileFlow(r, block, bufs, got, all, lost)
  BY <1>4, <1>7, <1>9, <1>10, <1>12, <1>13 DEF FileFlow
<1> QED
  BY <1>5, <1>14 DEF r, all

\* The next file of the waiting list is the first that is not done with.
LEMMA NextFile ==
  ASSUME NEW w \in Seq(Source), w # <<>>, NEW queued \in Seq(File),
         NEW m \in Nat, m <= Len(queued), Len(w) = Len(queued) - m,
         \A i \in 1..Len(w) : w[i].file = queued[Len(queued) - Len(w) + i]
  PROVE  /\ m < Len(queued) /\ Head(w).file = queued[m+1] /\ queued[m+1] \in File
         /\ Tail(w) \in Seq(Source) /\ Len(Tail(w)) = Len(queued) - m - 1
         /\ \A i \in 1..Len(Tail(w)) :
              Tail(w)[i].file = queued[Len(queued) - Len(Tail(w)) + i]
<1>0. Len(w) \in Nat /\ Len(queued) \in Nat
  OBVIOUS
<1>1. PICK a \in Nat : a = Len(w)
  BY <1>0
<1>2. PICK b \in Nat : b = Len(queued)
  BY <1>0
<1>3. a >= 1 /\ Head(w) = w[1] /\ Tail(w) \in Seq(Source) /\ Len(Tail(w)) = a - 1
      /\ \A i \in 1..a-1 : Tail(w)[i] = w[i+1]
  BY <1>1, HeadTailProperties, EmptySeq
<1>4. m < b /\ a = b - m /\ b - a + 1 = m + 1
  BY <1>1, <1>2, <1>3
<1>5. 1 \in 1..Len(w) /\ Len(queued) - Len(w) + 1 = m + 1
  BY <1>1, <1>2, <1>3, <1>4
<1>6. Head(w).file = queued[m+1]
  BY <1>3, <1>5
<1>7. queued[m+1] \in File
  <2>1. m + 1 \in 1..Len(queued)
    BY <1>2, <1>4
  <2> QED
    BY <2>1, ElementOfSeq
<1>8. ASSUME NEW i \in 1..Len(Tail(w))
      PROVE  Tail(w)[i].file = queued[Len(queued) - Len(Tail(w)) + i]
  <2>1. i \in 1..a-1
    BY <1>3
  <2>2. PICK k \in 1..a : k = i + 1
    BY <1>3, <2>1
  <2>3. Tail(w)[i] = w[k]
    BY <1>3, <2>1, <2>2
  <2>4. Len(queued) - Len(Tail(w)) + i = Len(queued) - Len(w) + k
    <3>1. b - (a - 1) + i = b - a + k
      BY <2>1, <2>2
    <3> QED
      BY <1>1, <1>2, <1>3, <3>1
  <2>5. w[k].file = queued[Len(queued) - Len(w) + k]
    BY <1>1, <2>2
  <2> QED
    BY <2>3, <2>4, <2>5
<1> QED
  BY <1>1, <1>2, <1>3, <1>4, <1>6, <1>7, <1>8

\* Filling up the queues begins the next file or gives it up.
LEMMA RefillFiles ==
  ASSUME NEW q \in OutQueue, NEW packed \in BOOLEAN, NEW opened \in BOOLEAN,
         NEW bufs \in Seq(SentFragment), NEW got, NEW lost,
         NEW queued \in Seq(File), Distinct(queued),
         FileFlow(q, Empty, bufs, got, queued, lost)
  PROVE  FileFlow(Refill(q, packed, opened), Empty, bufs, got, queued,
                  lost \union Unopened(q, opened))
<1> DEFINE w == q.waitlist["file"]
<1>1. PICK r : r = Refill(q, packed, opened)
  OBVIOUS
<1>2. PICK gone : gone = Unopened(q, opened)
  OBVIOUS
<1>3. PICK m \in 0..Len(queued) :
    /\ GotFiles(got, queued, lost, m)
    /\ lost \subseteq {queued[i] : i \in 1..m}
    /\ \/ Idle(q, Empty, bufs, "file") /\ Len(w) = Len(queued) - m
       \/ /\ m < Len(queued) /\ Len(w) = Len(queued) - m - 1
          /\ \E src \in Source : /\ Between(q, Empty, bufs, "file", src)
                                /\ src.file = queued[m+1]
    /\ \A i \in 1..Len(w) : w[i].file = queued[Len(queued) - Len(w) + i]
  BY DEF FileFlow
<1>4. w \in Seq(Source) /\ m \in Nat /\ m <= Len(queued)
  BY <1>3 DEF OutQueue, STREAM
<1>5. \/ /\ q.fragbufs["file"] # <<>> \/ w = <<>>
         /\ FilePart(r) = FilePart(q) /\ gone = {}
      \/ /\ q.fragbufs["file"] = <<>> /\ w # <<>> /\ gone = {Head(w).file}
         /\ r.waitlist["file"] = Tail(w) /\ r.fragbufs["file"] = <<>>
      \/ /\ q.fragbufs["file"] = <<>> /\ w # <<>> /\ gone = {}
         /\ r.waitlist["file"] = Tail(w)
         /\ r.fragbufs["file"] = Fragments(Head(w))
         /\ r.fragbufcount["file"] = Chunks(Head(w))
  BY <1>1, <1>2, RefillFile
<1>6. CASE FilePart(r) = FilePart(q) /\ gone = {}
  <2>1. FileFlow(r, Empty, bufs, got, queued, lost)
    BY <1>6, FileFrame
  <2>2. lost \union gone = lost
    BY <1>6
  <2> QED
    BY <1>1, <1>2, <2>1, <2>2
<1>7. CASE q.fragbufs["file"] = <<>> /\ w # <<>> /\ r.waitlist["file"] = Tail(w)
  <2>1. Idle(q, Empty, bufs, "file") /\ Len(w) = Len(queued) - m /\ bufs = <<>>
    <3>1. ASSUME NEW src \in Source, Between(q, Empty, bufs, "file", src)
          PROVE  FALSE
      BY <1>7, <3>1, BetweenEmpty DEF STREAM
    <3> QED
      BY <1>3, <3>1 DEF Idle
  <2>2. /\ m < Len(queued) /\ Head(w).file = queued[m+1] /\ queued[m+1] \in File
        /\ Tail(w) \in Seq(Source) /\ Len(Tail(w)) = Len(queued) - m - 1
        /\ \A i \in 1..Len(Tail(w)) :
             Tail(w)[i].file = queued[Len(queued) - Len(Tail(w)) + i]
    BY <1>3, <1>4, <1>7, <2>1, NextFile
  <2>3. m + 1 \in 0..Len(queued) /\ Len(queued) - m - 1 = Len(queued) - (m + 1)
    BY <1>4, <2>2
  <2>4. CASE gone = {Head(w).file} /\ r.fragbufs["file"] = <<>>
    <3>1. GotFiles(got, queued, lost \union gone, m + 1)
      BY <1>3, <1>4, <2>2, <2>4, GotLost
    <3>2. lost \union gone \subseteq {queued[i] : i \in 1..m+1}
      BY <1>3, <1>4, <2>2, <2>4
    <3>3. Idle(r, Empty, bufs, "file")
      BY <2>1, <2>4 DEF Idle
    <3>4. FileFlow(r, Empty, bufs, got, queued, lost \union gone)
      BY <1>7, <2>2, <2>3, <3>1, <3>2, <3>3 DEF FileFlow
    <3> QED
      BY <1>1, <1>2, <3>4
  <2>5. CASE /\ gone = {} /\ r.fragbufs["file"] = Fragments(Head(w))
             /\ r.fragbufcount["file"] = Chunks(Head(w))
    <3>1. PICK src \in Source : src = Head(w)
      BY <1>4, <1>7
    <3>2. Chunks(src) \in Nat \ {0}
      BY <2>2, <3>1, Sizes DEF Chunks
    <3>3. Between(r, Empty, bufs, "file", src)
      <4>1. bufs = Received(src, 0) /\ Len(bufs) = 0 /\ Fragments(src) = ToSend(src, 0)
        BY <2>1, ToSendAll
      <4> QED
        BY <2>5, <3>1, <3>2, <4>1, EmptyBlock DEF Between, STREAM
    <3>4. lost \union gone = lost
      BY <2>5
    <3>5. FileFlow(r, Empty, bufs, got, queued, lost)
      BY <1>3, <1>7, <2>2, <3>1, <3>3 DEF FileFlow
    <3> QED
      BY <1>1, <1>2, <3>4, <3>5
  <2> QED
    BY <1>5, <1>7, <2>4, <2>5
<1> QED
  BY <1>5, <1>6, <1>7

\* A block takes the next fragment of the file under way, or none.
LEMMA TakeFiles ==
  ASSUME NEW q \in OutQueue, NEW bufs \in Seq(SentFragment), NEW got, NEW lost,
         NEW queued, NEW no, FileFlow(q, Empty, bufs, got, queued, lost)
  PROVE  FileFlow(Rest(q), Block(q, no), bufs, got, queued, lost)
<1>1. Rest(q).waitlist = q.waitlist
  BY DEF Rest, OutQueue
<1>2. /\ Idle(q, Empty, bufs, "file") => Idle(Rest(q), Block(q, no), bufs, "file")
      /\ \A src \in Source : Between(q, Empty, bufs, "file", src)
                               => Between(Rest(q), Block(q, no), bufs, "file", src)
  BY TakeIdle, TakeBetween DEF STREAM
<1> QED
  BY <1>1, <1>2 DEF FileFlow

\* The peer reads a block: the fragment it brings may complete a file.
LEMMA ReadFiles ==
  ASSUME NEW q, NEW block, NEW bufs \in Seq(SentFragment),
         NEW got \in Seq(File \union {NoFile}), NEW lost,
         NEW queued \in Seq(File), Distinct(queued),
         FileFlow(q, block, bufs, got, queued, lost),
         NEW now, now = Stored(bufs, block.frag["file"]),
         NEW ready \in BOOLEAN, ready <=> IncomingReady(now, block.frag["file"]),
         NEW file, ready => file = IF Whole(now) THEN now[1].src.file ELSE NoFile
  PROVE  FileFlow(q, Empty, IF ready THEN <<>> ELSE now,
                  IF ready THEN Append(got, file) ELSE got, queued, lost)
<1> DEFINE w == q.waitlist["file"]
<1>1. PICK m \in 0..Len(queued) :
    /\ GotFiles(got, queued, lost, m)
    /\ lost \subseteq {queued[i] : i \in 1..m}
    /\ \/ Idle(q, block, bufs, "file") /\ Len(w) = Len(queued) - m
       \/ /\ m < Len(queued) /\ Len(w) = Len(queued) - m - 1
          /\ \E src \in Source : /\ Between(q, block, bufs, "file", src)
                                /\ src.file = queued[m+1]
    /\ \A i \in 1..Len(w) : w[i].file = queued[Len(queued) - Len(w) + i]
  BY DEF FileFlow
<1>2. m \in Nat /\ m <= Len(queued) /\ Len(queued) \in Nat
  BY <1>1
<1>3. CASE Idle(q, block, bufs, "file") /\ Len(w) = Len(queued) - m
  <2>1. now = <<>> /\ ~ready /\ Idle(q, Empty, <<>>, "file")
    BY <1>3, EmptyBlock DEF Idle, Stored, IncomingReady, STREAM
  <2>2. FileFlow(q, Empty, <<>>, got, queued, lost)
    BY <1>1, <1>3, <2>1 DEF FileFlow
  <2> QED
    BY <2>1, <2>2
<1>4. ASSUME m < Len(queued), Len(w) = Len(queued) - m - 1,
             NEW src \in Source, Between(q, block, bufs, "file", src),
             src.file = queued[m+1]
      PROVE  FileFlow(q, Empty, IF ready THEN <<>> ELSE now,
                      IF ready THEN Append(got, file) ELSE got, queued, lost)
  <2>1. \/ /\ ~ready /\ Between(q, Empty, now, "file", src)
        \/ /\ ready /\ now = Received(src, Chunks(src))
           /\ Chunks(src) \in Nat \ {0} /\ Idle(q, Empty, <<>>, "file")
    BY <1>4, StoreBetween DEF STREAM
  <2>2. ready => file = queued[m+1]
    BY <1>4, <2>1, WholeReceived
  <2>3. CASE ~ready /\ Between(q, Empty, now, "file", src)
    <3>1. FileFlow(q, Empty, now, got, queued, lost)
      BY <1>1, <1>4, <2>3 DEF FileFlow
    <3> QED
      BY <2>3, <3>1
  <2>4. CASE ready /\ Idle(q, Empty, <<>>, "file")
    <3>1. queued[m+1] \notin lost
      <4>1. ASSUME NEW i \in 1..m PROVE queued[i] # queued[m+1]
        <5>1. i \in 1..Len(queued) /\ m + 1 \in 1..Len(queued) /\ i # m + 1
          BY <1>2, <1>4
        <5> QED
          BY <5>1 DEF Distinct
      <4> QED
        BY <1>1, <4>1
    <3>2. GotFiles(Append(got, queued[m+1]), queued, lost, m + 1)
      BY <1>1, <1>2, <1>4, <3>1, GotMore
    <3>3. /\ m + 1 \in 0..Len(queued) /\ Len(queued) - m - 1 = Len(queued) - (m + 1)
          /\ \A i \in 1..m : i \in 1..m+1
      BY <1>2, <1>4
    <3>4. lost \subseteq {queued[i] : i \in 1..m+1}
      BY <1>1, <3>3
    <3>5. FileFlow(q, Empty, <<>>, Append(got, queued[m+1]), queued, lost)
      BY <1>1, <1>4, <2>4, <3>2, <3>3, <3>4 DEF FileFlow
    <3> QED
      BY <2>2, <2>4, <3>5
  <2> QED
    BY <2>1, <2>3, <2>4
<1>5. CASE /\ m < Len(queued) /\ Len(w) = Len(queued) - m - 1
           /\ \E src \in Source : /\ Between(q, block, bufs, "file", src)
                                 /\ src.file = queued[m+1]
  BY <1>4, <1>5
<1> QED
  BY <1>1, <1>3, <1>5

-----------------------------------------------------------------------------
(* The state of one direction                                              *)

\* What the state invariants of the channel tell of one direction.
LEMMA Channel ==
  ASSUME TypeOK, ChannelInv, StreamInv, Uncleared, NEW e \in End
  PROVE  /\ AlternatingInv(e) /\ DirectionInv(e)
         /\ Peer(e) \in End /\ Peer(e) # e /\ Peer(Peer(e)) = e
         /\ \A f \in End : f = e \/ f = Peer(e)
         /\ Len(accepted[Peer(e)]) \in Nat /\ loaded[e] \in Nat
         /\ Has(e) <=> ~Lacks(e)
<1>1. aborted[e] = 0
  BY DEF StreamInv, Uncleared
<1>2. AlternatingInv(e) /\ DirectionInv(e)
  BY <1>1 DEF ChannelInv, StreamInv
<1>3. /\ Peer(e) \in End /\ Peer(e) # e /\ Peer(Peer(e)) = e
      /\ \A f \in End : f = e \/ f = Peer(e)
  BY PeerIsOther
<1>4. Len(accepted[Peer(e)]) \in Nat /\ loaded[e] \in Nat
  BY <1>3 DEF TypeOK
<1> QED
  BY <1>2, <1>3, <1>4 DEF AlternatingInv, Has, Lacks

LEMMA DirectionTypes ==
  ASSUME TypeOK, NEW e \in End
  PROVE  /\ outq[e] \in OutQueue /\ written[e] \in Nat
         /\ \A s \in STREAM : incomingbufs[Peer(e)][s] \in Seq(SentFragment)
         /\ delivered[Peer(e)] \in Seq(Nat)
         /\ filesQueued[e] \in Seq(File)
         /\ filesGot[Peer(e)] \in Seq(File \union {NoFile})
<1>1. Peer(e) \in End
  BY PeerIsOther
<1>2. outq[e] \in OutQueue /\ written[e] \in Nat /\ filesQueued[e] \in Seq(File)
  BY DEF TypeOK
<1>3. \A s \in STREAM : incomingbufs[Peer(e)][s] \in Seq(SentFragment)
  BY <1>1 DEF TypeOK
<1>4. delivered[Peer(e)] \in Seq(Nat) /\ filesGot[Peer(e)] \in Seq(File \union {NoFile})
  BY <1>1 DEF TypeOK
<1> QED
  BY <1>2, <1>3, <1>4

\* A direction that nothing touches.
LEMMA DirectionFrame ==
  ASSUME NEW e \in End, DirectionInv(e), Carried(e)', Pending(e)' = Pending(e),
         UNCHANGED <<alive[Peer(e)], incomingbufs[Peer(e)], delivered[Peer(e)],
                     filesGot[Peer(e)], outq[e], written[e], filesQueued[e],
                     filesLost[e]>>
  PROVE  DirectionInv(e)'
BY DEF DirectionInv

LEMMA InitStream == Init => StreamInv
<1> SUFFICES ASSUME Init, NEW e \in End
             PROVE  DirectionInv(e) /\ aborted[e] = 0
  BY DEF StreamInv
<1>1. Peer(e) \in End
  BY PeerIsOther
<1>2. Pending(e) = Empty
  <2>1. Len(accepted[Peer(e)]) = 0 /\ loaded[e] = 0
    BY <1>1 DEF Init
  <2> QED
    BY <2>1 DEF Lacks, Pending
<1>3. /\ outq[e] = NoQueue /\ incomingbufs[Peer(e)] = NoBufs /\ delivered[Peer(e)] = <<>>
      /\ written[e] = 0 /\ filesQueued[e] = <<>> /\ filesGot[Peer(e)] = <<>>
      /\ filesLost[e] = {} /\ alive[Peer(e)] /\ aborted[e] = 0
  BY <1>1 DEF Init
<1>4. /\ NoQueue.message = <<>> /\ NoBufs["normal"] = <<>> /\ NoBufs["file"] = <<>>
      /\ \A s \in STREAM : NoQueue.waitlist[s] = <<>> /\ NoQueue.fragbufs[s] = <<>>
  BY DEF NoQueue, NoBufs, STREAM
<1>5. NormalFlow(NoQueue, Empty, <<>>, <<>>, 0)
  <2>1. Units(0, 0) = <<>> /\ 0 \in 0..0 /\ Waiting(<<>>, 0, 0)
    BY UnitsEmpty, WaitingEmpty
  <2>2. <<>> \o Empty.regular = <<>>
    BY EmptyBlock, EmptySeq, ConcatEmptySeq
  <2>3. Idle(NoQueue, Empty, <<>>, "normal")
    BY <1>4, EmptyBlock DEF Idle, STREAM
  <2>4. Queued(NoQueue, 0, 0)
    BY <1>4, <2>1 DEF Queued, STREAM
  <2> QED
    BY <2>1, <2>2, <2>3, <2>4 DEF NormalFlow
<1>6. FileFlow(NoQueue, Empty, <<>>, <<>>, <<>>, {})
  <2>1. GotFiles(<<>>, <<>>, {}, 0)
    <3>1. PICK pos : pos = [i \in DOMAIN <<>> |-> 0]
      OBVIOUS
    <3>2. DOMAIN <<>> = {} /\ 1..0 = {}
      OBVIOUS
    <3>3. pos \in [DOMAIN <<>> -> 1..0]
      BY <3>1, <3>2
    <3> QED
      BY <3>2, <3>3 DEF GotFiles
  <2>2. Idle(NoQueue, Empty, <<>>, "file") /\ NoQueue.waitlist["file"] = <<>>
    BY <1>4, EmptyBlock DEF Idle, STREAM
  <2>3. Len(<<>>) = 0 /\ 0 \in 0..Len(<<>>)
    OBVIOUS
  <2> QED
    BY <2>1, <2>2, <2>3 DEF FileFlow
<1>7. Carried(e) /\ Distinct(<<>>)
  BY DEF Init, Carried, Distinct
<1> QED
  BY <1>2, <1>3, <1>4, <1>5, <1>6, <1>7 DEF DirectionInv

\* The application queues data.
LEMMA QueueStream ==
  ASSUME TypeOK, StreamInv, NEW e \in End, Queue(e)
  PROVE  StreamInv'
<1>1. UNCHANGED <<seqvars, outvars, relvars, incomingbufs, alive, net, delivered,
                  filesLost, filesGot, blockvars, clearvars>>
  BY DEF Queue, Write, CreateFragments, CreateFileFragments, filevars
<1>2. Uncleared' = Uncleared /\ aborted' = aborted /\ clears' = clears
  BY <1>1 DEF clearvars, Uncleared
<1>3. ASSUME NEW f \in End, DirectionInv(f)
      PROVE  Carried(f)' /\ Pending(f)' = Pending(f)
  BY <1>1, <1>3 DEF DirectionInv, Carried, Pending, Lacks, seqvars, relvars, blockvars
<1>4. UNCHANGED <<alive, incomingbufs, delivered, filesGot, filesLost>>
  BY <1>1
<1>5. ASSUME NEW f \in End, f # e, DirectionInv(f) PROVE DirectionInv(f)'
  <2>1. /\ outq'[f] = outq[f] /\ written'[f] = written[f]
        /\ filesQueued'[f] = filesQueued[f]
    BY <1>5, ZenonT(30) DEF Queue, Write, CreateFragments, CreateFileFragments, filevars, TypeOK
  <2> QED
    BY <1>3, <1>4, <1>5, <2>1, DirectionFrame
<1>6. ASSUME DirectionInv(e) PROVE DirectionInv(e)'
  <2> DEFINE r == Peer(e)
             q == outq[e]
             n == written[e]
  <2>1. /\ q \in OutQueue /\ n \in Nat /\ filesQueued[e] \in Seq(File)
    BY DirectionTypes
  <2>2. /\ NormalFlow(q, Pending(e), incomingbufs[r]["normal"], delivered[r], n)
        /\ FileFlow(q, Pending(e), incomingbufs[r]["file"], filesGot[r],
                    filesQueued[e], filesLost[e])
        /\ Distinct(filesQueued[e]) /\ alive[r]
    BY <1>6 DEF DirectionInv
  <2>3. ASSUME NEW d \in Nat PROVE NewUnits(e, d) = Units(n, n + d)
    BY <2>1 DEF NewUnits, Units
  <2>4. ASSUME NEW d \in WriteSizes, Write(e, d) PROVE DirectionInv(e)'
    <3>1. d \in Nat \ {0}
      BY Sizes
    <3>2. /\ outq'[e] = SZ_Write(q, Units(n, n + d)) /\ written'[e] = n + d
          /\ filesQueued' = filesQueued
      BY <2>3, <2>4, <3>1 DEF Write, TypeOK, filevars
    <3>3. FilePart(SZ_Write(q, Units(n, n + d))) = FilePart(q)
      BY <2>1 DEF FilePart, SZ_Write, OutQueue
    <3>4. NormalFlow(outq'[e], Pending(e), incomingbufs[r]["normal"], delivered[r], n + d)
      BY <2>1, <2>2, <3>1, <3>2, WriteFlow
    <3>5. FileFlow(outq'[e], Pending(e), incomingbufs[r]["file"], filesGot[r],
                   filesQueued[e], filesLost[e])
      BY <2>2, <3>2, <3>3, FileFrame
    <3> QED
      BY <1>3, <1>4, <1>6, <2>2, <3>2, <3>4, <3>5 DEF DirectionInv
  <2>5. ASSUME NEW d \in WriteSizes, NEW packed \in MayCompress, CreateFragments(e, d, packed)
        PROVE  DirectionInv(e)'
    <3>1. d \in Nat \ {0} /\ packed \in BOOLEAN
      BY Sizes
    <3>2. /\ outq'[e] = CreateFragments_(Spill(q, packed), Units(n, n + d), packed)
          /\ written'[e] = n + d /\ filesQueued' = filesQueued
      BY <2>3, <2>5, <3>1 DEF CreateFragments, TypeOK, filevars
    <3>3. FilePart(outq'[e]) = FilePart(q)
      <4>1. Spill(q, packed) \in OutQueue /\ FilePart(Spill(q, packed)) = FilePart(q)
        BY <2>1, <3>1, SpillType, SpillFrame, EmptySeq
      <4>2. Units(n, n + d) \in Seq(Nat)
        <5>1. PICK b \in Nat : b = n + d
          BY <2>1, <3>1
        <5> QED
          BY <2>1, <3>1, <5>1, UnitsSeq
      <4> QED
        BY <3>1, <3>2, <4>1, <4>2, CreateFrame
    <3>4. NormalFlow(outq'[e], Pending(e), incomingbufs[r]["normal"], delivered[r], n + d)
      BY <2>1, <2>2, <3>1, <3>2, CreateFlow
    <3>5. FileFlow(outq'[e], Pending(e), incomingbufs[r]["file"], filesGot[r],
                   filesQueued[e], filesLost[e])
      BY <2>2, <3>3, FileFrame
    <3> QED
      BY <1>3, <1>4, <1>6, <2>2, <3>2, <3>4, <3>5 DEF DirectionInv
  <2>6. ASSUME NEW f \in File, NEW deferred \in BOOLEAN, CreateFileFragments(e, f, deferred)
        PROVE  DirectionInv(e)'
    <3>1. ~\E i \in 1..Len(filesQueued[e]) : filesQueued[e][i] = f
      BY <2>1, <2>6 DEF CreateFileFragments, Contains
    <3>2. PICK q1 : q1 = [q EXCEPT !.waitlist["file"] = Append(@, FileSource(f, deferred))]
      OBVIOUS
    <3>3. outq'[e] = q1 /\ written' = written
          /\ filesQueued'[e] = Append(filesQueued[e], f)
      BY <2>6, <3>2 DEF CreateFileFragments, TypeOK
    <3>4. /\ Distinct(Append(filesQueued[e], f))
          /\ FileFlow(q1, Pending(e), incomingbufs[r]["file"], filesGot[r],
                      Append(filesQueued[e], f), filesLost[e])
      BY <2>1, <2>2, <3>1, <3>2, QueueFile
    <3>5. NormalPart(q1) = NormalPart(q)
      BY <2>1, <3>2 DEF NormalPart, OutQueue
    <3>6. NormalFlow(q1, Pending(e), incomingbufs[r]["normal"], delivered[r], n)
      BY <2>2, <3>5, ZenonT(30) DEF NormalPart, NormalFlow, Idle, Between, Queued
    <3> QED
      BY <1>3, <1>4, <1>6, <2>2, <3>3, <3>4, <3>6 DEF DirectionInv
  <2> QED
    BY <2>4, <2>5, <2>6 DEF Queue
<1> QED
  BY <1>2, <1>5, <1>6 DEF StreamInv

\* The application calls Netchan_Clear.
LEMMA ClearStream ==
  ASSUME TypeOK, StreamInv, NEW e \in End, Clear(e)
  PROVE  StreamInv'
<1>1. clears[e] \in Nat /\ clears'[e] = clears[e] + 1
  BY DEF Clear, TypeOK
<1>2. ASSUME NEW f \in End, clears'[f] = 0 PROVE aborted'[f] = 0
  <2>1. f # e
    BY <1>1, <1>2
  <2>2. clears'[f] = clears[f] /\ aborted'[f] = aborted[f]
    BY <2>1 DEF Clear, TypeOK
  <2> QED
    BY <1>2, <2>2 DEF StreamInv
<1>3. ~Uncleared'
  BY <1>1 DEF Uncleared
<1> QED
  BY <1>2, <1>3 DEF StreamInv

\* A packet is sent: it carries the block that the peer lacks, or none.
LEMMA SendStream ==
  ASSUME TypeOK, NEW e \in End, NEW reliable \in BOOLEAN, NEW block,
         Send(e, reliable, block), UNCHANGED incoming_sequence,
         reliable => block = reliable_buf'[e],
         \A p \in net : p.to = Peer(e) /\ p.reliable /\ p.seq > incoming_sequence[Peer(e)] =>
           p.block = reliable_buf'[e],
         Carried(e), Carried(Peer(e)),
         reliable_buf'[Peer(e)] = reliable_buf[Peer(e)]
  PROVE  Carried(e)' /\ Carried(Peer(e))'
<1>1. Peer(e) \in End /\ Peer(e) # e /\ Peer(Peer(e)) = e
  BY PeerIsOther
<1>2. PICK new : /\ new.to = Peer(e) /\ new.reliable = reliable
                 /\ new.block = (IF reliable THEN block ELSE Empty)
                 /\ \A p \in net' : p \in net \/ p = new
  <2> DEFINE seq == outgoing_sequence[e]
             p == [to |-> Peer(e), seq |-> seq, reliable |-> reliable,
                   ack |-> incoming_sequence[e],
                   reliable_ack |-> incoming_reliable_sequence[e],
                   block |-> IF reliable THEN block ELSE Empty]
  <2>1. net' = {q \in net : q.to = Peer(e) => q.seq + Window > seq} \union {p}
    BY DEF Send
  <2>2. \A x \in net' : x \in net \/ x = p
    BY <2>1
  <2>3. /\ p.to = Peer(e) /\ p.reliable = reliable
        /\ p.block = (IF reliable THEN block ELSE Empty)
    OBVIOUS
  <2> HIDE DEF p
  <2> QED
    BY <2>2, <2>3
<1>3. Carried(e)'
  <2>1. ASSUME NEW p \in net', p.to = Peer(e), p.reliable, p.seq > incoming_sequence[Peer(e)]
        PROVE  p.block = reliable_buf'[e]
    BY <1>2, <2>1
  <2>2. ASSUME NEW p \in net', p.to = Peer(e), ~p.reliable
        PROVE  p.block = Empty
    BY <1>2, <2>2 DEF Carried
  <2> QED
    BY <2>1, <2>2 DEF Carried
<1>4. Carried(Peer(e))'
  BY <1>1, <1>2 DEF Carried
<1> QED
  BY <1>3, <1>4

\* Netchan_Transmit with nothing in flight.
LEMMA LoadStream ==
  ASSUME TypeOK, ChannelInv, StreamInv, Uncleared, NEW e \in End,
         NEW packed \in BOOLEAN, NEW opened \in BOOLEAN, ~outq[e].overflowed,
         reliable_buf[e] = Empty, Load(e, packed, opened),
         UNCHANGED <<incoming_sequence, accepted, alive, incomingbufs, delivered,
                     filesGot, filesQueued, written>>
  PROVE  DirectionInv(e)' /\ Carried(Peer(e))' /\ Pending(Peer(e))' = Pending(Peer(e))
<1> DEFINE r == Peer(e)
<1>1. /\ AlternatingInv(e) /\ DirectionInv(e) /\ Carried(r)
      /\ r \in End /\ r # e /\ Peer(r) = e
      /\ Len(accepted[r]) \in Nat /\ loaded[e] \in Nat
  BY Channel DEF DirectionInv
<1>2. Has(e) /\ ~Lacks(e) /\ Pending(e) = Empty
  BY <1>1, Channel DEF AlternatingInv, Pending
<1>3. /\ outq[e] \in OutQueue /\ written[e] \in Nat /\ filesQueued[e] \in Seq(File)
      /\ incomingbufs[r]["normal"] \in Seq(SentFragment)
      /\ incomingbufs[r]["file"] \in Seq(SentFragment)
      /\ delivered[r] \in Seq(Nat)
  BY DirectionTypes DEF STREAM
<1>4. PICK q \in OutQueue : q = Refill(outq[e], packed, opened)
  BY <1>3, RefillType
<1>5. /\ NormalFlow(outq[e], Empty, incomingbufs[r]["normal"], delivered[r], written[e])
      /\ FileFlow(outq[e], Empty, incomingbufs[r]["file"], filesGot[r],
                  filesQueued[e], filesLost[e])
      /\ Distinct(filesQueued[e]) /\ alive[r] /\ Carried(e)
  BY <1>1, <1>2 DEF DirectionInv
<1>6. /\ NormalFlow(q, Empty, incomingbufs[r]["normal"], delivered[r], written[e])
      /\ ~q.overflowed
      /\ q.fragbufs["normal"] = <<>> => q.waitlist["normal"] = <<>>
  BY <1>3, <1>4, <1>5, RefillFlow
<1>7. PICK lost : lost = filesLost[e] \union Unopened(outq[e], opened)
  OBVIOUS
<1>8. FileFlow(q, Empty, incomingbufs[r]["file"], filesGot[r], filesQueued[e], lost)
  BY <1>3, <1>4, <1>5, <1>7, RefillFiles
<1>9. filesLost'[e] = lost
  BY <1>7 DEF Load, TypeOK
<1>10. \A p \in net : ~(p.to = r /\ p.reliable /\ p.seq > incoming_sequence[r])
  BY <1>1, <1>2 DEF AlternatingInv
<1>11. CASE HasData(q)
  <2>1. PICK block : block = Block(q, loaded[e] + 1)
    OBVIOUS
  <2>2. /\ reliable_buf' = [reliable_buf EXCEPT ![e] = block]
        /\ loaded' = [loaded EXCEPT ![e] = @ + 1]
        /\ outq' = [outq EXCEPT ![e] = Rest(q)]
        /\ Send(e, TRUE, block)
    BY <1>4, <1>11, <2>1 DEF Load
  <2>3. /\ reliable_buf'[e] = block /\ reliable_buf'[r] = reliable_buf[r]
        /\ loaded'[e] = loaded[e] + 1 /\ loaded'[r] = loaded[r]
        /\ outq'[e] = Rest(q)
    BY <1>1, <2>2 DEF TypeOK
  <2>4. Carried(e)' /\ Carried(r)'
    BY <1>1, <1>5, <1>10, <2>2, <2>3, SendStream
  <2>5. Pending(e)' = block
    BY <1>1, <1>2, <2>3 DEF Pending, Lacks, Has
  <2>6. Pending(r)' = Pending(r)
    BY <2>3 DEF Pending, Lacks
  <2>7. /\ NormalFlow(Rest(q), block, incomingbufs[r]["normal"], delivered[r], written[e])
        /\ FileFlow(Rest(q), block, incomingbufs[r]["file"], filesGot[r],
                    filesQueued[e], lost)
    BY <1>3, <1>6, <1>8, <2>1, TakeFlow, TakeFiles
  <2> QED
    BY <1>5, <1>9, <2>3, <2>4, <2>5, <2>6, <2>7 DEF DirectionInv
<1>12. CASE ~HasData(q)
  <2>1. /\ outq' = [outq EXCEPT ![e] = q] /\ Send(e, ResendDue(e), Empty)
        /\ UNCHANGED <<reliable_buf, loaded>>
    BY <1>4, <1>12 DEF Load, relvars
  <2>2. outq'[e] = q
    BY <2>1 DEF TypeOK
  <2>3. ResendDue(e) \in BOOLEAN
    BY DEF ResendDue
  <2>4. Carried(e)' /\ Carried(r)'
    BY <1>1, <1>5, <1>10, <2>1, <2>3, SendStream
  <2>5. Pending(e)' = Pending(e) /\ Pending(r)' = Pending(r)
    BY <2>1 DEF Pending, Lacks
  <2> QED
    BY <1>2, <1>5, <1>6, <1>8, <1>9, <2>2, <2>4, <2>5 DEF DirectionInv
<1> QED
  BY <1>11, <1>12

LEMMA TransmitStream ==
  ASSUME TypeOK, ChannelInv, StreamInv, NEW e \in End, NEW packed \in BOOLEAN,
         NEW opened \in BOOLEAN, Transmit(e, packed, opened)
  PROVE  StreamInv'
<1> DEFINE r == Peer(e)
<1>1. UNCHANGED <<incoming_sequence, accepted, alive, incomingbufs, delivered,
                  filesGot, filesQueued, written, clears, aborted>>
  BY DEF Transmit, seqvars, clearvars
<1>2. Uncleared' = Uncleared
  BY <1>1 DEF Uncleared
<1> SUFFICES ASSUME Uncleared PROVE DirectionInv(e)' /\ DirectionInv(r)'
  <2>1. \A f \in End : f = e \/ f = r
    BY PeerIsOther
  <2> QED
    BY <1>1, <1>2, <2>1 DEF StreamInv
<1>3. /\ AlternatingInv(e) /\ DirectionInv(e) /\ DirectionInv(r)
      /\ r \in End /\ r # e /\ Peer(r) = e
  BY Channel DEF StreamInv
<1>4. outq'[r] = outq[r] /\ filesLost'[r] = filesLost[r]
  <2>1. CASE Load(e, packed, opened)
    BY <1>3, <2>1 DEF Load, TypeOK
  <2>2. CASE Hold(e)
    BY <2>2 DEF Hold
  <2> QED
    BY <2>1, <2>2 DEF Transmit
<1>5. ASSUME Carried(r)', Pending(r)' = Pending(r) PROVE DirectionInv(r)'
  BY <1>1, <1>3, <1>4, <1>5, DirectionFrame
<1>6. CASE reliable_buf[e] = Empty
  <2>1. ~outq[e].overflowed /\ Load(e, packed, opened)
    BY <1>6 DEF Transmit
  <2>2. DirectionInv(e)' /\ Carried(r)' /\ Pending(r)' = Pending(r)
    BY <1>1, <1>6, <2>1, LoadStream
  <2> QED
    BY <1>5, <2>2
<1>7. CASE reliable_buf[e] # Empty
  <2>1. Send(e, ResendDue(e), reliable_buf[e]) /\ UNCHANGED <<reliable_buf, outq, filesLost, loaded>>
    BY <1>7 DEF Transmit, Hold, relvars
  <2>2. Carried(e) /\ Carried(r)
    BY <1>3 DEF DirectionInv
  <2>3. Carried(e)' /\ Carried(r)'
    <3>1. ResendDue(e) \in BOOLEAN
      BY DEF ResendDue
    <3>2. \A p \in net : p.to = r /\ p.reliable /\ p.seq > incoming_sequence[r] =>
            p.block = reliable_buf'[e]
      BY <2>1, <2>2 DEF Carried
    <3> QED
      BY <1>1, <2>1, <2>2, <3>1, <3>2, SendStream
  <2>4. \A f \in End : Pending(f)' = Pending(f)
    BY <1>1, <2>1 DEF Pending, Lacks
  <2>5. DirectionInv(e)'
    BY <1>1, <1>3, <2>1, <2>3, <2>4, DirectionFrame
  <2> QED
    BY <1>3, <1>5, <2>3, <2>4, <2>5
<1> QED
  BY <1>6, <1>7

\* A stream of r with the block's fragment, and whether that completes a source.
Now(r, block, s) == Stored(incomingbufs[r][s], block.frag[s])
Ready(r, block, s) == IncomingReady(Now(r, block, s), block.frag[s])
FileOf(bufs) == IF Whole(bufs) THEN bufs[1].src.file ELSE NoFile

LEMMA PayloadStep ==
  ASSUME TypeOK, NEW r \in End, NEW block, ProcessPayload(r, block),
         Ready(r, block, "normal") => Decompresses(Now(r, block, "normal"))
  PROVE  /\ alive'[r]
         /\ delivered'[r] = delivered[r] \o block.regular \o
              (IF Ready(r, block, "normal") THEN Assembled(Now(r, block, "normal"))
               ELSE <<>>)
         /\ \A s \in STREAM :
              incomingbufs'[r][s] = IF Ready(r, block, s) THEN <<>> ELSE Now(r, block, s)
         /\ filesGot'[r] = IF Ready(r, block, "file")
                           THEN Append(filesGot[r], FileOf(Now(r, block, "file")))
                           ELSE filesGot[r]
<1> DEFINE bufs == [s \in STREAM |->
                      IF block.frag[s] = NoFrag THEN incomingbufs[r][s]
                      ELSE StoreFragment(incomingbufs[r][s], block.frag[s])]
           ready(s) == IncomingReady(bufs[s], block.frag[s])
           broken == ready("normal") /\ ~Decompresses(bufs["normal"])
           text == IF ready("normal") /\ ~broken THEN Assembled(bufs["normal"])
                   ELSE <<>>
<1>1. /\ delivered' = [delivered EXCEPT ![r] = @ \o block.regular \o text]
      /\ alive' = [alive EXCEPT ![r] = ~broken]
      /\ filesGot' = [filesGot EXCEPT ![r] =
           IF ready("file") /\ ~broken
           THEN Append(@, IF Whole(bufs["file"]) THEN bufs["file"][1].src.file
                          ELSE NoFile)
           ELSE @]
      /\ incomingbufs' = [incomingbufs EXCEPT ![r] =
           [s \in STREAM |-> IF ready(s) THEN <<>> ELSE bufs[s]]]
  BY DEF ProcessPayload
<1>2. ASSUME NEW s \in STREAM
      PROVE  bufs[s] = Now(r, block, s) /\ (ready(s) <=> Ready(r, block, s))
  BY DEF Now, Stored, Ready
<1>3. "normal" \in STREAM /\ "file" \in STREAM
  BY DEF STREAM
<1>4. ~broken
  BY <1>2, <1>3
<1>5. /\ alive \in [End -> BOOLEAN] /\ DOMAIN delivered = End
      /\ DOMAIN incomingbufs = End /\ DOMAIN filesGot = End
  BY DEF TypeOK
<1> HIDE DEF bufs, broken
<1>6. text = IF Ready(r, block, "normal") THEN Assembled(Now(r, block, "normal"))
             ELSE <<>>
  BY <1>2, <1>3, <1>4
<1> HIDE DEF text
<1>7. delivered'[r] = delivered[r] \o block.regular \o text /\ alive'[r]
  BY <1>1, <1>4, <1>5
<1>8. \A s \in STREAM :
        incomingbufs'[r][s] = IF Ready(r, block, s) THEN <<>> ELSE Now(r, block, s)
  BY <1>1, <1>2, <1>5
<1>9. filesGot'[r] = IF Ready(r, block, "file")
                     THEN Append(filesGot[r], FileOf(Now(r, block, "file")))
                     ELSE filesGot[r]
  BY <1>1, <1>2, <1>3, <1>4, <1>5 DEF FileOf
<1> QED
  BY <1>6, <1>7, <1>8, <1>9

\* The peer of e reads the block it lacks.
LEMMA AcceptStream ==
  ASSUME TypeOK, NEW e \in End, DirectionInv(e), NEW block \in BlockType,
         ProcessPayload(Peer(e), block), Pending(e) = block, Pending(e)' = Empty,
         UNCHANGED <<outq, written, filesQueued, filesLost>>, Carried(e)'
  PROVE  DirectionInv(e)'
<1> DEFINE r == Peer(e)
           q == outq[e]
<1>1. r \in End
  BY PeerIsOther
<1>2. /\ written[e] \in Nat /\ filesQueued[e] \in Seq(File)
      /\ incomingbufs[r]["normal"] \in Seq(SentFragment)
      /\ incomingbufs[r]["file"] \in Seq(SentFragment)
      /\ delivered[r] \in Seq(Nat) /\ filesGot[r] \in Seq(File \union {NoFile})
  BY DirectionTypes DEF STREAM
<1>3. /\ NormalFlow(q, block, incomingbufs[r]["normal"], delivered[r], written[e])
      /\ FileFlow(q, block, incomingbufs[r]["file"], filesGot[r],
                  filesQueued[e], filesLost[e])
      /\ Distinct(filesQueued[e])
  BY DEF DirectionInv
<1>4. /\ Ready(r, block, "normal") => Decompresses(Now(r, block, "normal"))
      /\ NormalFlow(q, Empty,
           IF Ready(r, block, "normal") THEN <<>> ELSE Now(r, block, "normal"),
           delivered[r] \o block.regular \o
             (IF Ready(r, block, "normal") THEN Assembled(Now(r, block, "normal"))
              ELSE <<>>), written[e])
  BY <1>2, <1>3, ReadFlow DEF Ready, Now
<1>5. FileFlow(q, Empty, IF Ready(r, block, "file") THEN <<>> ELSE Now(r, block, "file"),
               IF Ready(r, block, "file")
               THEN Append(filesGot[r], FileOf(Now(r, block, "file"))) ELSE filesGot[r],
               filesQueued[e], filesLost[e])
  <2>1. PICK now : now = Now(r, block, "file")
    OBVIOUS
  <2>2. PICK ready \in BOOLEAN : ready = Ready(r, block, "file")
    BY DEF Ready, IncomingReady
  <2>3. now = Stored(incomingbufs[r]["file"], block.frag["file"])
    BY <2>1 DEF Now
  <2>4. ready <=> IncomingReady(now, block.frag["file"])
    BY <2>1, <2>2 DEF Ready
  <2>5. PICK file : file = IF Whole(now) THEN now[1].src.file ELSE NoFile
    OBVIOUS
  <2>6. FileFlow(q, Empty, IF ready THEN <<>> ELSE now,
                 IF ready THEN Append(filesGot[r], file) ELSE filesGot[r],
                 filesQueued[e], filesLost[e])
    BY <1>2, <1>3, <2>3, <2>4, <2>5, ReadFiles
  <2> QED
    BY <2>1, <2>2, <2>5, <2>6 DEF FileOf
<1>6. /\ alive'[r]
      /\ delivered'[r] = delivered[r] \o block.regular \o
           (IF Ready(r, block, "normal") THEN Assembled(Now(r, block, "normal"))
            ELSE <<>>)
      /\ \A s \in STREAM :
           incomingbufs'[r][s] = IF Ready(r, block, s) THEN <<>> ELSE Now(r, block, s)
      /\ filesGot'[r] = IF Ready(r, block, "file")
                        THEN Append(filesGot[r], FileOf(Now(r, block, "file")))
                        ELSE filesGot[r]
  <2> HIDE DEF r
  <2>1. ProcessPayload(r, block)
    BY DEF r
  <2> QED
    BY <1>1, <1>4, <2>1, PayloadStep
<1>7. /\ NormalFlow(q, Empty, incomingbufs'[r]["normal"], delivered'[r], written[e])
      /\ FileFlow(q, Empty, incomingbufs'[r]["file"], filesGot'[r],
                  filesQueued[e], filesLost[e])
  BY <1>4, <1>5, <1>6 DEF STREAM
<1> QED
  BY <1>3, <1>6, <1>7 DEF DirectionInv

\* It reads a packet without a block.
LEMMA IgnoreStream ==
  ASSUME TypeOK, NEW e \in End, DirectionInv(e),
         ProcessPayload(Peer(e), Empty), Pending(e)' = Pending(e),
         UNCHANGED <<outq, written, filesQueued, filesLost>>, Carried(e)'
  PROVE  DirectionInv(e)'
<1> DEFINE r == Peer(e)
<1>1. r \in End
  BY PeerIsOther
<1>2. \A s \in STREAM : ~Ready(r, Empty, s) /\ Now(r, Empty, s) = incomingbufs[r][s]
  BY EmptyBlock DEF Ready, Now, IncomingReady, Stored
<1>3. ~Ready(r, Empty, "normal") /\ ~Ready(r, Empty, "file")
  BY <1>2 DEF STREAM
<1>4. delivered[r] \in Seq(Nat) /\ incomingbufs \in [End -> [STREAM -> Seq(SentFragment)]]
  BY <1>1 DEF TypeOK
<1>5. delivered[r] \o Empty.regular \o <<>> = delivered[r]
  BY <1>4, EmptyBlock, ConcatEmptySeq
<1>6. /\ alive'[r] /\ delivered'[r] = delivered[r] /\ filesGot'[r] = filesGot[r]
      /\ \A s \in STREAM : incomingbufs'[r][s] = incomingbufs[r][s]
  <2> HIDE DEF r
  <2>1. ProcessPayload(r, Empty)
    BY DEF r
  <2>2. /\ alive'[r]
        /\ delivered'[r] = delivered[r] \o Empty.regular \o
             (IF Ready(r, Empty, "normal") THEN Assembled(Now(r, Empty, "normal"))
              ELSE <<>>)
        /\ \A s \in STREAM :
             incomingbufs'[r][s] = IF Ready(r, Empty, s) THEN <<>> ELSE Now(r, Empty, s)
        /\ filesGot'[r] = IF Ready(r, Empty, "file")
                          THEN Append(filesGot[r], FileOf(Now(r, Empty, "file")))
                          ELSE filesGot[r]
    BY <1>1, <1>3, <2>1, PayloadStep
  <2> QED
    BY <1>2, <1>3, <1>5, <2>2
<1> QED
  BY <1>6 DEF DirectionInv, STREAM

\* A packet is read.
LEMMA ReadStream ==
  ASSUME TypeOK, ChannelInv, StreamInv, NEW r \in End, NEW p \in net, ReadPacket(r, p)
  PROVE  StreamInv'
<1> DEFINE e == Peer(r)
<1>1. /\ UNCHANGED <<last_reliable_sequence, reliable_sequence, outq, net, written,
                     filesQueued, filesLost, loaded, clears, aborted>>
      /\ p.to = r /\ p.seq > incoming_sequence[r]
      /\ ProcessHeader(r, p) /\ ProcessPayload(r, p.block)
  BY DEF ReadPacket, outvars, clearvars, Fresh
<1>2. Uncleared' = Uncleared
  BY <1>1 DEF Uncleared
<1>3. e \in End /\ e # r /\ Peer(e) = r
  BY PeerIsOther
<1> SUFFICES ASSUME Uncleared PROVE DirectionInv(e)' /\ DirectionInv(r)'
  <2>1. \A f \in End : f = e \/ f = r
    BY PeerIsOther
  <2> QED
    BY <1>1, <1>2, <2>1 DEF StreamInv
<1>4. /\ AlternatingInv(e) /\ DirectionInv(e) /\ (Has(e) <=> ~Lacks(e))
      /\ AlternatingInv(r) /\ DirectionInv(r) /\ (Has(r) <=> ~Lacks(r))
      /\ Len(accepted[r]) \in Nat /\ loaded[e] \in Nat
  BY <1>3, Channel
<1>5. /\ p.block \in BlockType /\ p.block.no \in Nat /\ p.reliable \in BOOLEAN
      /\ p.seq \in Nat
  BY DEF TypeOK, Packet, BlockType
<1>6. /\ incoming_sequence'[r] = p.seq /\ incoming_sequence'[e] = incoming_sequence[e]
      /\ reliable_buf'[e] = reliable_buf[e] /\ accepted'[e] = accepted[e]
      /\ reliable_buf'[r] = IF Acknowledges(r, p) THEN Empty ELSE reliable_buf[r]
      /\ accepted'[r] = IF p.reliable THEN Append(accepted[r], p.block.no) ELSE accepted[r]
  BY <1>1, <1>3 DEF ProcessHeader, TypeOK
<1>7. Carried(e)'
  <2>1. \A x \in net : x.seq \in Nat
    BY DEF TypeOK, Packet
  <2>2. incoming_sequence[r] \in Nat
    BY DEF TypeOK
  <2>3. \A x \in net : x.seq > p.seq => x.seq > incoming_sequence[r]
    BY <1>1, <1>5, <2>1, <2>2
  <2> QED
    BY <1>1, <1>3, <1>4, <1>6, <2>3 DEF DirectionInv, Carried
<1>8. DirectionInv(e)'
  <2>1. CASE p.reliable
    <3>1. Lacks(e)
      BY <1>1, <1>3, <1>4, <2>1 DEF AlternatingInv
    <3>2. p.block = Pending(e)
      BY <1>1, <1>3, <1>4, <2>1, <3>1 DEF DirectionInv, Carried, Pending
    <3>3. Pending(e)' = Empty
      <4>1. accepted[r] \in Seq(Nat)
        BY DEF TypeOK
      <4>2. Len(accepted'[r]) = Len(accepted[r]) + 1
        BY <1>5, <1>6, <2>1, <4>1
      <4>3. ~Lacks(e)'
        BY <1>1, <1>3, <1>4, <3>1, <4>2 DEF Lacks
      <4> QED
        BY <4>3 DEF Pending
    <3> QED
      BY <1>1, <1>3, <1>4, <1>5, <1>7, <3>2, <3>3, AcceptStream
  <2>2. CASE ~p.reliable
    <3>1. p.block = Empty
      BY <1>1, <1>3, <1>4, <2>2 DEF DirectionInv, Carried
    <3>2. Pending(e)' = Pending(e)
      BY <1>1, <1>3, <1>6, <2>2 DEF Pending, Lacks
    <3> QED
      BY <1>1, <1>3, <1>4, <1>7, <3>1, <3>2, IgnoreStream
  <2> QED
    BY <1>5, <2>1, <2>2
<1>9. DirectionInv(r)'
  <2>1. Acknowledges(r, p) => Has(r)
    BY <1>1, <1>4 DEF AlternatingInv, AckMeans, Acknowledges
  <2>2. Pending(r)' = Pending(r)
    BY <1>1, <1>4, <1>6, <2>1 DEF Pending, Lacks
  <2>3. Carried(r)'
    <3>1. CASE Acknowledges(r, p)
      <4>1. \A x \in net : ~(x.to = e /\ x.reliable /\ x.seq > incoming_sequence[e])
        BY <1>4, <2>1, <3>1 DEF AlternatingInv
      <4> QED
        BY <1>1, <1>4, <1>6, <4>1 DEF Carried, DirectionInv
    <3>2. CASE ~Acknowledges(r, p)
      BY <1>1, <1>4, <1>6, <3>2 DEF Carried, DirectionInv
    <3> QED
      BY <3>1, <3>2
  <2>4. UNCHANGED <<alive[e], delivered[e], incomingbufs[e], filesGot[e]>>
    <3>1. /\ alive \in [End -> BOOLEAN] /\ DOMAIN delivered = End
          /\ DOMAIN incomingbufs = End /\ DOMAIN filesGot = End
      BY DEF TypeOK
    <3> QED
      BY <1>1, <1>3, <3>1 DEF ProcessPayload
  <2> QED
    BY <1>1, <1>4, <2>2, <2>3, <2>4, DirectionFrame
<1> QED
  BY <1>8, <1>9

-----------------------------------------------------------------------------
(* Theorems                                                                *)

LEMMA StreamStep ==
  ASSUME TypeOK, ChannelInv, StreamInv, [Next]_vars
  PROVE  StreamInv'
<1>1. ASSUME NEW e \in Writer, Queue(e) PROVE StreamInv'
  BY <1>1, QueueStream, Sizes
<1>2. ASSUME NEW e \in End, TransmitAny(e) PROVE StreamInv'
  BY <1>2, TransmitStream, Sizes DEF TransmitAny
<1>3. ASSUME NEW e \in End, ReadAny(e) PROVE StreamInv'
  BY <1>3, ReadStream DEF ReadAny
<1>4. ASSUME NEW e \in End, Clear(e) PROVE StreamInv'
  BY <1>4, ClearStream
<1>5. CASE UNCHANGED vars
  <2>1. UNCHANGED <<incoming_sequence, reliable_buf, outq, incomingbufs, alive, net,
                    written, delivered, filesQueued, filesLost, filesGot, loaded,
                    accepted, clears, aborted>>
    BY <1>5 DEF vars, seqvars, relvars, filevars, blockvars, clearvars
  <2> QED
    BY <2>1 DEF StreamInv, Uncleared, DirectionInv, Carried, Pending, Lacks
<1> QED
  BY <1>1, <1>2, <1>3, <1>4, <1>5 DEF Next

\* As long as nobody called Netchan_Clear every unit and every file queued is in
\* exactly one place between the two ends, and the places are in order.
THEOREM StreamInvHolds == Spec => []StreamInv
<1>1. Init => StreamInv
  BY InitStream
<1>2. TypeOK /\ ChannelInv /\ StreamInv /\ [Next]_vars => StreamInv'
  BY StreamStep
<1> QED
  BY <1>1, <1>2, TypeCorrect, ChannelInvHolds, PTL DEF Spec

LEMMA IdleOrBetween ==
  ASSUME TypeOK, StreamInv, Uncleared, NEW e \in End, NEW s \in STREAM
  PROVE  \/ incomingbufs[e][s] = <<>>
         \/ \E src \in Source :
              Between(outq[Peer(e)], Pending(Peer(e)), incomingbufs[e][s], s, src)
<1>1. DirectionInv(Peer(e)) /\ Peer(Peer(e)) = e
  BY PeerIsOther DEF StreamInv
<1>2. CASE s = "normal"
  BY <1>1, <1>2 DEF DirectionInv, NormalFlow, Idle
<1>3. CASE s = "file"
  BY <1>1, <1>3 DEF DirectionInv, FileFlow, Idle
<1> QED
  BY <1>2, <1>3 DEF STREAM

\* Netchan_CheckForCompletion never completes a mixture, and nobody is dropped
\* for a message that does not decompress.
THEOREM ReassembledClean == Spec => []ReassemblyClean
<1>1. TypeOK /\ StreamInv => ReassemblyClean
  <2> SUFFICES ASSUME TypeOK, StreamInv, Uncleared, NEW e \in End
               PROVE  /\ alive[e]
                      /\ \A s \in STREAM :
                           LET bufs == incomingbufs[e][s]
                           IN  bufs # <<>> =>
                                 /\ Len(bufs) < Chunks(bufs[1].src)
                                 /\ \A i \in DOMAIN bufs : /\ bufs[i].id = i
                                                           /\ bufs[i].src = bufs[1].src
    BY DEF ReassemblyClean
  <2>1. alive[e]
    <3>1. DirectionInv(Peer(e)) /\ Peer(Peer(e)) = e
      BY PeerIsOther DEF StreamInv
    <3> QED
      BY <3>1 DEF DirectionInv
  <2>2. ASSUME NEW s \in STREAM, NEW bufs, bufs = incomingbufs[e][s], bufs # <<>>
        PROVE  /\ Len(bufs) < Chunks(bufs[1].src)
               /\ \A i \in DOMAIN bufs : bufs[i].id = i /\ bufs[i].src = bufs[1].src
    <3>1. PICK src \in Source :
            Between(outq[Peer(e)], Pending(Peer(e)), bufs, s, src)
      BY <2>2, IdleOrBetween
    <3>2. bufs \in Seq(SentFragment)
      BY <2>2 DEF TypeOK
    <3>3. PICK j \in Nat : j = Len(bufs)
      BY <3>2
    <3>4. j < Chunks(src) /\ bufs = Received(src, j) /\ j >= 1
      BY <2>2, <3>1, <3>2, <3>3, EmptySeq DEF Between
    <3>5. \A i \in 1..j : bufs[i] = [id |-> i, count |-> Chunks(src), src |-> src]
      BY <3>4, ReceivedSeq
    <3>6. DOMAIN bufs = 1..j
      BY <3>2, <3>3
    <3> HIDE DEF Received
    <3>7. bufs[1] = [id |-> 1, count |-> Chunks(src), src |-> src]
      BY <3>4, <3>5
    <3>8. bufs[1].src = src
      BY <3>7
    <3>9. \A i \in DOMAIN bufs : bufs[i].id = i /\ bufs[i].src = bufs[1].src
      BY <3>5, <3>6, <3>8
    <3> QED
      BY <3>3, <3>4, <3>8, <3>9
  <2> QED
    BY <2>1, <2>2
<1> QED
  BY <1>1, TypeCorrect, StreamInvHolds, PTL

\* Files arrive whole and in the order they were queued.
THEOREM FilesArriveInOrder == Spec => []FilesInOrder
<1>1. StreamInv => FilesInOrder
  <2> SUFFICES ASSUME StreamInv, Uncleared, NEW e \in End
               PROVE  \E m \in 0..Len(filesQueued[e]) :
                        GotFiles(filesGot[Peer(e)], filesQueued[e], filesLost[e], m)
    BY DEF FilesInOrder
  <2> QED
    BY DEF StreamInv, DirectionInv, FileFlow
<1> QED
  BY <1>1, StreamInvHolds, PTL

\* What one end was given of the n units that the other queued.
LEMMA Given ==
  ASSUME NEW q, NEW block \in BlockType, NEW bufs, NEW got \in Seq(Nat),
         NEW n \in Nat, NormalFlow(q, block, bufs, got, n)
  PROVE  got = Stream!UpTo(Len(got)) /\ Len(got) \in Nat /\ Len(got) <= n
<1>1. got = Units(0, Len(got)) /\ Len(got) <= n /\ Len(got) \in Nat
  BY FlowPrefix
<1>2. ASSUME NEW m \in Nat PROVE Units(0, m) = Stream!UpTo(m)
  <2>1. m - 0 = m /\ \A i \in 1..m : 0 + i = i
    OBVIOUS
  <2> QED
    BY <2>1 DEF Units, Stream!UpTo
<1> QED
  BY <1>1, <1>2

\* Reading a packet adds to what was handed on.
LEMMA ReadAppends ==
  ASSUME TypeOK, NEW r \in End, NEW p \in net, ReadPacket(r, p)
  PROVE  \E more \in Seq(Nat) : delivered' = [delivered EXCEPT ![r] = @ \o more]
<1> DEFINE bufs == [s \in STREAM |->
                      IF p.block.frag[s] = NoFrag THEN incomingbufs[r][s]
                      ELSE StoreFragment(incomingbufs[r][s], p.block.frag[s])]
           ready(s) == IncomingReady(bufs[s], p.block.frag[s])
           broken == ready("normal") /\ ~Decompresses(bufs["normal"])
           text == IF ready("normal") /\ ~broken THEN Assembled(bufs["normal"])
                   ELSE <<>>
<1>1. p.block.regular \in Seq(Nat) /\ p.block.frag["normal"] \in SentFragment \union {NoFrag}
      /\ incomingbufs[r]["normal"] \in Seq(SentFragment) /\ delivered[r] \in Seq(Nat)
  BY ZenonT(30) DEF TypeOK, Packet, BlockType, STREAM
<1>2. delivered' = [delivered EXCEPT ![r] = @ \o p.block.regular \o text]
  BY DEF ReadPacket, ProcessPayload
<1>3. ready("normal") => bufs["normal"][1].src.units \in Seq(Nat)
  <2> SUFFICES ASSUME ready("normal") PROVE bufs["normal"][1].src.units \in Seq(Nat)
    OBVIOUS
  <2>1. PICK frag : frag = p.block.frag["normal"]
    OBVIOUS
  <2>2. frag \in SentFragment /\ frag # NoFrag
    BY <1>1, <2>1 DEF IncomingReady
  <2>3. bufs["normal"] = StoreFragment(incomingbufs[r]["normal"], frag)
    BY <2>1, <2>2 DEF STREAM
  <2>4. bufs["normal"] \in Seq(SentFragment) /\ bufs["normal"] # <<>>
    BY <1>1, <2>2, <2>3, StoreType
  <2> HIDE DEF bufs
  <2>5. bufs["normal"][1] \in SentFragment
    BY <2>4
  <2> QED
    BY <2>5 DEF SentFragment, Source
<1>4. text \in Seq(Nat)
  <2>1. <<>> \in Seq(Nat) /\ <<0>> \in Seq(Nat)
    OBVIOUS
  <2> HIDE DEF bufs
  <2> QED
    BY <1>3, <2>1 DEF Assembled, Noise
<1> HIDE DEF text
<1>5. PICK more \in Seq(Nat) : more = p.block.regular \o text
  BY <1>1, <1>4, ConcatProperties
<1>6. delivered[r] \o p.block.regular \o text = delivered[r] \o more
  <2>1. ASSUME NEW a \in Seq(Nat), NEW b \in Seq(Nat), NEW c \in Seq(Nat)
        PROVE  (a \o b) \o c = a \o (b \o c)
    BY ConcatAssociative, SMTT(30)
  <2> QED
    BY <1>1, <1>4, <1>5, <2>1, ZenonT(30)
<1> QED
  BY <1>2, <1>5, <1>6

\* Reading a packet gives the application more units or none.
LEMMA ReadGives ==
  ASSUME TypeOK, TypeOK', StreamInv, StreamInv', Uncleared,
         NEW r \in End, NEW p \in net, ReadPacket(r, p)
  PROVE  Stream!Give(r) \/ UNCHANGED Stream!vars
<1> DEFINE old == delivered[r]
           new == delivered'[r]
           e == Peer(r)
<1>1. e \in End /\ Peer(e) = r /\ e = Stream!Other(r)
  BY PeerIsOther DEF Peer, Stream!Other
<1>2. written' = written /\ Uncleared' = Uncleared /\ written[e] \in Nat
  BY <1>1 DEF ReadPacket, clearvars, Uncleared, TypeOK
<1>3. old = Stream!UpTo(Len(old)) /\ Len(old) \in Nat
  <2>1. old \in Seq(Nat) /\ Pending(e) \in BlockType
    BY <1>1, EmptyTyped DEF TypeOK, Pending
  <2>2. NormalFlow(outq[e], Pending(e), incomingbufs[r]["normal"], old, written[e])
    BY <1>1 DEF StreamInv, DirectionInv
  <2> HIDE DEF e, old
  <2> QED
    BY <1>2, <2>1, <2>2, Given
<1>4. new = Stream!UpTo(Len(new)) /\ Len(new) \in Nat /\ Len(new) <= written[e]
  <2>1. new \in Seq(Nat) /\ Pending(e)' \in BlockType
    BY <1>1, EmptyTyped DEF TypeOK, Pending
  <2>2. NormalFlow(outq'[e], Pending(e)', incomingbufs'[r]["normal"], new, written[e])
    BY <1>1, <1>2 DEF StreamInv, DirectionInv
  <2> HIDE DEF e, new
  <2> QED
    BY <1>2, <2>1, <2>2, Given
<1>5. PICK more \in Seq(Nat) : delivered' = [delivered EXCEPT ![r] = @ \o more]
  BY ReadAppends
<1>6. delivered \in [End -> Seq(Nat)]
  BY DEF TypeOK
<1>7. new = old \o more /\ Len(new) >= Len(old)
  BY <1>5, <1>6
<1>8. delivered' = [delivered EXCEPT ![r] = new]
  BY <1>5, <1>6
<1> HIDE DEF e, old, new
<1>9. CASE Len(new) = Len(old)
  <2>1. new = old
    BY <1>3, <1>4, <1>9
  <2>2. delivered' = delivered
    BY <1>6, <1>8, <2>1 DEF old
  <2> QED
    BY <1>2, <2>2 DEF Stream!vars
<1>10. CASE Len(new) > Len(old)
  <2>1. PICK n \in Nat : n = Len(new)
    BY <1>4
  <2>2. PICK m \in Nat : m = Len(old)
    BY <1>3
  <2>3. n \in m+1 .. written[e]
    BY <1>2, <1>4, <1>10, <2>1, <2>2
  <2>4. delivered' = [delivered EXCEPT ![r] = Stream!UpTo(n)]
    BY <1>4, <1>8, <2>1
  <2> QED
    BY <1>1, <1>2, <2>2, <2>3, <2>4 DEF Stream!Give, old
<1> QED
  BY <1>3, <1>4, <1>7, <1>9, <1>10

\* The application queues units, or a file, which is none.
LEMMA QueueGives ==
  ASSUME TypeOK, Uncleared, NEW e \in End, Queue(e)
  PROVE  Stream!Queue(e) \/ UNCHANGED Stream!vars
<1>1. UNCHANGED <<delivered, clears>>
  BY DEF Queue, Write, CreateFragments, CreateFileFragments, clearvars
<1>2. Uncleared' = Uncleared
  BY <1>1 DEF Uncleared
<1>3. ASSUME NEW n \in WriteSizes, written' = [written EXCEPT ![e] = @ + n]
      PROVE  Stream!Queue(e)
  <2>1. n \in Nat \ {0} /\ written[e] \in Nat /\ DOMAIN written = End
    BY Sizes DEF TypeOK
  <2>2. written'[e] = written[e] + n
    BY <1>3, <2>1
  <2>3. written'[e] > written[e] /\ written' = [written EXCEPT ![e] = written'[e]]
    BY <1>3, <2>1, <2>2
  <2> QED
    BY <1>1, <1>2, <2>3 DEF Stream!Queue
<1>4. ASSUME written' = written PROVE UNCHANGED Stream!vars
  BY <1>1, <1>2, <1>4 DEF Stream!vars
<1> QED
  BY <1>3, <1>4 DEF Queue, Write, CreateFragments, CreateFileFragments

\* Netchan_Clear is never taken back.
LEMMA StaysCleared ==
  ASSUME TypeOK, [Next]_vars, ~Uncleared
  PROVE  ~Uncleared'
<1>1. PICK f \in End : clears[f] # 0 /\ clears[f] \in Nat
  BY DEF Uncleared, TypeOK
<1>2. clears'[f] # 0
  <2>1. ASSUME NEW e \in End, Clear(e) PROVE clears'[f] # 0
    BY <1>1, <2>1 DEF Clear, TypeOK
  <2>2. CASE clears' = clears
    BY <1>1, <2>2
  <2>3. ASSUME NEW e \in Writer, Queue(e) PROVE clears' = clears
    BY <2>3 DEF Queue, Write, CreateFragments, CreateFileFragments, clearvars
  <2>4. ASSUME NEW e \in End, TransmitAny(e) PROVE clears' = clears
    BY <2>4 DEF TransmitAny, Transmit, clearvars
  <2>5. ASSUME NEW e \in End, ReadAny(e) PROVE clears' = clears
    BY <2>5 DEF ReadAny, ReadPacket, clearvars
  <2>6. CASE UNCHANGED vars
    BY <1>1, <2>6 DEF vars, clearvars
  <2> QED
    BY <2>1, <2>2, <2>3, <2>4, <2>5, <2>6 DEF Next
<1> QED
  BY <1>2 DEF Uncleared

LEMMA StreamSimulation ==
  ASSUME TypeOK, TypeOK', StreamInv, StreamInv', [Next]_vars
  PROVE  [Stream!Next]_(Stream!vars)
<1>1. CASE ~Uncleared
  BY <1>1, StaysCleared DEF Stream!Next, Stream!Broken
<1>2. CASE Uncleared
  <2>1. ASSUME NEW e \in Writer, Queue(e) PROVE [Stream!Next]_(Stream!vars)
    BY <1>2, <2>1, QueueGives, Sizes DEF Stream!Next
  <2>2. ASSUME NEW e \in End, TransmitAny(e) PROVE [Stream!Next]_(Stream!vars)
    BY <2>2 DEF TransmitAny, Transmit, clearvars, Uncleared, Stream!vars
  <2>3. ASSUME NEW e \in End, ReadAny(e) PROVE [Stream!Next]_(Stream!vars)
    BY <1>2, <2>3, ReadGives DEF ReadAny, Stream!Next
  <2>4. ASSUME NEW e \in End, Clear(e) PROVE [Stream!Next]_(Stream!vars)
    <3>1. clears'[e] # 0
      <4>1. clears[e] \in Nat /\ DOMAIN clears = End
        BY DEF TypeOK
      <4>2. clears' = [clears EXCEPT ![e] = @ + 1]
        BY <2>4 DEF Clear
      <4> QED
        BY <4>1, <4>2
    <3>2. ~Uncleared' /\ UNCHANGED <<written, delivered>>
      BY <2>4, <3>1 DEF Clear, Uncleared
    <3> QED
      BY <1>2, <3>2 DEF Stream!BreakOff, Stream!Next
  <2>5. CASE UNCHANGED vars
    BY <2>5 DEF vars, clearvars, Uncleared, Stream!vars
  <2> QED
    BY <2>1, <2>2, <2>3, <2>4, <2>5 DEF Next
<1> QED
  BY <1>1, <1>2

\* Until an end calls Netchan_Clear, the channel is a reliable stream: units
\* arrive once, in the order they were queued, and none that was not queued.
THEOREM ChannelIsReliableStream == Spec => IsReliableStream
<1>1. Init => Stream!Init
  BY DEF Init, Stream!Init, Uncleared
<1>2. TypeOK /\ TypeOK' /\ StreamInv /\ StreamInv' /\ [Next]_vars
        => [Stream!Next]_(Stream!vars)
  BY StreamSimulation
<1> QED
  BY <1>1, <1>2, TypeCorrect, StreamInvHolds, PTL DEF Spec, IsReliableStream, Stream!Spec
=============================================================================
