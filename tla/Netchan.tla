------------------------------ MODULE Netchan ------------------------------
(***************************************************************************)
(* The network channel of src/rehlds/engine/net_chan.cpp: two ends, each   *)
(* running the same code, exchange datagrams that carry one reliable block *)
(* at a time under a single alternating bit.  Reliable data is queued as a *)
(* regular message, as a message cut in fragments, or as a file cut in     *)
(* fragments.  The network may lose, duplicate, delay and reorder.         *)
(*                                                                         *)
(* Data is abstracted to what order and completeness need.  The bytes that *)
(* an end queues are numbered units 1, 2, 3, ... in the order of the calls *)
(* that queue them; sizes are counted in units.  A source is what one      *)
(* waiting-list entry came from (a message or a file); its fragments are   *)
(* numbered from 1.                                                        *)
(***************************************************************************)
EXTENDS Naturals, FiniteSets, SequencesExt

CONSTANTS
  End,                  \* the two ends of the connection
  File,                 \* files an end can queue
  NoFile,               \* the file of a source that is a message
  FileChunks,           \* fragments of a file
  BlockSize,            \* pfnNetchan_Blocksize, in units
  MAX_RELIABLE_PAYLOAD, \* net.h:303, in units
  MAX_MSGLEN,           \* net.h:120, in units
  MessageSize,          \* maxsize of chan->message, in units
  MaxFragments,         \* MAX_NORMAL_FRAGMENTS and MAX_FILE_FRAGMENTS
  MayCompress,          \* what BZ2_bzBuffToBuffCompress may answer
  Writer,               \* ends whose application queues data
  WriteSizes,           \* sizes of one write, in units
  MaxUnits,             \* bound: units an end queues
  MaxSeq,               \* bound: outgoing_sequence
  MaxLead,              \* bound: packets an end sends ahead of its peer
  MaxClears,            \* bound: calls of Netchan_Clear per end
  Window                \* bound: packets of one end the network still holds

\* A connection has two ends.
ASSUME TwoEnds == \E a, b \in End : a # b /\ End = {a, b}

\* A fragment fits the reliable payload (FRAGMENT_MAX_SIZE, net.h:292, is
\* 1024 and MAX_RELIABLE_PAYLOAD 1200), and one regular message may be longer.
ASSUME Sizes ==
  /\ BlockSize \in Nat \ {0} /\ FileChunks \in Nat \ {0}
  /\ MAX_RELIABLE_PAYLOAD \in Nat /\ MAX_MSGLEN \in Nat
  /\ BlockSize < MAX_RELIABLE_PAYLOAD
  /\ MAX_RELIABLE_PAYLOAD < MAX_MSGLEN
  /\ MAX_MSGLEN < MessageSize /\ MessageSize \in Nat
  /\ WriteSizes \subseteq Nat \ {0}
  /\ MayCompress \subseteq BOOLEAN
  /\ NoFile \notin File /\ Writer \subseteq End

ASSUME Bounds ==
  /\ MaxUnits \in Nat /\ MaxSeq \in Nat /\ MaxClears \in Nat
  /\ MaxLead \in Nat /\ Window \in Nat /\ MaxFragments \in Nat

VARIABLES
  incoming_sequence,              \* netchan_t, one value per end
  incoming_acknowledged,
  incoming_reliable_acknowledged,
  incoming_reliable_sequence,
  outgoing_sequence,
  reliable_sequence,
  last_reliable_sequence,
  reliable_buf,       \* the block in flight, Empty when reliable_length = 0
  outq,               \* message, waitlist, fragbufs, fragbufcount
  incomingbufs,       \* fragments received so far, per stream
  alive,              \* FALSE once SV_DropClient closed this end
  net,                \* packets the network holds
  \* history
  written,            \* units queued by the application of an end
  delivered,          \* units an end handed to its application
  filesQueued, filesLost, filesGot,
  loaded,             \* blocks an end moved into reliable_buf
  acked,              \* the last block an end released on an acknowledgement
  accepted,           \* blocks an end took from its peer, in order
  clears, aborted     \* calls of Netchan_Clear, and those that cut a block

seqvars == <<incoming_sequence, incoming_acknowledged,
             incoming_reliable_acknowledged, incoming_reliable_sequence>>
outvars == <<outgoing_sequence, last_reliable_sequence>>
relvars == <<reliable_sequence, reliable_buf>>
filevars == <<filesQueued, filesLost, filesGot>>
blockvars == <<loaded, acked, accepted>>
clearvars == <<clears, aborted>>
vars == <<seqvars, outvars, relvars, outq, incomingbufs, alive, net, written,
          delivered, filevars, blockvars, clearvars>>

STREAM == {"normal", "file"}    \* FRAG_NORMAL_STREAM, FRAG_FILE_STREAM

Peer(e) == CHOOSE f \in End : f # e

-----------------------------------------------------------------------------
(* Sources and their fragments                                             *)

Message(units, packed) ==
  [units |-> units, packed |-> packed, file |-> NoFile, deferred |-> FALSE]
FileSource(f, deferred) ==
  [units |-> <<>>, packed |-> FALSE, file |-> f, deferred |-> deferred]

Ceil(n, d) == (n + d - 1) \div d
Least(a, b) == IF a < b THEN a ELSE b

\* An archive is half as long as the message.
Chunks(src) ==
  IF src.file # NoFile THEN FileChunks
  ELSE LET n == Ceil(Len(src.units), BlockSize)
       IN  IF src.packed THEN Ceil(n, 2) ELSE n

Fragments(src) == [i \in 1..Chunks(src) |-> [id |-> i, src |-> src]]

\* A piece of an archive or of a file fills its buffer.
FragSize(frag) ==
  IF frag.src.packed \/ frag.src.file # NoFile THEN BlockSize
  ELSE Least(BlockSize, Len(frag.src.units) - (frag.id - 1) * BlockSize)

NoFrag == [id |-> 0, count |-> 0]
Empty == [regular |-> <<>>, frag |-> [s \in STREAM |-> NoFrag], no |-> 0]

-----------------------------------------------------------------------------
(* Outgoing queues                                                         *)

\* Netchan_CreateFragments_ compresses the message, if that makes it shorter,
\* cuts it and puts it at the end of the waiting list.
CreateFragments_(q, units, packed) ==
  IF units = <<>> THEN q
  ELSE [q EXCEPT !.waitlist["normal"] = Append(@, Message(units, packed))]

\* CreateFragments_ on chan->message, followed by SZ_Clear.
Spill(q, packed) ==
  [CreateFragments_(q, q.message, packed) EXCEPT !.message = <<>>]

\* (mutant) The entry is dropped although the fragments of the one before are
\* still being sent.
FragSendStream_Overwrites(q, s, opened) ==
  IF q.waitlist[s] = <<>> THEN q
  ELSE [q EXCEPT !.fragbufs[s] = Fragments(Head(q.waitlist[s])),
                 !.fragbufcount[s] = Chunks(Head(q.waitlist[s])),
                 !.waitlist[s] = Tail(@)]

\* One turn of the loop of Netchan_FragSend.  A file that was queued by name is
\* cut now; when it cannot be opened any more its entry is dropped.
FragSendStream(q, s, opened) ==
  IF q.fragbufs[s] # <<>> \/ q.waitlist[s] = <<>> THEN q
  ELSE LET src == Head(q.waitlist[s])
           rest == [q EXCEPT !.waitlist[s] = Tail(@)]
       IN  IF src.deferred /\ ~opened THEN rest
           ELSE [rest EXCEPT !.fragbufs[s] = Fragments(src),
                             !.fragbufcount[s] = Chunks(src)]

FragSend(q, opened) ==
  FragSendStream(FragSendStream(q, "normal", opened), "file", opened)

\* The files that FragSend gave up on.
Unopened(q, opened) ==
  IF /\ q.fragbufs["file"] = <<>> /\ q.waitlist["file"] # <<>>
     /\ Head(q.waitlist["file"]).deferred /\ ~opened
  THEN {Head(q.waitlist["file"]).file}
  ELSE {}

\* (mutant) Regular data does not wait.
Stalled_Never(q) == FALSE

\* Regular data waits while a fragmented message is being sent.
Stalled(q) == q.fragbufs["normal"] # <<>>

\* What Netchan_Transmit does to the queues before it picks the next block.
Refill(q, packed, opened) ==
  LET long == IF Len(q.message) > MAX_MSGLEN THEN Spill(q, packed) ELSE q
      sent == FragSend(long, opened)
  IN  IF Stalled(sent) /\ Len(sent.message) > MAX_RELIABLE_PAYLOAD
      THEN Spill(sent, packed) ELSE sent

Regular(q) == IF Stalled(q) THEN <<>> ELSE q.message

Fits(q, s, used) ==
  /\ q.fragbufs[s] # <<>>
  /\ used + FragSize(Head(q.fragbufs[s])) < MAX_RELIABLE_PAYLOAD

NormalFits(q) == Fits(q, "normal", Len(Regular(q)))
FileFits(q) ==
  Fits(q, "file", Len(Regular(q))
         + IF NormalFits(q) THEN FragSize(Head(q.fragbufs["normal"])) ELSE 0)
Takes(q) == [s \in STREAM |-> IF s = "normal" THEN NormalFits(q)
                                              ELSE FileFits(q)]

\* (mutant) A file alone does not count.
HasData_NormalOnly(q) == Regular(q) # <<>> \/ q.fragbufs["normal"] # <<>>

\* Something to send: the reliable bit is toggled.
HasData(q) == Regular(q) # <<>> \/ \E s \in STREAM : q.fragbufs[s] # <<>>

FragOf(q, s) ==
  LET head == Head(q.fragbufs[s])
  IN  [id |-> head.id, count |-> q.fragbufcount[s], src |-> head.src]

\* The block Netchan_Transmit copies into reliable_buf, and what it leaves.
Block(q, no) ==
  [regular |-> Regular(q),
   frag |-> [s \in STREAM |-> IF Takes(q)[s] THEN FragOf(q, s) ELSE NoFrag],
   no |-> no]
Rest(q) ==
  [q EXCEPT !.message = IF Stalled(q) THEN @ ELSE <<>>,
            !.fragbufs = [s \in STREAM |-> IF Takes(q)[s] THEN Tail(@[s])
                                                          ELSE @[s]]]

-----------------------------------------------------------------------------
(* Initial state: Netchan_Setup on both ends                               *)

NoQueue == [message |-> <<>>, overflowed |-> FALSE,
            waitlist |-> [s \in STREAM |-> <<>>],
            fragbufs |-> [s \in STREAM |-> <<>>],
            fragbufcount |-> [s \in STREAM |-> 0]]
NoBufs == [s \in STREAM |-> <<>>]

Init ==
  /\ incoming_sequence = [e \in End |-> 0]
  /\ incoming_acknowledged = [e \in End |-> 0]
  /\ incoming_reliable_acknowledged = [e \in End |-> 0]
  /\ incoming_reliable_sequence = [e \in End |-> 0]
  /\ outgoing_sequence = [e \in End |-> 1]
  /\ reliable_sequence = [e \in End |-> 0]
  /\ last_reliable_sequence = [e \in End |-> 0]
  /\ reliable_buf = [e \in End |-> Empty]
  /\ outq = [e \in End |-> NoQueue]
  /\ incomingbufs = [e \in End |-> NoBufs]
  /\ alive = [e \in End |-> TRUE]
  /\ net = {}
  /\ written = [e \in End |-> 0]
  /\ delivered = [e \in End |-> <<>>]
  /\ filesQueued = [e \in End |-> <<>>]
  /\ filesLost = [e \in End |-> {}]
  /\ filesGot = [e \in End |-> <<>>]
  /\ loaded = [e \in End |-> 0]
  /\ acked = [e \in End |-> 0]
  /\ accepted = [e \in End |-> <<>>]
  /\ clears = [e \in End |-> 0]
  /\ aborted = [e \in End |-> 0]

-----------------------------------------------------------------------------
(* The application queues data                                             *)

NewUnits(e, n) == [i \in 1..n |-> written[e] + i]

Lost(units) == [i \in DOMAIN units |-> 0]

\* SZ_Write on chan->message.  A write that does not fit empties the buffer,
\* marks it overflowed and leaves bytes nobody wrote.
SZ_Write(q, units) ==
  IF Len(q.message) + Len(units) <= MessageSize
  THEN [q EXCEPT !.message = @ \o IF q.overflowed THEN Lost(units) ELSE units]
  ELSE [q EXCEPT !.message = Lost(units), !.overflowed = TRUE]

Write(e, n) ==
  /\ alive[e] /\ written[e] + n <= MaxUnits
  /\ written' = [written EXCEPT ![e] = @ + n]
  /\ outq' = [outq EXCEPT ![e] = SZ_Write(@, NewUnits(e, n))]
  /\ UNCHANGED <<seqvars, outvars, relvars, incomingbufs, alive, net,
                 delivered, filevars, blockvars, clearvars>>

\* Netchan_CreateFragments: what waits in chan->message goes first.
CreateFragments(e, n, packed) ==
  /\ alive[e] /\ written[e] + n <= MaxUnits
  /\ written' = [written EXCEPT ![e] = @ + n]
  /\ outq' = [outq EXCEPT ![e] =
       CreateFragments_(Spill(@, packed), NewUnits(e, n), packed)]
  /\ UNCHANGED <<seqvars, outvars, relvars, incomingbufs, alive, net,
                 delivered, filevars, blockvars, clearvars>>

\* Netchan_CreateFileFragments queues the name only;
\* Netchan_CreateFileFragmentsFromBuffer cuts the data at once.
CreateFileFragments(e, f, deferred) ==
  /\ alive[e] /\ ~Contains(filesQueued[e], f)
  /\ filesQueued' = [filesQueued EXCEPT ![e] = Append(@, f)]
  /\ outq' = [outq EXCEPT ![e].waitlist["file"] =
                            Append(@, FileSource(f, deferred))]
  /\ UNCHANGED <<seqvars, outvars, relvars, incomingbufs, alive, net, written,
                 delivered, filesLost, filesGot, blockvars, clearvars>>

-----------------------------------------------------------------------------
(* Netchan_Transmit                                                        *)

\* (mutant) Incremented instead of toggled.
Toggle_Increments(bit) == bit + 1

Toggle(bit) == 1 - bit

\* (mutant) Without the comparison of sequence numbers.
ResendDue_AtOnce(e) == incoming_reliable_acknowledged[e] # reliable_sequence[e]

\* (mutant) A lost block is never sent again.
ResendDue_Never(e) == FALSE

\* The remote side saw a later packet than the reliable one, and its bit says
\* that it does not have the block.
ResendDue(e) ==
  /\ incoming_acknowledged[e] > last_reliable_sequence[e]
  /\ incoming_reliable_acknowledged[e] # reliable_sequence[e]

\* The header and payload of one packet; the network forgets old ones.
Send(e, reliable, block) ==
  LET seq == outgoing_sequence[e]
      p == [to |-> Peer(e), seq |-> seq, reliable |-> reliable,
            ack |-> incoming_sequence[e],
            reliable_ack |-> incoming_reliable_sequence[e],
            block |-> IF reliable THEN block ELSE Empty]
  IN  /\ net' = {q \in net : q.to = Peer(e) => q.seq + Window > seq} \union {p}
      /\ outgoing_sequence' = [outgoing_sequence EXCEPT ![e] = @ + 1]
      /\ last_reliable_sequence' =
           [last_reliable_sequence EXCEPT ![e] = IF reliable THEN seq ELSE @]

\* reliable_length is 0: move queued data, if any, into reliable_buf.
Load(e, packed, opened) ==
  LET q == Refill(outq[e], packed, opened)
  IN  /\ filesLost' = [filesLost EXCEPT ![e] = @ \union Unopened(outq[e], opened)]
      /\ IF HasData(q)
         THEN /\ reliable_sequence' =
                    [reliable_sequence EXCEPT ![e] = Toggle(@)]
              /\ reliable_buf' =
                    [reliable_buf EXCEPT ![e] = Block(q, loaded[e] + 1)]
              /\ loaded' = [loaded EXCEPT ![e] = @ + 1]
              /\ outq' = [outq EXCEPT ![e] = Rest(q)]
              /\ Send(e, TRUE, Block(q, loaded[e] + 1))
         ELSE /\ outq' = [outq EXCEPT ![e] = q]
              /\ Send(e, ResendDue(e), Empty)
              /\ UNCHANGED <<relvars, loaded>>

\* reliable_length is not 0: the block stays until it is acknowledged.
Hold(e) ==
  /\ Send(e, ResendDue(e), reliable_buf[e])
  /\ UNCHANGED <<relvars, outq, filesLost, loaded>>

Transmit(e, packed, opened) ==
  /\ alive[e] /\ outgoing_sequence[e] <= MaxSeq
  /\ outgoing_sequence[e] < outgoing_sequence[Peer(e)] + MaxLead
  /\ ~outq[e].overflowed
  /\ IF reliable_buf[e] = Empty THEN Load(e, packed, opened) ELSE Hold(e)
  /\ UNCHANGED <<seqvars, incomingbufs, alive, written, delivered, filesQueued,
                 filesGot, acked, accepted, clearvars>>

-----------------------------------------------------------------------------
(* Netchan_Process and the copying of complete messages that follows it    *)

\* (mutant) A duplicate is read again.
Fresh_OrEqual(e, p) == p.seq >= incoming_sequence[e]

\* Stale and duplicate packets are discarded.
Fresh(e, p) == p.seq > incoming_sequence[e]

\* Netchan_Validate
Validate(p) ==
  \A s \in STREAM : LET f == p.block.frag[s]
                    IN  f # NoFrag => f.id <= f.count /\ f.count <= MaxFragments

\* Netchan_AddBufferToList: the first of the list is never displaced, and an
\* insertion in the middle replaces the node it was to precede.
AddBufferToList(bufs, frag) ==
  LET after == {i \in 2..Len(bufs) : bufs[i].id > frag.id}
  IN  IF after = {} THEN Append(bufs, frag) ELSE ReplaceAt(bufs, Min(after), frag)

SameId(a, b) == a.id = b.id /\ a.count = b.count

\* Netchan_FindBufferById finds the fragment's buffer or adds one; its
\* contents are replaced.
StoreFragment(bufs, frag) ==
  IF \E i \in DOMAIN bufs : SameId(bufs[i], frag)
  THEN LET first == Min({i \in DOMAIN bufs : SameId(bufs[i], frag)})
       IN  ReplaceAt(bufs, first, frag)
  ELSE AddBufferToList(bufs, frag)

\* (mutant) Complete when the last fragment is still missing.
IncomingReady_OffByOne(bufs, frag) ==
  frag # NoFrag /\ Len(bufs) + 1 >= frag.count

\* Netchan_CheckForCompletion: as many buffers as the fragment says there are.
IncomingReady(bufs, frag) == frag # NoFrag /\ Len(bufs) = frag.count

\* The fragments of one source, complete and in order.
Whole(bufs) ==
  \A i \in DOMAIN bufs : /\ bufs[i].id = i /\ bufs[i].src = bufs[1].src
                         /\ Len(bufs) = Chunks(bufs[1].src)

\* The assembled bytes begin with the "BZ2" header.
IsArchive(bufs) == bufs[1].src.packed /\ bufs[1].id = 1

\* Netchan_CopyNormalFragments: an archive that does not decompress gives
\* nothing and drops the sender; other bytes are handed on as they are, and
\* those of several messages mixed are noise.
Decompresses(bufs) == IsArchive(bufs) => Whole(bufs)
Noise == <<0>>
Assembled(bufs) == IF Whole(bufs) THEN bufs[1].src.units ELSE Noise

Acknowledges(e, p) ==
  /\ p.reliable_ack = reliable_sequence[e]
  /\ p.ack >= last_reliable_sequence[e]

\* The part of Netchan_Process that decides what was acknowledged and whether
\* the packet's block is new.
ProcessHeader(e, p) ==
  /\ incoming_sequence' = [incoming_sequence EXCEPT ![e] = p.seq]
  /\ incoming_acknowledged' = [incoming_acknowledged EXCEPT ![e] = p.ack]
  /\ incoming_reliable_acknowledged' =
       [incoming_reliable_acknowledged EXCEPT ![e] = p.reliable_ack]
  /\ incoming_reliable_sequence' =
       [incoming_reliable_sequence EXCEPT ![e] =
          IF p.reliable THEN Toggle(@) ELSE @]
  /\ reliable_buf' =
       [reliable_buf EXCEPT ![e] = IF Acknowledges(e, p) THEN Empty ELSE @]
  /\ acked' = [acked EXCEPT ![e] =
       IF Acknowledges(e, p) /\ reliable_buf[e] # Empty THEN loaded[e] ELSE @]
  /\ accepted' = [accepted EXCEPT ![e] =
       IF p.reliable THEN Append(@, p.block.no) ELSE @]

\* The rest of it: fragments are stored, complete messages are handed on.
ProcessPayload(e, block) ==
  LET bufs == [s \in STREAM |->
                 IF block.frag[s] = NoFrag THEN incomingbufs[e][s]
                 ELSE StoreFragment(incomingbufs[e][s], block.frag[s])]
      ready(s) == IncomingReady(bufs[s], block.frag[s])
      broken == ready("normal") /\ ~Decompresses(bufs["normal"])
      text == IF ready("normal") /\ ~broken THEN Assembled(bufs["normal"])
              ELSE <<>>
  IN  /\ delivered' = [delivered EXCEPT ![e] = @ \o block.regular \o text]
      /\ alive' = [alive EXCEPT ![e] = ~broken]
      /\ filesGot' = [filesGot EXCEPT ![e] =
           IF ready("file") /\ ~broken
           THEN Append(@, IF Whole(bufs["file"]) THEN bufs["file"][1].src.file
                          ELSE NoFile)
           ELSE @]
      /\ incomingbufs' = [incomingbufs EXCEPT ![e] =
           [s \in STREAM |-> IF ready(s) THEN <<>> ELSE bufs[s]]]

ReadPacket(e, p) ==
  /\ alive[e] /\ p.to = e
  /\ Validate(p)
  /\ Fresh(e, p)
  /\ ProcessHeader(e, p)
  /\ ProcessPayload(e, p.block)
  /\ UNCHANGED <<outvars, reliable_sequence, outq, net, written, filesQueued,
                 filesLost, loaded, clearvars>>

-----------------------------------------------------------------------------
(* Netchan_Clear                                                           *)

\* (mutant) The bit is taken back although no block is in flight.
Clear_AlwaysToggles(e) ==
  /\ alive[e] /\ clears[e] < MaxClears
  /\ clears' = [clears EXCEPT ![e] = @ + 1]
  /\ outq' = [outq EXCEPT ![e] = [NoQueue EXCEPT !.message = outq[e].message]]
  /\ incomingbufs' = [incomingbufs EXCEPT ![e] = NoBufs]
  /\ reliable_sequence' = [reliable_sequence EXCEPT ![e] = Toggle(@)]
  /\ reliable_buf' = [reliable_buf EXCEPT ![e] = Empty]
  /\ aborted' = [aborted EXCEPT ![e] = IF reliable_buf[e] = Empty THEN @ ELSE @ + 1]
  /\ UNCHANGED <<seqvars, outvars, alive, net, written, delivered, filevars,
                 blockvars>>

\* (mutant) What the peer's packets are compared with is forgotten too.
Clear_ForgetsSequence(e) ==
  /\ alive[e] /\ clears[e] < MaxClears
  /\ clears' = [clears EXCEPT ![e] = @ + 1]
  /\ incomingbufs' = [incomingbufs EXCEPT ![e] = NoBufs]
  /\ incoming_sequence' = [incoming_sequence EXCEPT ![e] = 0]
  /\ UNCHANGED <<incoming_acknowledged, incoming_reliable_acknowledged,
                 incoming_reliable_sequence, outvars, relvars, outq, alive, net,
                 written, delivered, filevars, blockvars, aborted>>

\* All fragments are thrown away and so is a block that is not acknowledged,
\* whose bit is taken back; chan->message is kept.
Clear(e) ==
  /\ alive[e] /\ clears[e] < MaxClears
  /\ clears' = [clears EXCEPT ![e] = @ + 1]
  /\ outq' = [outq EXCEPT ![e] = [NoQueue EXCEPT !.message = outq[e].message,
                                      !.overflowed = outq[e].overflowed]]
  /\ incomingbufs' = [incomingbufs EXCEPT ![e] = NoBufs]
  /\ IF reliable_buf[e] # Empty
     THEN /\ reliable_sequence' = [reliable_sequence EXCEPT ![e] = Toggle(@)]
          /\ reliable_buf' = [reliable_buf EXCEPT ![e] = Empty]
          /\ aborted' = [aborted EXCEPT ![e] = @ + 1]
     ELSE UNCHANGED <<relvars, aborted>>
  /\ UNCHANGED <<seqvars, outvars, alive, net, written, delivered, filevars,
                 blockvars>>

-----------------------------------------------------------------------------
Queue(e) ==
  \/ \E n \in WriteSizes : Write(e, n)
  \/ \E n \in WriteSizes, packed \in MayCompress : CreateFragments(e, n, packed)
  \/ \E f \in File, deferred \in BOOLEAN : CreateFileFragments(e, f, deferred)

TransmitAny(e) == \E packed \in MayCompress, opened \in BOOLEAN :
                     Transmit(e, packed, opened)
ReadAny(e) == \E p \in net : ReadPacket(e, p)

Next ==
  \/ \E e \in Writer : Queue(e)
  \/ \E e \in End : TransmitAny(e) \/ ReadAny(e) \/ Clear(e)

Spec == Init /\ [][Next]_vars

-----------------------------------------------------------------------------
(* Types                                                                   *)

Bit == {0, 1}
Source == [units : Seq(Nat), packed : BOOLEAN, file : File \union {NoFile},
           deferred : BOOLEAN]
Fragment == [id : Nat, src : Source]
SentFragment == [id : Nat, count : Nat, src : Source]
BlockType == [regular : Seq(Nat), no : Nat,
              frag : [STREAM -> SentFragment \union {NoFrag}]]
Packet == [to : End, seq : Nat, reliable : BOOLEAN, ack : Nat,
           reliable_ack : Bit, block : BlockType]
OutQueue == [message : Seq(Nat), overflowed : BOOLEAN,
             waitlist : [STREAM -> Seq(Source)],
             fragbufs : [STREAM -> Seq(Fragment)],
             fragbufcount : [STREAM -> Nat]]

\* Every variable keeps its shape: sequence numbers are naturals, the two
\* reliable bits stay bits, queues hold sources and fragments.
TypeOK ==
  /\ incoming_sequence \in [End -> Nat]
  /\ incoming_acknowledged \in [End -> Nat]
  /\ incoming_reliable_acknowledged \in [End -> Bit]
  /\ incoming_reliable_sequence \in [End -> Bit]
  /\ outgoing_sequence \in [End -> Nat]
  /\ reliable_sequence \in [End -> Bit]
  /\ last_reliable_sequence \in [End -> Nat]
  /\ reliable_buf \in [End -> BlockType]
  /\ outq \in [End -> OutQueue]
  /\ incomingbufs \in [End -> [STREAM -> Seq(SentFragment)]]
  /\ alive \in [End -> BOOLEAN]
  /\ net \subseteq Packet
  /\ written \in [End -> Nat]
  /\ delivered \in [End -> Seq(Nat)]
  /\ filesQueued \in [End -> Seq(File)]
  /\ filesLost \in [End -> SUBSET (File \union {NoFile})]
  /\ filesGot \in [End -> Seq(File \union {NoFile})]
  /\ loaded \in [End -> Nat]
  /\ acked \in [End -> Nat]
  /\ accepted \in [End -> Seq(Nat)]
  /\ clears \in [End -> Nat]
  /\ aborted \in [End -> Nat]

-----------------------------------------------------------------------------
(* Properties                                                              *)

Counting(s) == \A i \in DOMAIN s : s[i] = i

\* The blocks an end accepted are the blocks its peer loaded, each once, in
\* order and without a gap, and at most one is still to come, as long as no
\* Netchan_Clear of the peer threw away a block in flight.
ExactlyOnce ==
  \A e \in End : aborted[e] = 0 =>
    /\ Counting(accepted[Peer(e)])
    /\ Len(accepted[Peer(e)]) <= loaded[e]
    /\ loaded[e] <= Len(accepted[Peer(e)]) + 1

\* reliable_length is set to 0 on an acknowledgement with the comment "it has
\* been received" (net_chan.cpp:800): a block is released only when the peer
\* accepted it.
ReleasedWasReceived ==
  \A e \in End : acked[e] # 0 => Contains(accepted[Peer(e)], acked[e])

\* The same, for ends that never cut a block short with Netchan_Clear: then an
\* empty reliable_buf means that nothing is missing.
NothingMissing ==
  \A e \in End : aborted[e] = 0 /\ reliable_buf[e] = Empty =>
    Len(accepted[Peer(e)]) = loaded[e]

\* What the two ends know of one direction of the channel, e to Peer(e).
Has(e) == Len(accepted[Peer(e)]) = loaded[e]
Lacks(e) == Len(accepted[Peer(e)]) + 1 = loaded[e]

\* What an acknowledgement, in a packet or kept from one, tells e.
AckMeans(e, ack, bit) ==
  /\ ack >= last_reliable_sequence[e] /\ bit = reliable_sequence[e] => Has(e)
  /\ ack > last_reliable_sequence[e] /\ bit # reliable_sequence[e] => Lacks(e)

\* Sequence numbers: nothing is read before it is sent or acknowledged before
\* it is read.
SequencesInv ==
  /\ \A e \in End : /\ incoming_sequence[Peer(e)] < outgoing_sequence[e]
                     /\ last_reliable_sequence[e] < outgoing_sequence[e]
                     /\ incoming_acknowledged[e] <= incoming_sequence[Peer(e)]
  /\ \A p \in net : /\ p.seq < outgoing_sequence[Peer(p.to)]
                    /\ p.ack <= incoming_sequence[Peer(p.to)]

\* The alternating bit: equal bits mean that the peer has every block, an
\* empty reliable_buf too, and a reliable packet still to be read carries the
\* one block it lacks.
AlternatingInv(e) ==
  LET r == Peer(e)
  IN  /\ Counting(accepted[r]) /\ (Has(e) \/ Lacks(e))
      /\ Has(e) <=> reliable_sequence[e] = incoming_reliable_sequence[r]
      /\ IF reliable_buf[e] = Empty THEN Has(e) ELSE reliable_buf[e].no = loaded[e]
      /\ AckMeans(e, incoming_acknowledged[e], incoming_reliable_acknowledged[e])
      /\ \A p \in net : p.to = e => AckMeans(e, p.ack, p.reliable_ack)
      /\ \A p \in net :
           p.to = r /\ p.reliable /\ p.seq > incoming_sequence[r] =>
             p.seq = last_reliable_sequence[e] /\ p.block.no = loaded[e] /\ Lacks(e)

\* The inductive invariant behind ExactlyOnce and NothingMissing.
ChannelInv ==
  SequencesInv /\ \A e \in End : aborted[e] = 0 => AlternatingInv(e)

Uncleared == \A e \in End : clears[e] = 0

\* Until an end is cleared the streams are reassembled from one source at a time: what is in
\* incomingbufs between packets is a proper initial part of one message or
\* file, and none fails to decompress, for which the end would be dropped.
\* Without it Netchan_CheckForCompletion, which only counts buffers, completes
\* a mixture.
ReassemblyClean == Uncleared =>
  /\ \A e \in End : alive[e]
  /\ \A e \in End, s \in STREAM :
       LET bufs == incomingbufs[e][s]
       IN  bufs # <<>> =>
             /\ Len(bufs) < Chunks(bufs[1].src)
             /\ \A i \in DOMAIN bufs : bufs[i].id = i /\ bufs[i].src = bufs[1].src

\* The first m files queued have arrived, in order, or are lost.
GotFiles(got, queued, lost, m) ==
  \E pos \in [DOMAIN got -> 1..m] :
    /\ \A i, j \in DOMAIN got : i < j => pos[i] < pos[j]
    /\ \A i \in DOMAIN got : got[i] = queued[pos[i]]
    /\ \A p \in 1..m : queued[p] \in lost <=> \A i \in DOMAIN got : pos[i] # p

\* Until an end is cleared files arrive whole and in the order they were
\* queued; the only ones left out are those FragSend could not open any more.
FilesInOrder == Uncleared =>
  \A e \in End : \E m \in 0..Len(filesQueued[e]) :
    GotFiles(filesGot[Peer(e)], filesQueued[e], filesLost[e], m)

\* Until an end calls Netchan_Clear the channel is a reliable stream of units.
Stream == INSTANCE ReliableStream
            WITH sent <- written, received <- delivered, open <- Uncleared
IsReliableStream == Stream!Spec

\* Whatever Netchan_Clear throws away, no block is accepted after a later one
\* (a packet sent again with nothing in it has no block, and the number 0).
NeverBackwards ==
  \A e \in End : \A i, j \in DOMAIN accepted[e] :
    i < j /\ accepted[e][j] # 0 => accepted[e][i] <= accepted[e][j]

\* The places in which a sequence of blocks has one that it had before.
Repeats(s) == {j \in DOMAIN s : s[j] # 0 /\ \E i \in 1..j-1 : s[i] = s[j]}

\* One Netchan_Clear that cuts a block repeats at most one later block.
RepeatsBounded ==
  \A e \in End : Cardinality(Repeats(accepted[Peer(e)])) <= aborted[e]
=============================================================================
