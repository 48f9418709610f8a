------------------------------- MODULE Frames -------------------------------
(***************************************************************************)
(* Entity updates from the server to one client in the game: the server's  *)
(* ring of frames (client_t::frames), the delta of each update against the *)
(* frame the client asked for in its last packet, the frames the client    *)
(* (the HLTV proxy) puts together from the updates, and the ping measured  *)
(* on the frame an acknowledgement names.                                  *)
(*                                                                         *)
(* The two lists of entities that SV_CreatePacketEntities merges, sorted   *)
(* by number, are one function from entity to state; the fields of a state *)
(* are one value.  Time is counted in frames of the server: realtime is    *)
(* outgoing.  A frame is known by its sequence number, of which the        *)
(* packets carry eight bits (SeqNrs values) and the ring six               *)
(* (SV_UPDATE_BACKUP values).                                              *)
(*                                                                         *)
(* Packets are lost, repeated and reordered as in Netchan: a packet is     *)
(* read if it is newer than the last one read.  content, claimed, overrun  *)
(* and missed are history.                                                 *)
(***************************************************************************)
EXTENDS Integers, Sequences

CONSTANTS
    Ent,                \* entity numbers
    State,              \* states of an entity
    Baseline,           \* the state a new entity is sent from
    Gone,               \* not in the list
    Worlds,             \* the lists of visible entities that may occur
    SV_UPDATE_BACKUP,   \* frames in the ring
    SeqNrs,             \* values of a sequence number's byte: 256
    BufferLength,       \* World::m_MaxBufferLength, in frames
    FailureTime,        \* sv_failuretime, in frames
    MaxFrames,          \* bound: updates sent
    MaxPackets          \* bound: packets of the client

\* The proxy keeps ten seconds of frames and more, which is to be no less than
\* the frames an update may still be taken from; a byte of the sequence number
\* determines the slot of the ring.
ASSUME FramesAssumption ==
    /\ SV_UPDATE_BACKUP \in Nat \ {0}
    /\ SeqNrs \in Nat /\ SeqNrs >= SV_UPDATE_BACKUP
    /\ SeqNrs % SV_UPDATE_BACKUP = 0
    /\ BufferLength \in Nat /\ BufferLength + 2 >= SV_UPDATE_BACKUP
    /\ FailureTime \in Nat
    /\ Baseline \in State /\ Gone \notin State
    /\ {"none", "remove", "same"} \cap State = {}
    /\ Worlds \subseteq [Ent -> State \cup {Gone}]

VARIABLES
    outgoing,       \* netchan.outgoing_sequence of the server
    incoming,       \* netchan.incoming_sequence of the server
    acknowledged,   \* netchan.incoming_acknowledged
    delta_sequence, \* -1, or the byte of the frame the client asked for
    frames,         \* the ring
    silent,         \* frames since the client was last heard
    down, up,       \* packets that may still be read
    received,       \* the client's incoming_sequence
    sent,           \* packets the client has sent
    seqNrMap,       \* m_SeqNrMap: the frame the client keeps for a byte
    validSequence,  \* m_validSequence
    content,        \* what the server put in each update
    claimed,        \* the frame delta_sequence is the byte of
    overrun,        \* an update was taken against a frame of the ring that
                    \* had been overwritten
    missed          \* the client did not have the frame an update was from

server == <<outgoing, incoming, acknowledged, delta_sequence, frames, silent>>
client == <<received, sent, seqNrMap, validSequence>>
history == <<content, claimed, overrun, missed>>
vars == <<server, down, up, client, history>>

Slot == 0 .. SV_UPDATE_BACKUP - 1
SeqNr == 0 .. SeqNrs - 1
NoDelta == -1
World == [Ent -> State \cup {Gone}]
NoEntities == [e \in Ent |-> Gone]
NoFrame == [seqnr |-> 0, entities |-> NoEntities]

Update == [seq : Nat, delta : BOOLEAN, from : SeqNr \cup {NoDelta},
           entitynum : BOOLEAN,     \* not zero
           ops : [Ent -> {"none", "remove", "same"} \cup State]]

-----------------------------------------------------------------------------
(* Delta encoding                                                          *)

\* (mutant) A removed entity is left out instead of being removed.
DeltaOp_NoRemove(old, new) ==
    CASE new = Gone -> "none"
      [] new # Gone /\ old = new -> "none"
      [] old = Gone /\ new = Baseline -> "same"
      [] OTHER -> new

\* An unchanged entity takes no bits; a new one is sent from its baseline,
\* with a header even when nothing differs.
DeltaOp(old, new) ==
    CASE old = new -> "none"
      [] old # Gone /\ new = Gone -> "remove"
      [] old = Gone /\ new = Baseline -> "same"
      [] OTHER -> new

SV_CreatePacketEntities(from, to) == [e \in Ent |-> DeltaOp(from[e], to[e])]

Undelta(old, op) ==
    CASE op = "none" -> old
      [] op = "remove" -> Gone
      [] op = "same" -> IF old = Gone THEN Baseline ELSE old
      [] OTHER -> op

UncompressEntities(from, ops) == [e \in Ent |-> Undelta(from[e], ops[e])]

-----------------------------------------------------------------------------
Init ==
    /\ outgoing = 1 /\ incoming = 0 /\ acknowledged = 0
    /\ delta_sequence = NoDelta
    /\ frames = [i \in Slot |-> [senttime |-> 0, ping |-> 0, entities |-> NoEntities]]
    /\ silent = 0
    /\ down = {} /\ up = {}
    /\ received = 0 /\ sent = 0
    /\ seqNrMap = [b \in SeqNr |-> NoFrame]
    /\ validSequence = 0
    /\ content = <<>> /\ claimed = 0 /\ overrun = FALSE /\ missed = FALSE

-----------------------------------------------------------------------------
(* Server: SV_SendClientDatagram, SV_ExecuteClientMessage                  *)

RingSlot(seq) == seq % SV_UPDATE_BACKUP

\* SV_WriteClientdataToMessage and SV_WriteEntitiesToClient fill the frame
\* of the ring before the delta is taken.
Filled(world) ==
    [frames EXCEPT ![RingSlot(outgoing)] =
        [senttime |-> outgoing, ping |-> -1, entities |-> world]]

FromFrame(ring) ==
    IF delta_sequence = NoDelta THEN NoEntities
    ELSE ring[RingSlot(delta_sequence)].entities

Datagram(world, cleared) ==
    [seq |-> outgoing,
     delta |-> delta_sequence # NoDelta,
     from |-> delta_sequence,
     entitynum |-> ~cleared /\ world # NoEntities,
     ops |-> IF cleared THEN [e \in Ent |-> "none"]
             ELSE SV_CreatePacketEntities(FromFrame(Filled(world)), world)]

\* The client is sent nothing once it was not heard for sv_failuretime.  A
\* message that overflows is cleared and goes out empty.
SendClientDatagram(world, cleared) ==
    /\ outgoing <= MaxFrames
    /\ silent <= FailureTime
    /\ frames' = Filled(world)
    /\ outgoing' = outgoing + 1
    /\ silent' = silent + 1
    /\ down' = down \cup {Datagram(world, cleared)}
    /\ content' = Append(content, world)
    /\ overrun' = (overrun \/ (/\ delta_sequence # NoDelta
                               /\ outgoing - claimed >= SV_UPDATE_BACKUP))
    /\ UNCHANGED <<incoming, acknowledged, delta_sequence, up, client, claimed, missed>>

\* (mutant) The ping goes to the frame sent last.
PingSlot_Last(p) == RingSlot(outgoing - 1)

PingSlot(p) == RingSlot(p.ack)

Measured(frame) ==
    [frame EXCEPT !.ping = IF frame.senttime = 0 THEN 0 ELSE outgoing - frame.senttime]

\* delta_sequence is reset for each message and set by its clc_delta, if any.
\* When the packet completes a message sent in fragments, that is executed
\* next; it holds no clc_delta.
ExecuteClientMessage(p, fragments) ==
    /\ p.seq > incoming
    /\ incoming' = p.seq
    /\ acknowledged' = p.ack
    /\ frames' = [frames EXCEPT ![PingSlot(p)] = Measured(@)]
    /\ delta_sequence' = IF fragments THEN NoDelta ELSE p.delta
    /\ claimed' = p.valid
    /\ silent' = 0
    /\ up' = {q \in up : q.seq > p.seq}
    /\ UNCHANGED <<outgoing, down, client, content, overrun, missed>>

-----------------------------------------------------------------------------
(* Client: Server::ProcessMessage, SendServerCommands, ParseSetPause       *)

\* (mutant) A frame fewer is kept.
Removed_OneFewer(f, seq) == f.seqnr + BufferLength <= seq

\* World::CheckFrameBufferSize, when the frame seq has been added.
Removed(f, seq) == f.seqnr + BufferLength < seq

HasFrame(b) == seqNrMap[b].seqnr # 0

\* A frame whose base is missing is added all the same, with no entity in it.
Decoded(m) ==
    IF ~m.delta THEN UncompressEntities(NoEntities, m.ops)
    ELSE IF HasFrame(m.from)
         THEN UncompressEntities(seqNrMap[m.from].entities, m.ops)
         ELSE NoEntities

AddFrame(m) ==
    [b \in SeqNr |->
        IF b = m.seq % SeqNrs THEN [seqnr |-> m.seq, entities |-> Decoded(m)]
        ELSE IF Removed(seqNrMap[b], m.seq) THEN NoFrame ELSE seqNrMap[b]]

\* (mutant) A packet without entities is asked for as a base too.
NewValid_Any(m) == m.seq

NewValid(m) == IF m.entitynum THEN m.seq ELSE validSequence

ProcessMessage(m) ==
    /\ m.seq > received
    /\ received' = m.seq
    /\ validSequence' = NewValid(m)
    /\ seqNrMap' = IF m.entitynum THEN AddFrame(m) ELSE seqNrMap
    /\ missed' = (missed \/ (m.entitynum /\ m.delta /\ ~HasFrame(m.from)))
    /\ down' = {q \in down : q.seq > m.seq}
    /\ UNCHANGED <<server, up, sent, content, claimed, overrun>>

SendServerCommands ==
    /\ sent < MaxPackets
    /\ sent' = sent + 1
    /\ up' = up \cup {[seq |-> sent + 1, ack |-> received,
                       delta |-> IF validSequence = 0 THEN NoDelta
                                 ELSE validSequence % SeqNrs,
                       valid |-> validSequence]}
    /\ UNCHANGED <<server, down, received, seqNrMap, validSequence, history>>

\* svc_setpause with the pause over: a full update is asked for.
ParseSetPause ==
    /\ validSequence # 0
    /\ validSequence' = 0
    /\ UNCHANGED <<server, down, up, received, sent, seqNrMap, history>>

Next ==
    \/ \E world \in Worlds, cleared \in BOOLEAN : SendClientDatagram(world, cleared)
    \/ \E p \in up, fragments \in BOOLEAN : ExecuteClientMessage(p, fragments)
    \/ \E m \in down : ProcessMessage(m)
    \/ SendServerCommands
    \/ ParseSetPause

Spec == Init /\ [][Next]_vars

-----------------------------------------------------------------------------
(* The types of the variables; the numbers of frames sent.                 *)
TypeOK ==
    /\ outgoing \in Nat \ {0} /\ incoming \in Nat /\ sent \in Nat
    /\ acknowledged \in Nat /\ silent \in Nat
    /\ received \in Nat /\ received < outgoing
    /\ delta_sequence \in SeqNr \cup {NoDelta}
    /\ claimed \in 0 .. outgoing - 1 /\ validSequence \in 0 .. received
    /\ frames \in [Slot -> [senttime : Nat, ping : Nat \cup {-1}, entities : World]]
    /\ down \subseteq Update
    /\ seqNrMap \in [SeqNr -> [seqnr : Nat, entities : World]]
    /\ content \in Seq(World) /\ Len(content) = outgoing - 1
    /\ overrun \in BOOLEAN /\ missed \in BOOLEAN

(* Unless the server has taken a delta against a slot of the ring that was  *)
(* written again since (which SV_CreatePacketEntities does not notice), the *)
(* entities of every frame the client has put together are those the server *)
(* sent in it, through any losses, repeats and delays in both directions.   *)
EntitiesMatch ==
    ~overrun => \A b \in SeqNr :
        HasFrame(b) => seqNrMap[b].entities = content[seqNrMap[b].seqnr]

(* Unless that has happened, the client still has the frame every update it *)
(* reads was taken from: "delta frame too old" is never said.               *)
NeverTooOld == missed => overrun

(* What the ring of the server and the frames of the client must be.        *)
FramesInv == TypeOK /\ EntitiesMatch /\ NeverTooOld

(* A ping is measured on the frame the packet acknowledges, unless the      *)
(* acknowledgement is of a frame a whole ring ago.                          *)
PingOfAcknowledged ==
    [][\A i \in Slot :
         /\ frames'[i].ping # frames[i].ping
         /\ outgoing' = outgoing
         => \/ frames[i].senttime = acknowledged'
            \/ outgoing - acknowledged' > SV_UPDATE_BACKUP]_vars
=============================================================================
