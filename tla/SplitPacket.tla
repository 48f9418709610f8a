---------------------------- MODULE SplitPacket ----------------------------
(***************************************************************************)
(* Datagrams longer than MAX_ROUTEABLE_PACKET.  The server cuts them into  *)
(* numbered parts (NET_SendLong); the socket of the HLTV proxy puts them   *)
(* together (NetSocket::GetLong) in a single buffer, one datagram at a     *)
(* time.  The server itself refuses split packets (NET_QueuePacket), so    *)
(* that the engine's own copy of GetLong serves no one.  The network may   *)
(* lose, duplicate, delay and reorder parts; a part that sendto refuses,   *)
(* and those after it, are parts that are lost.                            *)
(*                                                                         *)
(* The bytes of a part are the datagram it was cut from, the no-th that    *)
(* was sent, and its place in it; GetLong cannot see the first, it has the *)
(* sequence number only.  Shorter datagrams never touch this state and are *)
(* left out.                                                               *)
(***************************************************************************)
EXTENDS Integers, Sequences

CONSTANTS
    SPLIT_SIZE,             \* payload of a part
    MAX_ROUTEABLE_PACKET,
    MAX_UDP_PACKET,         \* size of the buffers of sender and receiver
    MAX_SPLIT_FRAGMENTS,
    Length,                 \* lengths of the datagrams sent
    MaxDatagrams,           \* bound: datagrams sent
    Window                  \* bound: datagrams whose parts the network holds

ASSUME SizeAssumption ==
    /\ SPLIT_SIZE \in Nat \ {0}
    /\ MAX_SPLIT_FRAGMENTS \in Nat \ {0}
    /\ MAX_UDP_PACKET \in Nat
    /\ MAX_UDP_PACKET <= SPLIT_SIZE * MAX_SPLIT_FRAGMENTS
    /\ MAX_ROUTEABLE_PACKET \in Nat /\ MAX_ROUTEABLE_PACKET > SPLIT_SIZE
    /\ Length \subseteq MAX_ROUTEABLE_PACKET + 1 .. MAX_UDP_PACKET

VARIABLES
    gSequenceNumber,    \* of NET_SendLong
    datagrams,          \* history: the lengths of the datagrams sent, in order
    net,                \* parts the network holds
    split,              \* m_NetSplitPacket and netSplitFlags
    handed,             \* history: what GetLong returned as complete
    failed,             \* history: GetLong has returned -1
    run                 \* history: parts read since another datagram's part

splitVars == <<gSequenceNumber, datagrams, net, split, handed, failed, run>>

None == -1      \* no current sequence; a part that is not there
Number == 0 .. MAX_SPLIT_FRAGMENTS - 1
NoFlags == [i \in Number |-> None]

SplitInit ==
    /\ gSequenceNumber = 1
    /\ datagrams = <<>>
    /\ net = {}
    /\ split = [currentSequence |-> None, splitCount |-> 0, totalSize |-> 0,
                flags |-> NoFlags, buffer |-> [i \in Number |-> <<0, i>>]]
    /\ handed = {}
    /\ failed = FALSE
    /\ run = {}

-----------------------------------------------------------------------------
(* NET_SendLong                                                            *)

Count(len) == (len + SPLIT_SIZE - 1) \div SPLIT_SIZE

Least(a, b) == IF a < b THEN a ELSE b

Part(no, seq, len, i) ==
    [no |-> no, seq |-> seq, number |-> i, count |-> Count(len),
     size |-> Least(SPLIT_SIZE, len - i * SPLIT_SIZE)]

Parts(no, seq, len) == {Part(no, seq, len, i) : i \in 0 .. Count(len) - 1}

\* (mutant) All datagrams carry one number.
NextSequence_Same(seq) == seq

\* The wrap to 1 at 2^31 is out of the bound MaxDatagrams.
NextSequence(seq) == seq + 1

SendLong(len) ==
    /\ Len(datagrams) < MaxDatagrams
    /\ LET seq == NextSequence(gSequenceNumber)
       IN  /\ gSequenceNumber' = seq
           /\ datagrams' = Append(datagrams, len)
           /\ net' = {p \in net : p.no + Window > Len(datagrams) + 1}
                        \cup Parts(Len(datagrams) + 1, seq, len)
    /\ UNCHANGED <<split, handed, failed, run>>

-----------------------------------------------------------------------------
(* NetSocket::GetLong                                                      *)

\* (mutant) The parts still to come are not counted anew.
Restart_KeepsCount(st, p) ==
    IF st.currentSequence = p.seq THEN st
    ELSE [st EXCEPT !.currentSequence = p.seq, !.totalSize = 0, !.flags = NoFlags]

\* (mutant) Before HLTV_FIXES: the marks of older datagrams stay.
Restart_KeepsFlags(st, p) ==
    IF st.currentSequence = p.seq THEN st
    ELSE [st EXCEPT !.currentSequence = p.seq, !.splitCount = p.count]

\* A part of another datagram ends the one that was being put together.
Restart(st, p) ==
    IF st.currentSequence = p.seq THEN st
    ELSE [st EXCEPT !.currentSequence = p.seq, !.splitCount = p.count,
                    !.totalSize = 0, !.flags = NoFlags]

\* (mutant) Duplicates are counted.
IsDuplicate_Never(st, p) == FALSE

IsDuplicate(st, p) == st.flags[p.number] = p.seq

Mark(st, p) ==
    [st EXCEPT !.totalSize = IF p.number = p.count - 1
                             THEN p.size + SPLIT_SIZE * (p.count - 1) ELSE @,
               !.splitCount = @ - 1,
               !.flags = [@ EXCEPT ![p.number] = p.seq]]

Copy(st, p) == [st EXCEPT !.buffer = [@ EXCEPT ![p.number] = <<p.no, p.number>>]]

Store(st, p) == IF IsDuplicate(st, p) THEN st ELSE Copy(Mark(st, p), p)

Malformed(p) ==
    \/ p.number >= MAX_SPLIT_FRAGMENTS
    \/ p.count > MAX_SPLIT_FRAGMENTS

PartTooLarge(st, p) ==
    ~IsDuplicate(st, p) /\ SPLIT_SIZE * p.number + p.size > MAX_UDP_PACKET

AllPresent(st, p) == \A i \in 0 .. p.count - 1 : st.flags[i] = st.currentSequence

TooLarge(st) == st.totalSize > MAX_UDP_PACKET

Closed(st) == [st EXCEPT !.currentSequence = None]

\* The bytes that go to the channel: what each part of the buffer holds.
Assembled(st, p) ==
    [size |-> st.totalSize, parts |-> {st.buffer[i] : i \in 0 .. p.count - 1}]

GetLong(p) ==
    LET st == Restart(split, p)
        new == Store(st, p)
    IN  CASE Malformed(p) -> UNCHANGED <<split, handed, failed>>
          [] ~Malformed(p) /\ PartTooLarge(st, p) ->
               split' = Closed(Mark(st, p)) /\ failed' = TRUE /\ UNCHANGED handed
          [] ~Malformed(p) /\ ~PartTooLarge(st, p) /\ new.splitCount > 0 ->
               split' = new /\ UNCHANGED <<handed, failed>>
          [] OTHER ->
               /\ split' = Closed(new)
               /\ IF AllPresent(new, p) /\ ~TooLarge(new)
                  THEN handed' = handed \cup {Assembled(new, p)} /\ UNCHANGED failed
                  ELSE failed' = TRUE /\ UNCHANGED handed

Receive(p) ==
    /\ GetLong(p)
    /\ run' = {q \in run : q.no = p.no} \cup {p}
    /\ UNCHANGED <<gSequenceNumber, datagrams, net>>

-----------------------------------------------------------------------------
SplitNext ==
    \/ \E len \in Length : SendLong(len)
    \/ \E p \in net : Receive(p)

SplitSpec == SplitInit /\ [][SplitNext]_splitVars

-----------------------------------------------------------------------------
AsSent(no) ==
    [size |-> datagrams[no],
     parts |-> {<<no, i>> : i \in 0 .. Count(datagrams[no]) - 1}]

PartsOf(no) == Parts(no, no + 1, datagrams[no])

(* The types of the variables; nothing is put together beyond the buffer. *)
SplitTypeOK ==
    /\ datagrams \in Seq(Length)
    /\ gSequenceNumber = Len(datagrams) + 1
    /\ \A p \in net \cup run : p.no \in 1 .. Len(datagrams) /\ p \in PartsOf(p.no)
    /\ split \in [currentSequence : {None} \cup Nat, splitCount : Nat,
                  totalSize : 0 .. MAX_UDP_PACKET,
                  flags : [Number -> {None} \cup Nat],
                  buffer : [Number -> Nat \X Number]]
    /\ failed \in BOOLEAN

(* However parts of several datagrams are mixed, repeated and delayed, what *)
(* GetLong gives to the channel is one datagram the server sent, complete   *)
(* and of its length, never parts of two of them.                           *)
Whole == \A d \in handed : \E no \in 1 .. Len(datagrams) : d = AsSent(no)

(* A datagram whose parts have all come, in any order and with duplicates,  *)
(* and no part of another among them, has been given to the channel.        *)
NothingWithheld ==
    \A p \in run : run = PartsOf(p.no) => AsSent(p.no) \in handed

(* The errors of GetLong (a part without its place in the buffer, a count   *)
(* that ends with a part missing, a datagram too large) are never caused by *)
(* what the network does to the server's own datagrams.                     *)
NoSplitError == ~failed
=============================================================================
