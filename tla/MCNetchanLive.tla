--------------------------- MODULE MCNetchanLive ---------------------------
(***************************************************************************)
(* Liveness of Netchan.  Both ends call Netchan_Transmit every frame and   *)
(* read what arrives, so both actions are weakly fair.  The network loses  *)
(* at most MaxLost packets in all (net_drop counts them), which            *)
(* stands for "it does not lose every copy of a block for ever", and an    *)
(* end has no more packets on the way than may still be lost, plus one.    *)
(***************************************************************************)
EXTENDS MCNetchan

CONSTANTS
  MaxLost,    \* bound: packets the network loses
  LastWrite   \* bound: packets an end has sent when it is cleared or, cleared,
              \* queues data

VARIABLE lost

livevars == <<vars, lost>>

LiveInit == Init /\ lost = 0

\* Packets of e on the way beyond the newest: they are lost once it is read.
Overtaken(e) ==
  LET unread == (outgoing_sequence[e] - 1) - incoming_sequence[Peer(e)]
  IN  IF unread > 1 THEN unread - 1 ELSE 0

\* To keep the graph small data is queued before the first packet, or early
\* after Netchan_Clear.
LiveQueue(e) ==
  /\ \/ outgoing_sequence[e] = 1
     \/ clears[e] > 0 /\ outgoing_sequence[e] <= LastWrite
  /\ Queue(e) /\ UNCHANGED lost

\* A file beside at most one unit; or one unit, Netchan_Clear and one more unit.
UnitAndFile == Uncleared /\ \A e \in End : written[e] <= 1
UnitClearUnit == FilesUnused /\ \A e \in End : written[e] > 1 => clears[e] > 0

LiveTransmit(e) ==
  /\ outgoing_sequence[e] - 1 > incoming_sequence[Peer(e)] =>
       lost + Overtaken(e) + Overtaken(Peer(e)) < MaxLost
  /\ TransmitAny(e)
  /\ UNCHANGED lost

LiveRead(e) ==
  \E p \in net :
    /\ ReadPacket(e, p)
    /\ lost' = lost + (p.seq - (incoming_sequence[e] + 1))

\* A clear that cuts a block; one that does not leaves the ends in phase.
LiveClear(e) ==
  /\ outgoing_sequence[e] <= LastWrite /\ reliable_buf[e] # Empty
  /\ Clear(e) /\ UNCHANGED lost

LiveNext ==
  \/ (\E e \in Writer : LiveQueue(e) \/ LiveClear(e)) /\ (UnitAndFile \/ UnitClearUnit)'
  \/ \E e \in End : LiveTransmit(e) \/ LiveRead(e)

LiveSpec ==
  /\ LiveInit /\ [][LiveNext]_livevars
  /\ \A e \in End : WF_livevars(LiveTransmit(e)) /\ WF_livevars(LiveRead(e))

\* Everything that is queued arrives in the end, whatever the mixture of
\* regular data, fragments and files, unless an end is cleared: no
\* stream starves, no acknowledgement is waited for for ever.
EverythingArrives ==
  <>[](Uncleared =>
        \A e \in Writer :
          /\ Len(delivered[Peer(e)]) = written[e]
          /\ \A f \in Range(filesQueued[e]) :
               f \in filesLost[e] \/ Contains(filesGot[Peer(e)], f))

\* After a Netchan_Clear that cut a block the two ends are out of phase, and
\* the next block goes out under the bit that the peer shows already; they get
\* back in phase, and stay there once the queues are empty.
PhaseHeals ==
  <>[](\A e \in End : /\ reliable_sequence[e] = incoming_reliable_sequence[Peer(e)]
                      /\ reliable_buf[e] = Empty)
=============================================================================
