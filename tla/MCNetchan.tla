----------------------------- MODULE MCNetchan -----------------------------
(***************************************************************************)
(* Small instances of Netchan.  One run explores three ways to use a       *)
(* channel, each with as many packets as it needs: messages without        *)
(* Netchan_Clear, files alone, and plain messages with one Netchan_Clear   *)
(* of an end.                                                              *)
(***************************************************************************)
EXTENDS Netchan

CONSTANTS server, client, file1, file2

MCEnd == {server, client}
MCWriter == {server}
MCFile == {file1}
MCFiles == {file1, file2}
MCNoFiles == {}
MCOne == {1}
MCTwo == {2}
MCTwoThree == {2, 3}
MCPlain == {FALSE}
MCBoth == BOOLEAN

FilesUnused == \A e \in End : filesQueued[e] = <<>>
Plain == \A e \in End : \A i \in DOMAIN outq[e].waitlist["normal"] :
            ~outq[e].waitlist["normal"][i].packed

\* The client sends a packet fewer than MaxSeq allows.
ClientBehind == outgoing_sequence[client] <= MaxSeq

MessagesOnly == FilesUnused /\ Uncleared
FilesOnly ==
    /\ Uncleared
    /\ \A e \in End : written[e] = 0
    /\ ClientBehind
\* A message, and after its sender was cleared a second one: it is loaded under
\* a bit that the peer may already show.
OneClear ==
    /\ FilesUnused /\ Plain /\ ClientBehind
    /\ \A e \in End : written[e] \in {0, 2} \/ (written[e] = 4 /\ clears[e] > 0)
    /\ \A e, f \in End : clears[e] + clears[f] > 1 => e = f

MCNext == Next /\ (MessagesOnly \/ FilesOnly \/ OneClear)'
MCSpec == Init /\ [][MCNext]_vars
=============================================================================
