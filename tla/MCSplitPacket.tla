---------------------------- MODULE MCSplitPacket ----------------------------
(* The sizes of net.h and net_ws.h, with datagrams at their boundaries. *)
EXTENDS SplitPacket

MCLength == {1401, 2783, 4010}
=============================================================================
