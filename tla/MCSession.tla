----------------------------- MODULE MCSession -----------------------------
(* A small instance of Session. *)
EXTENDS Session, TLC

CONSTANTS ip1, ip2, port1, port2

MCIp == {ip1, ip2}
MCPort == {port1, port2}
MCSymmetry == Permutations(MCIp) \cup Permutations(MCPort)
=============================================================================
