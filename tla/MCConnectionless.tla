-------------------------- MODULE MCConnectionless --------------------------
(***************************************************************************)
(* A small instance of Connectionless.  Its parts share no variable, so    *)
(* that each is explored with the others at rest, and in the bans the      *)
(* filters on addresses and those on users.                                *)
(*                                                                         *)
(* Addresses of two bytes with three values, one player on each of two     *)
(* hosts of a net, and what an operator enters: the net, the host whose    *)
(* address ends in zero, the other host.  Three addresses query, of which  *)
(* two are more than the tree is to hold; three addresses try rcon, and    *)
(* the table has room for two.                                             *)
(***************************************************************************)
EXTENDS Connectionless

CONSTANTS u1, u2, u3

MCByte == 0 .. 2
MCNoCIDR == -1
MCEntered ==
    {[ip |-> <<1, 0>>, cidr |-> MCNoCIDR],          \* the net
     [ip |-> <<1, 0>>, cidr |-> 2],                 \* one of its hosts
     [ip |-> <<1, 1>>, cidr |-> MCNoCIDR]}          \* the other host
MCPeers == {[ip |-> <<1, 0>>, id |-> u1], [ip |-> <<1, 1>>, id |-> u2]}
MCModes == {0, 1}
MCIPs == 1 .. 3

AddressesAtRest == askedIP = <<>> /\ ipfilters = <<>> /\ listip = <<>> /\ written.ip = {}
UsersAtRest == askedUser = <<>> /\ userfilters = <<>> /\ banned = <<>> /\ written.user = {}
FiltersAtRest ==
    /\ AddressesAtRest /\ UsersAtRest /\ minutes = 0 /\ spared = {}
    /\ \A p \in Peers : stage[p] = "out"
QueriesAtRest == queries = 0 /\ curTime = Window + 1
RemoteAtRest == attempts = 0 /\ seconds = 0

MCNext ==
    \/ QueriesAtRest /\ RemoteAtRest /\ Filtering /\ (AddressesAtRest \/ UsersAtRest)'
    \/ FiltersAtRest /\ RemoteAtRest /\ Limiting
    \/ FiltersAtRest /\ QueriesAtRest /\ Validating

MCSpec == Init /\ [][MCNext]_vars
=============================================================================
