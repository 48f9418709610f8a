------------------------------ MODULE MCMoves ------------------------------
(* A small instance of Moves: a player with a few commands, whose durations *)
(* add up differently for every set of them, and another with one, so that  *)
(* net_drop passes from one channel to the other.                           *)
EXTENDS Moves

CONSTANTS a, b

MCMsec == [k \in 1 .. 4 |-> 2 ^ (k - 1)]
MCMaxSeq == [c \in Client |-> IF c = a THEN 4 ELSE 1]
=============================================================================
