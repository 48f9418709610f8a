--------------------------- MODULE ReliableStream ---------------------------
(***************************************************************************)
(* What a network channel promises for reliable data: the units an end has *)
(* queued reach the other end exactly once, in the order they were queued, *)
(* any number of them at a time, until one end breaks the channel off;     *)
(* from then on it promises nothing.                                       *)
(***************************************************************************)
EXTENDS Naturals, Sequences

CONSTANT End

VARIABLES sent,     \* how many units each end has queued
          received, \* the units each end has been given
          open      \* FALSE once the channel was broken off

vars == <<sent, received, open>>

Other(e) == CHOOSE f \in End : f # e

UpTo(n) == [i \in 1..n |-> i]

Init == /\ sent = [e \in End |-> 0]
        /\ received = [e \in End |-> <<>>]
        /\ open = TRUE

Queue(e) == /\ open
            /\ sent'[e] > sent[e]
            /\ sent' = [sent EXCEPT ![e] = sent'[e]]
            /\ UNCHANGED <<received, open>>

Give(e) == /\ open
           /\ \E n \in Len(received[e])+1 .. sent[Other(e)] :
                received' = [received EXCEPT ![e] = UpTo(n)]
           /\ UNCHANGED <<sent, open>>

BreakOff == open /\ ~open' /\ UNCHANGED <<sent, received>>

Broken == ~open /\ ~open'

Next == BreakOff \/ Broken \/ \E e \in End : Queue(e) \/ Give(e)

Spec == Init /\ [][Next]_vars
=============================================================================
