------------------------------ MODULE MCFrames ------------------------------
(***************************************************************************)
(* A small instance of Frames: a ring of four, two entities and three      *)
(* worlds, among them the empty one.  To leave room for six updates, the   *)
(* worlds come in one of three orders; in each an entity appears in its    *)
(* baseline or not, goes, changes or stays, from one world to the next and *)
(* over the one or two updates that a delta across losses skips.           *)
(***************************************************************************)
EXTENDS Frames

CONSTANTS s1, s2

World2(a, b) == [e \in Ent |-> IF e = 1 THEN a ELSE b]

Baselined == World2(s1, Gone)
Both == World2(s2, s1)
MCWorlds == {NoEntities, Baselined, Both}

Orders ==
    {<<Baselined, Both, Baselined, NoEntities, Both, Baselined>>,
     <<Both, Baselined, NoEntities, Baselined, Both, Baselined>>,
     <<Both, Both, NoEntities, Baselined, Both, Baselined>>}

InOrder == \E worlds \in Orders : \A i \in DOMAIN content : content[i] = worlds[i]

MCNext == Next /\ InOrder'
MCSpec == Init /\ [][MCNext]_vars
=============================================================================
