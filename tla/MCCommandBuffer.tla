-------------------------- MODULE MCCommandBuffer --------------------------
(* A small instance of CommandBuffer: an alias, a file that fits while the   *)
(* buffer is near empty, one that never fits, and a command of the game's.   *)
EXTENDS CommandBuffer, TLC

MCAlias == [x \in {"alias"} |-> <<"wait", "plain">>]
MCFile == ("short.cfg" :> <<"plain", "execute">>) @@ ("long.cfg" :> <<"plain", "alias", "wait", "plain">>)
MCAdded == [x \in {"add"} |-> <<"plain">>]
=============================================================================
