---------------------------- MODULE MCHookChain ----------------------------
(* A small instance of HookChain: four hooks, of which the registry holds    *)
(* three, at three priorities.                                               *)
EXTENDS HookChain

CONSTANTS h1, h2, h3, h4

Perms == Permutations({h1, h2, h3, h4})
=============================================================================
