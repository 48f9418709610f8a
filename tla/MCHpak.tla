------------------------------- MODULE MCHpak -------------------------------
(* Small instances of Hpak: four lumps, uploaded up to five times, and two   *)
(* starts of the server.                                                     *)
EXTENDS Hpak

MCLumps == 1 .. 4
=============================================================================
