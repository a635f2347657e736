---------------------------------- MODULE MCSessions ----------------------------------
(* Two places in the world and three characters who want them, of whom one is premium and
   one may always log in; two clients at a time. *)
EXTENDS Sessions, TLC

Symmetry == Permutations(Protocols)
=============================================================================
