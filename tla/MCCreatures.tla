---------------------------------- MODULE MCCreatures ----------------------------------
(* Creatures and their summons, in two vectors. *)
EXTENDS Creatures, TLC
=============================================================================
