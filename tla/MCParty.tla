---------------------------------- MODULE MCParty ----------------------------------
(* Three players, and as many places for parties as they can have at once. *)
EXTENDS Party, TLC

Symmetry == Permutations(Players \ SelfInviters) \cup Permutations(Parties)
=============================================================================
