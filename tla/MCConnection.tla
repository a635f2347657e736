------------------------------ MODULE MCConnection ------------------------------
(* Connection with a few messages, for TLC. *)
EXTENDS Connection, TLC

MCSymmetry == Permutations(Msgs)

=============================================================================
