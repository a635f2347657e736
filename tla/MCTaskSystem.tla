------------------------------ MODULE MCTaskSystem ------------------------------
(* TaskSystem on small sets of task objects, for TLC. *)
EXTENDS TaskSystem, TLC

MCSymmetry == Permutations(Events)

=============================================================================
