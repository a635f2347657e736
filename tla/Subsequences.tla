------------------------------- MODULE Subsequences -------------------------------
(***************************************************************************)
(* What a loop leaves of a list when it erases some of the entries and     *)
(* keeps the others in their order.  (It is the SelectSeq of Sequences,    *)
(* told by the positions that stay.)                                       *)
(***************************************************************************)
EXTENDS Naturals, Sequences, FiniteSets

(* The positions in K from the first to the last. *)
Ascending(K) ==
  CHOOSE f \in [1 .. Cardinality(K) -> K] : \A i, j \in DOMAIN f : i < j => f[i] < f[j]

(* The entries of s at the positions in K. *)
Kept(s, K) == [i \in 1 .. Cardinality(K) |-> s[Ascending(K)[i]]]
=============================================================================
