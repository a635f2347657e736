---------------------------------- MODULE MCTrade ----------------------------------
(* On a row of four tiles: two players and the two bags and the stack of coins, one in
   another; or two players and a bag, the coins and the deed; or three players and two of
   these three.  No player stands on tile 2: between the others there is each distance from
   1 to 3, and who walks may come from anywhere. *)
EXTENDS Trade, FiniteSets, TLC

Symmetry == Permutations(Players) \cup Permutations(Bags)

Few ==
  LET things == {i \in Items : place[i] # Null}
      players == Cardinality(online)
  IN  /\ Cardinality(things) <= IF players = 2 THEN 3 ELSE 2
      /\ Bags \subseteq things => players = 2 /\ things \cap Deeds = {}
      /\ \A p \in online : pos[p] # 2
=============================================================================
