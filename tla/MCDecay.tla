---------------------------------- MODULE MCDecay ----------------------------------
(* Corpses that rot and turn into bones, which vanish; a ring that ages while worn; a
   lamp that lies on top. *)
EXTENDS Decay

MCTypes == {"corpse", "rotten", "bones", "worn", "ring", "lamp"}

MCDecayTime ==
  [t \in MCTypes |-> CASE t = "corpse" -> 7 [] t = "worn" -> 6 [] t = "ring" -> 0
                        [] t = "lamp" -> 1 [] OTHER -> 2]

MCDecayTo ==
  [t \in MCTypes |-> CASE t = "corpse" -> "rotten" [] t = "rotten" -> "bones"
                        [] t = "lamp" -> "bones" [] t = "ring" -> Stays [] OTHER -> Gone]

MCStopTime == {"ring"}
MCClass == [t \in MCTypes |-> IF t \in {"corpse", "rotten"} THEN "container" ELSE "item"]
MCOnTop == {"lamp"}

=============================================================================
