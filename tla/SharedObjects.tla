----------------------------- MODULE SharedObjects -----------------------------
(***************************************************************************)
(* What a connection, its protocol and their output messages owe each      *)
(* other, whatever counters, tasks and timers it takes: a message is taken *)
(* only for a protocol that is there, and neither the protocol nor the     *)
(* socket is deleted before the connection has closed and every message    *)
(* was given back.                                                         *)
(***************************************************************************)
CONSTANT Msgs

VARIABLES open, inUse, protocol, socketThere

vars == <<open, inUse, protocol, socketThere>>

Init ==
  /\ open = TRUE
  /\ inUse = {}
  /\ protocol \in {"none", "live"}
  /\ socketThere = TRUE

Make ==
  /\ open
  /\ protocol = "none" /\ protocol' = "live"
  /\ UNCHANGED <<open, inUse, socketThere>>

Take(m) ==
  /\ protocol = "live"
  /\ m \notin inUse /\ inUse' = inUse \cup {m}
  /\ UNCHANGED <<open, protocol, socketThere>>

Give(m) ==
  /\ m \in inUse /\ inUse' = inUse \ {m}
  /\ UNCHANGED <<open, protocol, socketThere>>

Close == open' = FALSE /\ UNCHANGED <<inUse, protocol, socketThere>>

DeleteProtocol ==
  /\ ~open /\ inUse = {}
  /\ protocol = "live" /\ protocol' = "deleted"
  /\ UNCHANGED <<open, inUse, socketThere>>

DeleteSocket ==
  /\ ~open /\ inUse = {}
  /\ socketThere' = FALSE
  /\ UNCHANGED <<open, inUse, protocol>>

Next ==
  \/ Make \/ Close \/ DeleteProtocol \/ DeleteSocket
  \/ \E m \in Msgs : Take(m) \/ Give(m)

=============================================================================
