------------------------------ MODULE AlarmService ------------------------------
(***************************************************************************)
(* What the rest of the server relies on from the scheduler, whatever      *)
(* threads, heaps and ids it is made of: an event that was accepted fires  *)
(* at most once and not before it is due, unless it is stopped first, and  *)
(* it is lost only when the scheduler no longer accepts events.            *)
(***************************************************************************)
EXTENDS Naturals

CONSTANTS Events, MaxTime, MaxDelay

VARIABLES now, accepting, cycle, fate

vars == <<now, accepting, cycle, fate>>

Init ==
  /\ now = 0
  /\ accepting = TRUE
  /\ cycle = [e \in Events |-> 0]
  /\ fate = [e \in Events |-> "new"]

Become(e, from, to) ==
  /\ fate[e] = from
  /\ fate' = [fate EXCEPT ![e] = to]

Arm(e) ==
  /\ Become(e, "new", IF accepting THEN "armed" ELSE "lost")
  /\ \E d \in 1..MaxDelay : cycle' = [cycle EXCEPT ![e] = now + d]
  /\ UNCHANGED <<now, accepting>>

Stop(e) == Become(e, "armed", "stopped") /\ UNCHANGED <<now, accepting, cycle>>

Fire(e) ==
  /\ cycle[e] <= now
  /\ Become(e, "armed", "fired")
  /\ UNCHANGED <<now, accepting, cycle>>

Close == accepting' = FALSE /\ UNCHANGED <<now, cycle, fate>>

LoseAll ==
  /\ ~accepting
  /\ fate' = [e \in Events |-> IF fate[e] = "armed" THEN "lost" ELSE fate[e]]
  /\ UNCHANGED <<now, accepting, cycle>>

Tick == now < MaxTime /\ now' = now + 1 /\ UNCHANGED <<accepting, cycle, fate>>

Next ==
  \/ \E e \in Events : Arm(e) \/ Stop(e) \/ Fire(e)
  \/ Close
  \/ LoseAll
  \/ Tick

Spec == Init /\ [][Next]_vars

=============================================================================
