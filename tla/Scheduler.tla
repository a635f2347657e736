-------------------------------- MODULE Scheduler --------------------------------
(***************************************************************************)
(* The timers of the server (scheduler.h, scheduler.cpp): a heap of        *)
(* SchedulerTasks ordered by the time they are due (their cycle), the set  *)
(* of the ids of the events that were not stopped, and a thread that hands *)
(* each due event to the dispatcher, at the front of its queue.            *)
(*                                                                         *)
(* The heap is a set: the thread takes one of the events with the least    *)
(* cycle, whichever the heap has on top among equals.  A critical section  *)
(* of eventLock is one step; Scheduler::shutdown sets the thread's state   *)
(* before it takes the lock and notifies after it released it, so it is    *)
(* three.  Only StopEvent sees the events that were stopped: their tasks   *)
(* stay in the heap until they are due.                                    *)
(***************************************************************************)
EXTENDS Dispatcher

CONSTANTS EventIdMax,  \* the largest event id, 2^32 - 1 in the code
          MaxTime,     \* bound: the clock stops there
          MaxDelay     \* bound: the longest delay; the shortest is one tick

ASSUME SchedulerAssumption ==
  /\ EventIdMax \in Nat \ {0}
  /\ MaxTime \in Nat
  /\ MaxDelay \in Nat

VARIABLES now,             \* the system clock
          schedulerState,  \* threadState
          eventList,       \* the tasks in the heap
          eventIds,        \* the ids of the events that are still wanted
          lastEventId,     \* the last id given out
          eventId,         \* the id of each SchedulerTask, 0 before it has one
          cycle,           \* when each SchedulerTask is due
          eventSignal,     \* a notification is on its way to the waiting thread
          schedulerPc,     \* where the scheduler thread is
          deadline,        \* what it waits for: Forever, or the cycle of the top
          popped,          \* the task it took out of the heap
          fate             \* what has become of each event

schedulerVars ==
  <<now, schedulerState, eventList, eventIds, lastEventId, eventId, cycle,
    eventSignal, schedulerPc, deadline, popped, fate>>

heapVars == <<eventList, eventIds, lastEventId, eventId, cycle, fate>>

Forever == MaxTime + 1

Fate == {"new", "armed", "stopped", "fired", "lost"}

SchedulerPc ==
  {"check", "lock", "waiting", "woken", "timedout", "handoff", "undefined", "exited"}

SchedulerTypeOK ==
  /\ now \in 0..MaxTime
  /\ schedulerState \in ThreadState
  /\ eventList \subseteq Events
  /\ eventIds \subseteq 1..EventIdMax
  /\ lastEventId \in 0..EventIdMax
  /\ eventId \in [Events -> 0..EventIdMax]
  /\ cycle \in [Events -> 0..MaxTime]
  /\ eventSignal \in BOOLEAN
  /\ schedulerPc \in SchedulerPc
  /\ deadline \in 0..Forever
  /\ popped \in Events \cup {Nobody}
  /\ fate \in [Events -> Fate]

SchedulerInit ==
  /\ now = 0
  /\ schedulerState = "RUNNING"
  /\ eventList = {}
  /\ eventIds = {}
  /\ lastEventId = 0
  /\ eventId = [e \in Events |-> 0]
  /\ cycle = [e \in Events |-> 0]
  /\ eventSignal = FALSE
  /\ schedulerPc = "check"
  /\ deadline = Forever
  /\ popped = Nobody
  /\ fate = [e \in Events |-> "new"]

(* Mutation of Tops: the comparator of the heap the wrong way round. *)
LatestOnTop == {e \in eventList : \A f \in eventList : cycle[e] >= cycle[f]}

(* The events the heap may have on top. *)
Tops == {e \in eventList : \A f \in eventList : cycle[e] <= cycle[f]}

(* Mutation of NextEventId: the id wraps around to 0. *)
NextEventIdMaybeZero(id) == (id + 1) % EventIdMax

(* ++lastEventId on 32 bits, skipping 0. *)
NextEventId(id) == IF id = EventIdMax THEN 1 ELSE id + 1

NotifyScheduler(needed) ==
  eventSignal' = (eventSignal \/ (needed /\ schedulerPc = "waiting"))

-----------------------------------------------------------------------------
(* Operations, called by the other threads. *)

(* Mutations of IsNewTop: the thread is woken only when the heap was empty, as the
   dispatcher's is; or only when it was not. *)
HeapWasEmpty(due) == eventList = {}
IsNewTopOfOthers(due) == \E f \in eventList : due < cycle[f]

(* The new task is on top of the heap. *)
IsNewTop(due) == \A f \in eventList : due < cycle[f]

(* addEvent(createSchedulerTask(delay, ...)).  A new task is on top only when it
   is due before every other one.  The branch for a task that already has an id
   is never taken: nothing but addEvent sets one.  The signal is sent after the
   unlock and is part of this step, for the same reason as that of addTask. *)
AddEvent(e, delay) ==
  /\ fate[e] = "new"
  /\ now + delay <= MaxTime
  /\ cycle' = [cycle EXCEPT ![e] = now + delay]
  /\ \/ /\ schedulerState = "RUNNING"
        /\ lastEventId' = NextEventId(lastEventId)
        /\ eventId' = [eventId EXCEPT ![e] = NextEventId(lastEventId)]
        /\ eventIds' = eventIds \cup {NextEventId(lastEventId)}
        /\ eventList' = eventList \cup {e}
        /\ NotifyScheduler(IsNewTop(now + delay))
        /\ fate' = [fate EXCEPT ![e] = "armed"]
        /\ freed' = freed
     \/ /\ schedulerState # "RUNNING"
        /\ fate' = [fate EXCEPT ![e] = "lost"]
        /\ freed' = freed \cup {e}
        /\ UNCHANGED <<lastEventId, eventId, eventIds, eventList, eventSignal>>

(* stopEvent(id) by a caller that was given that id for its event e, whatever has
   become of e since.  Nothing changes when it returns false. *)
StopEvent(e) ==
  /\ eventId[e] \in eventIds
  /\ eventIds' = eventIds \ {eventId[e]}
  /\ fate' = [fate EXCEPT ![e] = "stopped"]
  /\ UNCHANGED <<eventList, lastEventId, eventId, cycle>>

SetScheduler(state) == schedulerState' = state

(* Mutation of ClearEvents: the tasks are not deleted. *)
ForgetEvents ==
  /\ freed' = freed
  /\ eventList' = {}
  /\ eventIds' = {}
  /\ fate' = [e \in Events |-> IF fate[e] = "armed" THEN "lost" ELSE fate[e]]
  /\ UNCHANGED <<lastEventId, eventId, cycle>>

(* The critical section of Scheduler::shutdown. *)
ClearEvents ==
  /\ freed' = freed \cup eventList
  /\ eventList' = {}
  /\ eventIds' = {}
  /\ fate' = [e \in Events |-> IF fate[e] = "armed" THEN "lost" ELSE fate[e]]
  /\ UNCHANGED <<lastEventId, eventId, cycle>>

-----------------------------------------------------------------------------
(* The scheduler thread. *)

SchedulerCheck ==
  /\ schedulerPc = "check"
  /\ schedulerPc' = IF schedulerState = "TERMINATED" THEN "exited" ELSE "lock"
  /\ UNCHANGED <<heapVars, dispatcherVars, now, schedulerState, eventSignal,
                 deadline, popped>>

(* The thread has the lock, looks at the heap, and releases the lock by waiting. *)
SchedulerWait ==
  /\ schedulerPc = "lock"
  /\ \/ eventList = {} /\ deadline' = Forever
     \/ \E e \in Tops : deadline' = cycle[e]
  /\ schedulerPc' = "waiting"
  /\ eventSignal' = FALSE
  /\ UNCHANGED <<heapVars, dispatcherVars, now, schedulerState, popped>>

SchedulerWake(spurious) ==
  /\ schedulerPc = "waiting"
  /\ spurious \/ eventSignal
  /\ schedulerPc' = "woken"
  /\ eventSignal' = FALSE
  /\ UNCHANGED <<heapVars, dispatcherVars, now, schedulerState, deadline, popped>>

(* wait_until returns cv_status::timeout when the clock has reached the deadline by
   the time it has the lock again, even if a notification or a spurious wakeup
   ended the wait: that is how libstdc++ computes it for the system clock. *)
SchedulerTimeout ==
  /\ schedulerPc \in {"waiting", "woken"}
  /\ deadline <= now
  /\ schedulerPc' = "timedout"
  /\ UNCHANGED <<heapVars, dispatcherVars, now, schedulerState, eventSignal,
                 deadline, popped>>

SchedulerNoTimeout ==
  /\ schedulerPc = "woken"
  /\ now < deadline
  /\ schedulerPc' = "check"
  /\ UNCHANGED <<heapVars, dispatcherVars, now, schedulerState, eventSignal,
                 deadline, popped>>

(* Mutation of IsWanted: the event runs although it was stopped. *)
AlwaysWanted(e) == TRUE

(* The event has not been stopped. *)
IsWanted(e) == eventId[e] \in eventIds

(* Mutation of EraseId: the id of a fired event stays in the set. *)
KeepId(e) == eventIds' = eventIds

EraseId(e) == eventIds' = eventIds \ {eventId[e]}

(* After a timeout the top of the heap is popped, and handed out unless its id was
   erased by stopEvent. *)
SchedulerPop ==
  /\ schedulerPc = "timedout"
  /\ \E e \in Tops :
       /\ eventList' = eventList \ {e}
       /\ \/ /\ IsWanted(e)
             /\ EraseId(e)
             /\ fate' = [fate EXCEPT ![e] = "fired"]
             /\ popped' = e
             /\ schedulerPc' = "handoff"
             /\ freed' = freed
          \/ /\ ~IsWanted(e)
             /\ freed' = freed \cup {e}
             /\ schedulerPc' = "check"
             /\ UNCHANGED <<eventIds, fate, popped>>
  /\ UNCHANGED <<now, schedulerState, lastEventId, eventId, cycle, eventSignal,
                 deadline, dispatcherState, queueVars, dispatcherPc, current>>

(* top() and pop() of an empty heap: undefined, the thread does nothing any more
   that the model could say. *)
SchedulerPopEmpty ==
  /\ schedulerPc = "timedout"
  /\ eventList = {}
  /\ schedulerPc' = "undefined"
  /\ UNCHANGED <<heapVars, dispatcherVars, now, schedulerState, eventSignal,
                 deadline, popped>>

SchedulerHandOff ==
  /\ schedulerPc = "handoff"
  /\ AddTask(popped, TRUE)
  /\ popped' = Nobody
  /\ schedulerPc' = "check"
  /\ UNCHANGED <<heapVars, now, schedulerState, eventSignal, deadline,
                 dispatcherState, dispatcherPc, current>>

SchedulerLoop ==
  \/ SchedulerCheck
  \/ SchedulerWait
  \/ SchedulerWake(FALSE)
  \/ SchedulerTimeout
  \/ SchedulerNoTimeout
  \/ SchedulerPop
  \/ SchedulerPopEmpty
  \/ SchedulerHandOff

Tick ==
  /\ now < MaxTime
  /\ now' = now + 1
  /\ UNCHANGED <<heapVars, dispatcherVars, schedulerState, eventSignal,
                 schedulerPc, deadline, popped>>

=============================================================================
