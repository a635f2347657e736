------------------------------- MODULE Dispatcher -------------------------------
(***************************************************************************)
(* The task queue of the server (dispatcher.h, dispatcher.cpp).  Every     *)
(* thread may add a task; one thread, the dispatcher, runs them.  This     *)
(* module has the queue, its lock and condition variable, and the loop of  *)
(* the dispatcher thread up to the call of a task.  What a task does is in *)
(* TaskSystem.                                                             *)
(*                                                                         *)
(* A critical section of taskLock is one step.  addTask signals after it   *)
(* has unlocked; the signal is part of the same step here, because a       *)
(* waiter that is signalled late only finds the list it would have found   *)
(* after a spurious wakeup, which the model allows at any time.            *)
(***************************************************************************)
EXTENDS Naturals, Sequences

CONSTANTS Tasks,       \* ordinary Task objects, each allocated once
          TimedTasks,  \* those made with an expiration (addGameTaskTimed)
          Events       \* SchedulerTask objects, each allocated once

(* The tasks that stop the server: setGameState(SHUTDOWN), Game::shutdown as
   the SIGTERM handler posts it and as setGameState posts it, the task of
   Dispatcher::shutdown, and the two nested tasks main posts when it is not
   serving. *)
Control == {"quit", "term", "shutdown", "final", "offline", "offlineShutdown"}

Jobs == Tasks \cup Events \cup Control

Nobody == "none"  \* a task pointer that points at nothing

ASSUME JobsAssumption ==
  /\ TimedTasks \subseteq Tasks
  /\ Tasks \cap Events = {}
  /\ (Tasks \cup Events) \cap Control = {}
  /\ Nobody \notin Jobs

VARIABLES dispatcherState,  \* threadState
          taskList,         \* taskList, the front first
          taskSignal,       \* a notification is on its way to the waiting thread
          dispatcherPc,     \* where the dispatcher thread is
          current,          \* the task it runs
          freed,            \* the tasks that were deleted
          added             \* history: the tasks pushed at the back, in order

queueVars == <<taskList, taskSignal, added>>

dispatcherVars == <<dispatcherState, queueVars, dispatcherPc, current, freed>>

ThreadState == {"RUNNING", "CLOSING", "TERMINATED"}

(* The places up to "run" and the last two are dispatcherThread's, the others are
   in the tasks it runs. *)
DispatcherPc ==
  {"check", "lock", "waiting", "woken", "run", "reading", "kicking",
   "stopScheduler", "stopDispatcher", "clearEvents", "notifyScheduler",
   "shutdownDispatcher", "finish", "exited"}

DispatcherTypeOK ==
  /\ dispatcherState \in ThreadState
  /\ taskList \in Seq(Jobs)
  /\ taskSignal \in BOOLEAN
  /\ dispatcherPc \in DispatcherPc
  /\ current \in Jobs \cup {Nobody}
  /\ freed \subseteq Jobs
  /\ added \in Seq(Jobs)

DispatcherInit ==
  /\ dispatcherState = "RUNNING"
  /\ taskList = <<>>
  /\ taskSignal = FALSE
  /\ dispatcherPc = "check"
  /\ current = Nobody
  /\ freed = {}
  /\ added = <<>>

-----------------------------------------------------------------------------
(* Operations of the queue, called by any thread. *)

NotifyDispatcher(needed) ==
  taskSignal' = (taskSignal \/ (needed /\ dispatcherPc = "waiting"))

(* Mutations of Pushed and of NeedsSignal: every task is pushed at the front; a task
   pushed at the front is not signalled. *)
PushedAtFront(t, pushFront) == <<t>> \o taskList
NoSignalAtFront(pushFront) == taskList = <<>> /\ ~pushFront

Pushed(t, pushFront) == IF pushFront THEN <<t>> \o taskList ELSE Append(taskList, t)

NeedsSignal(pushFront) == taskList = <<>>

AddTask(t, pushFront) ==
  \/ /\ dispatcherState = "RUNNING"
     /\ taskList' = Pushed(t, pushFront)
     /\ NotifyDispatcher(NeedsSignal(pushFront))
     /\ added' = IF pushFront THEN added ELSE Append(added, t)
     /\ freed' = freed
  \/ /\ dispatcherState # "RUNNING"
     /\ freed' = freed \cup {t}
     /\ UNCHANGED queueVars

StopDispatcher == dispatcherState' = "CLOSING"

(* Mutation of ShutdownDispatcher: the last task is dropped like any other. *)
ShutdownWhenRunning == AddTask("final", FALSE)

(* Dispatcher::shutdown pushes its task whatever the state is. *)
ShutdownDispatcher ==
  /\ taskList' = Append(taskList, "final")
  /\ added' = Append(added, "final")
  /\ NotifyDispatcher(TRUE)
  /\ freed' = freed

-----------------------------------------------------------------------------
(* The dispatcher thread. *)

DispatcherCheck ==
  /\ dispatcherPc = "check"
  /\ dispatcherPc' = IF dispatcherState = "TERMINATED" THEN "exited" ELSE "lock"
  /\ UNCHANGED <<dispatcherState, queueVars, current, freed>>

DispatcherWait ==
  /\ dispatcherPc = "lock"
  /\ taskList = <<>>
  /\ dispatcherPc' = "waiting"
  /\ taskSignal' = FALSE
  /\ UNCHANGED <<dispatcherState, taskList, added, current, freed>>

DispatcherWake(spurious) ==
  /\ dispatcherPc = "waiting"
  /\ spurious \/ taskSignal
  /\ dispatcherPc' = "woken"
  /\ taskSignal' = FALSE
  /\ UNCHANGED <<dispatcherState, taskList, added, current, freed>>

DispatcherFindNothing ==
  /\ dispatcherPc = "woken"
  /\ taskList = <<>>
  /\ dispatcherPc' = "check"
  /\ UNCHANGED <<dispatcherState, queueVars, current, freed>>

(* The first task is taken and started. *)
DispatcherTake ==
  /\ dispatcherPc \in {"lock", "woken"}
  /\ taskList # <<>>
  /\ current' = Head(taskList)
  /\ taskList' = Tail(taskList)
  /\ dispatcherPc' = "run"
  /\ UNCHANGED <<dispatcherState, taskSignal, added, freed>>

(* The first task is taken but it has expired: it is deleted unrun. *)
DispatcherSkip ==
  /\ dispatcherPc \in {"lock", "woken"}
  /\ taskList # <<>>
  /\ Head(taskList) \in TimedTasks
  /\ freed' = freed \cup {Head(taskList)}
  /\ taskList' = Tail(taskList)
  /\ dispatcherPc' = "check"
  /\ UNCHANGED <<dispatcherState, taskSignal, added, current>>

(* The call of the task returns and the task is deleted. *)
DispatcherFinish ==
  /\ \/ dispatcherPc = "finish"
     \/ dispatcherPc = "run" /\ current \notin Control
  /\ freed' = freed \cup {current}
  /\ current' = Nobody
  /\ dispatcherPc' = "check"
  /\ UNCHANGED <<dispatcherState, queueVars>>

(* The body of the task that Dispatcher::shutdown pushed. *)
DispatcherTerminate ==
  /\ dispatcherPc = "run"
  /\ current = "final"
  /\ dispatcherState' = "TERMINATED"
  /\ NotifyDispatcher(TRUE)
  /\ dispatcherPc' = "finish"
  /\ UNCHANGED <<taskList, added, current, freed>>

DispatcherLoop ==
  \/ DispatcherCheck
  \/ DispatcherWait
  \/ DispatcherWake(FALSE)
  \/ DispatcherFindNothing
  \/ DispatcherTake
  \/ DispatcherSkip
  \/ DispatcherFinish
  \/ DispatcherTerminate

=============================================================================
