------------------------------- MODULE TaskSystem -------------------------------
(***************************************************************************)
(* The threads of the server together: the dispatcher thread with the      *)
(* bodies of the tasks it runs, the scheduler thread, the main thread that *)
(* serves the network and then joins the two, and the signal handlers.     *)
(*                                                                         *)
(* A task of the game calls addTask, addEvent and stopEvent in any order   *)
(* and number; the tasks that stop the server are written out.  A call of  *)
(* addEvent is two steps, on whichever thread: it reads the id of the task *)
(* it has put in the heap after it released the lock.                      *)
(***************************************************************************)
EXTENDS Scheduler, FiniteSets

CONSTANT Signals,    \* the signals that may arrive: SIGQUIT "quit", SIGTERM "term"
         MaxSignals  \* bound: how many of them do

ASSUME SignalsAssumption == Signals \subseteq {"quit", "term"}

VARIABLES mainPc,           \* where the main thread is
          adding,           \* for each caller, the event whose addEvent has not returned
          quitting,         \* gameState = GAMESTATE_SHUTDOWN
          servicesStopped,  \* the death timer of the io_service is set
          signals           \* the signals received, the bound counts them

systemVars == <<mainPc, adding, quitting, servicesStopped, signals>>

vars == <<dispatcherVars, schedulerVars, systemVars>>

(* The threads that call addEvent. *)
Callers == {"dispatcher", "main"}

(* The program after main has started both threads and the loader has returned. *)
Init ==
  /\ DispatcherInit
  /\ SchedulerInit
  /\ mainPc = "starting"
  /\ adding = [c \in Callers |-> Nobody]
  /\ quitting = FALSE
  /\ servicesStopped = FALSE
  /\ signals = <<>>

Elements(s) == {s[i] : i \in DOMAIN s}

InUse(t) == t \in Elements(added) \cup freed

-----------------------------------------------------------------------------
(* Calls made by the game (by the dispatcher thread, in a task or while it kicks the
   players) and by the main thread while it serves the network. *)

InGame == dispatcherPc = "kicking" \/ (dispatcherPc = "run" /\ current \notin Control)

CallerRuns == InGame \/ mainPc = "serving"

(* g_dispatcher.addTask of an ordinary task. *)
PostTask(t) ==
  /\ CallerRuns
  /\ ~InUse(t)
  /\ AddTask(t, FALSE)
  /\ UNCHANGED <<schedulerVars, dispatcherState, dispatcherPc, current, mainPc,
                 adding, quitting, servicesStopped, signals>>

(* g_scheduler.addEvent by the game: it has still to read the id when it was accepted. *)
TaskAddsEvent(e, delay) ==
  /\ InGame
  /\ AddEvent(e, delay)
  /\ IF schedulerState = "RUNNING"
     THEN dispatcherPc' = "reading" /\ adding' = [adding EXCEPT !["dispatcher"] = e]
     ELSE UNCHANGED <<dispatcherPc, adding>>
  /\ UNCHANGED <<now, schedulerState, schedulerPc, deadline, popped,
                 dispatcherState, queueVars, current, mainPc,
                 quitting, servicesStopped, signals>>

TaskReadsEventId ==
  /\ dispatcherPc = "reading"
  /\ dispatcherPc' = IF current = "quit" THEN "kicking" ELSE "run"
  /\ adding' = [adding EXCEPT !["dispatcher"] = Nobody]
  /\ UNCHANGED <<schedulerVars, dispatcherState, queueVars, current,
                 freed, mainPc, quitting, servicesStopped, signals>>

(* g_scheduler.addEvent by the network thread: ServicePort::onAccept and open. *)
ServiceAddsEvent(e, delay) ==
  /\ mainPc = "serving"
  /\ AddEvent(e, delay)
  /\ IF schedulerState = "RUNNING"
     THEN mainPc' = "reading" /\ adding' = [adding EXCEPT !["main"] = e]
     ELSE UNCHANGED <<mainPc, adding>>
  /\ UNCHANGED <<now, schedulerState, schedulerPc, deadline, popped,
                 dispatcherState, queueVars, dispatcherPc, current,
                 quitting, servicesStopped, signals>>

ServiceReadsEventId ==
  /\ mainPc = "reading"
  /\ mainPc' = "serving"
  /\ adding' = [adding EXCEPT !["main"] = Nobody]
  /\ UNCHANGED <<schedulerVars, dispatcherVars, quitting, servicesStopped, signals>>

(* Nobody has the id of an event before its addEvent has returned. *)
TaskStopsEvent(e) ==
  /\ InGame
  /\ e # adding["main"]
  /\ StopEvent(e)
  /\ UNCHANGED <<now, schedulerState, eventSignal, schedulerPc, deadline, popped,
                 dispatcherVars, systemVars>>

-----------------------------------------------------------------------------
(* The bodies of the tasks that stop the server. *)

(* The handlers of SIGQUIT and SIGTERM post their task.  (An operator's command and
   the global save post setGameState(SHUTDOWN) as well.) *)
Signal(s) ==
  /\ Len(signals) < MaxSignals
  /\ mainPc # "exited"
  /\ signals' = Append(signals, s)
  /\ AddTask(s, FALSE)
  /\ UNCHANGED <<schedulerVars, dispatcherState, dispatcherPc, current, mainPc,
                 adding, quitting, servicesStopped>>

(* Game::setGameState(GAMESTATE_SHUTDOWN): the state is set, and the players are kicked
   until none is left, which a logout script may refuse for ever. *)
QuitBegins ==
  /\ dispatcherPc = "run"
  /\ current = "quit"
  /\ ~quitting
  /\ quitting' = TRUE
  /\ dispatcherPc' = "kicking"
  /\ UNCHANGED <<schedulerVars, dispatcherState, queueVars, current, freed, mainPc,
                 adding, servicesStopped, signals>>

(* When all of them are gone, Game::shutdown is posted.  The first of main's nested
   tasks does the same with the second, at once. *)
PostShutdown(task, next) ==
  /\ dispatcherPc = IF task = "quit" THEN "kicking" ELSE "run"
  /\ current = task
  /\ AddTask(next, FALSE)
  /\ dispatcherPc' = "stopScheduler"
  /\ UNCHANGED <<schedulerVars, dispatcherState, current, systemVars>>

(* setGameState does nothing when that state was entered before. *)
QuitAgain ==
  /\ dispatcherPc = "run"
  /\ current = "quit"
  /\ quitting
  /\ dispatcherPc' = "finish"
  /\ UNCHANGED <<schedulerVars, dispatcherState, queueVars, current,
                 freed, systemVars>>

StopScheduler ==
  /\ dispatcherPc = "stopScheduler"
  /\ SetScheduler("CLOSING")
  /\ dispatcherPc' = "stopDispatcher"
  /\ UNCHANGED <<heapVars, now, eventSignal, schedulerPc, deadline, popped,
                 dispatcherState, queueVars, current, freed, systemVars>>

StopDispatcherToo ==
  /\ dispatcherPc = "stopDispatcher"
  /\ StopDispatcher
  /\ dispatcherPc' = "finish"
  /\ UNCHANGED <<schedulerVars, queueVars, current, freed, systemVars>>

(* Game::shutdown, first what Scheduler::shutdown does in three steps. *)
ShutdownSetsState ==
  /\ dispatcherPc = "run"
  /\ current \in {"term", "shutdown", "offlineShutdown"}
  /\ SetScheduler("TERMINATED")
  /\ dispatcherPc' = "clearEvents"
  /\ UNCHANGED <<heapVars, now, eventSignal, schedulerPc, deadline, popped,
                 dispatcherState, queueVars, current, freed, systemVars>>

ShutdownClearsEvents ==
  /\ dispatcherPc = "clearEvents"
  /\ ClearEvents
  /\ dispatcherPc' = "notifyScheduler"
  /\ UNCHANGED <<now, schedulerState, eventSignal, schedulerPc, deadline, popped,
                 dispatcherState, queueVars, current, systemVars>>

ShutdownNotifies ==
  /\ dispatcherPc = "notifyScheduler"
  /\ NotifyScheduler(TRUE)
  /\ dispatcherPc' = "shutdownDispatcher"
  /\ UNCHANGED <<heapVars, now, schedulerState, schedulerPc, deadline, popped,
                 dispatcherState, queueVars, current, freed, systemVars>>

(* Then Dispatcher::shutdown, and services->stop(), which does nothing unless main is
   serving. *)
ShutdownEnds ==
  /\ dispatcherPc = "shutdownDispatcher"
  /\ ShutdownDispatcher
  /\ servicesStopped' = (servicesStopped \/ mainPc \in {"serving", "reading"})
  /\ dispatcherPc' = "finish"
  /\ UNCHANGED <<schedulerVars, dispatcherState, current, mainPc, adding,
                 quitting, signals>>

TaskBody ==
  \/ TaskReadsEventId
  \/ QuitBegins
  \/ PostShutdown("offline", "offlineShutdown")
  \/ QuitAgain
  \/ StopScheduler
  \/ StopDispatcherToo
  \/ ShutdownSetsState
  \/ ShutdownClearsEvents
  \/ ShutdownNotifies
  \/ ShutdownEnds

-----------------------------------------------------------------------------
(* The main thread. *)

MainServes ==
  /\ mainPc = "starting"
  /\ mainPc' = "serving"
  /\ UNCHANGED <<schedulerVars, dispatcherVars, adding, quitting,
                 servicesStopped, signals>>

MainGoesOffline ==
  /\ mainPc = "starting"
  /\ AddTask("offline", FALSE)
  /\ mainPc' = "joinScheduler"
  /\ UNCHANGED <<schedulerVars, dispatcherState, dispatcherPc, current, adding,
                 quitting, servicesStopped, signals>>

(* The death timer stops the io_service and run() returns. *)
MainStopsServing ==
  /\ mainPc = "serving"
  /\ servicesStopped
  /\ mainPc' = "joinScheduler"
  /\ UNCHANGED <<schedulerVars, dispatcherVars, adding, quitting,
                 servicesStopped, signals>>

MainJoins ==
  /\ \/ /\ mainPc = "joinScheduler"
        /\ schedulerPc = "exited"
        /\ mainPc' = "joinDispatcher"
     \/ /\ mainPc = "joinDispatcher"
        /\ dispatcherPc = "exited"
        /\ mainPc' = "exited"
  /\ UNCHANGED <<schedulerVars, dispatcherVars, adding, quitting,
                 servicesStopped, signals>>

MainThread ==
  MainServes \/ ServiceReadsEventId \/ MainGoesOffline \/ MainStopsServing \/ MainJoins

-----------------------------------------------------------------------------
DispatcherThread ==
  \/ DispatcherLoop /\ UNCHANGED <<schedulerVars, systemVars>>
  \/ TaskBody

SchedulerThread == SchedulerLoop /\ UNCHANGED systemVars

(* What the program may do and need not: calls, signals, the end of the loop that kicks
   the players, spurious wakeups. *)
Choice ==
  \/ \E t \in Tasks : PostTask(t)
  \/ \E e \in Events, d \in 1..MaxDelay :
       TaskAddsEvent(e, d) \/ ServiceAddsEvent(e, d)
  \/ \E e \in Events : TaskStopsEvent(e)
  \/ \E s \in Signals : Signal(s)
  \/ PostShutdown("quit", "shutdown")
  \/ DispatcherWake(TRUE) /\ UNCHANGED <<schedulerVars, systemVars>>
  \/ SchedulerWake(TRUE) /\ UNCHANGED <<dispatcherVars, systemVars>>

Time == Tick /\ UNCHANGED systemVars

Next == DispatcherThread \/ SchedulerThread \/ MainThread \/ Choice \/ Time

Spec == Init /\ [][Next]_vars

(* Each thread is scheduled, and time passes.  That a task returns is part of the
   fairness of the dispatcher thread, as no task of the server waits for another; but
   not that the players are ever all kicked. *)
FairSpec ==
  /\ Spec
  /\ WF_vars(DispatcherThread)
  /\ WF_vars(SchedulerThread)
  /\ WF_vars(MainThread)
  /\ WF_vars(Time)

-----------------------------------------------------------------------------
TypeOK ==
  /\ DispatcherTypeOK
  /\ SchedulerTypeOK
  /\ mainPc \in {"starting", "serving", "reading", "joinScheduler", "joinDispatcher",
                 "exited"}
  /\ adding \in [Callers -> Events \cup {Nobody}]
  /\ quitting \in BOOLEAN
  /\ servicesStopped \in BOOLEAN
  /\ signals \in Seq(Signals)

(* Every task object that was handed to the queues has exactly one owner: the heap,
   the scheduler thread's local variable, one place of the list, the dispatcher
   thread's local variable; or it was deleted, once.  (addTask, addEvent,
   schedulerThread, dispatcherThread and the two shutdowns pass raw pointers on.) *)
Owners(j) ==
  {<<"taskList", i>> : i \in {k \in DOMAIN taskList : taskList[k] = j}}
  \cup {<<o, 0>> : o \in {"eventList" : x \in eventList \cap {j}}
                        \cup {"popped" : x \in {popped} \cap {j}}
                        \cup {"current" : x \in {current} \cap {j}}
                        \cup {"freed" : x \in freed \cap {j}}}

SingleOwner ==
  /\ \A e \in Events : Cardinality(Owners(e)) = IF fate[e] = "new" THEN 0 ELSE 1
  /\ \A t \in Tasks : Cardinality(Owners(t)) = IF InUse(t) THEN 1 ELSE 0

(* An event that has left the scheduler for the dispatcher. *)
OnItsWay(e) == e \in Elements(taskList) \cup {popped, current}

(* No event reaches the dispatcher before it is due, although the thread that pops
   the top of the heap waited for what the top was before it released the lock. *)
NoEarlyFire == \A e \in Events : OnItsWay(e) => cycle[e] <= now

(* When stopEvent has returned true for an event, its task never runs. *)
StoppedNeverRuns == \A e \in Events : fate[e] = "stopped" => ~OnItsWay(e)

(* The scheduler thread does not sleep past an event: whatever was added or stopped
   while it waits, it will be awake when the first event of the heap is due. *)
NoOversleep ==
  schedulerPc = "waiting" /\ ~eventSignal => \A e \in eventList : deadline <= cycle[e]

(* The dispatcher thread does not sleep while there is a task for it, although
   addTask signals only when the list was empty. *)
NoStrandedTask == dispatcherPc = "waiting" /\ taskList # <<>> => taskSignal

(* The tasks that were not events are taken in the order they were accepted in: due
   events overtake them at the front of the list, and behind the events is what is
   left of the tasks that were pushed at the back. *)
FifoTasks ==
  \E n \in 0..Len(taskList), k \in 0..Len(added) :
    /\ \A i \in 1..n : taskList[i] \in Events
    /\ SubSeq(taskList, n + 1, Len(taskList)) = SubSeq(added, k + 1, Len(added))

(* addEvent reads the id of its task after it released the lock.  On the dispatcher
   thread the task is still there, for whoever else could delete it by then is
   kept from it: a fired event waits for this thread, and is not dropped since the
   scheduler stops accepting events before the dispatcher stops accepting tasks.
   The network thread has no such luck: it may read a task that was deleted, though
   only when the scheduler has begun to shut down or the event was already due. *)
ReturnReadsLiveTask ==
  /\ dispatcherPc = "reading" => adding["dispatcher"] \notin freed
  /\ mainPc = "reading" /\ adding["main"] \in freed
       => schedulerState # "RUNNING" \/ cycle[adding["main"]] <= now

(* After SIGQUIT the dispatcher thread ends only when it has taken every ordinary
   task it had accepted (a save or a logout among them); SIGTERM gives no such
   promise, for its task does not stop the dispatcher from accepting tasks behind
   the last one. *)
QuitDrainsTasks ==
  dispatcherState = "TERMINATED" /\ "term" \notin Elements(signals)
    => Elements(taskList) \cap Tasks = {}

(* Every task has one owner, which deletes it once, and addEvent reads one that is
   deleted only on the network thread, at the shutdown or when its event was due. *)
TasksOwned == SingleOwner /\ ReturnReadsLiveTask

(* Tasks are run in their turn, and all of them before the dispatcher thread quits. *)
TasksInTurn == FifoTasks /\ QuitDrainsTasks

(* The scheduler keeps the promise of AlarmService. *)
Alarm == INSTANCE AlarmService WITH accepting <- schedulerState = "RUNNING"

AlarmSpec == Alarm!Spec

-----------------------------------------------------------------------------
(* Once gameState is SHUTDOWN the dispatcher thread ends, whatever is still queued
   and whatever the other threads do, unless it kicks players for ever. *)
Kicking == current = "quit" /\ dispatcherPc \in {"kicking", "reading"}

QuitStopsDispatcher == quitting /\ ~Kicking ~> dispatcherPc = "exited"

(* An event that was accepted does not stay in the heap for ever: it fires, is
   stopped, or is lost at the shutdown. *)
EventsLeave == \A e \in Events : fate[e] = "armed" ~> fate[e] # "armed"

(* schedulerThread: "ok we had a timeout, so there has to be an event we have to
   execute..." (scheduler.cpp:46). *)
TimeoutFindsAnEvent == schedulerPc = "timedout" => eventList # {}

=============================================================================
