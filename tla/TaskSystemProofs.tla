---------------------------- MODULE TaskSystemProofs ----------------------------
(***************************************************************************)
(* What TaskSystem guarantees for every number of tasks and events and for *)
(* every bound.  The inductive invariant is built in layers: the types,    *)
(* the two condition variables, the clock, the ids, the owners of the      *)
(* tasks, and the places of the tasks in the list.                         *)
(***************************************************************************)
EXTENDS TaskSystem, SequenceTheorems, FiniteSetTheorems, TLAPS

-----------------------------------------------------------------------------
(* Types.  A local variable that points at a task does so exactly where the program
   uses it; without that, TypeOK is not inductive. *)

Running == dispatcherPc \notin {"check", "lock", "waiting", "woken", "exited"}

PointersOK ==
  /\ Running <=> current # Nobody
  /\ schedulerPc = "handoff" <=> popped # Nobody

LEMMA AddTaskTypes ==
  ASSUME DispatcherTypeOK, NEW t \in Jobs, NEW front \in BOOLEAN, AddTask(t, front)
  PROVE  /\ taskList' \in Seq(Jobs)
         /\ added' \in Seq(Jobs)
         /\ taskSignal' \in BOOLEAN
         /\ freed' \subseteq Jobs
<1>1. /\ <<t>> \in Seq(Jobs)
      /\ <<t>> \o taskList \in Seq(Jobs)
      /\ Append(taskList, t) \in Seq(Jobs)
      /\ Append(added, t) \in Seq(Jobs)
  BY ConcatProperties, AppendProperties DEF DispatcherTypeOK
<1>2. Pushed(t, front) \in Seq(Jobs)
  BY <1>1 DEF Pushed
<1>3. CASE dispatcherState = "RUNNING"
  BY <1>1, <1>2, <1>3 DEF AddTask, DispatcherTypeOK, NotifyDispatcher, NeedsSignal
<1>4. CASE dispatcherState # "RUNNING"
  BY <1>4 DEF AddTask, DispatcherTypeOK, queueVars
<1>. QED BY <1>3, <1>4

LEMMA AddEventTypes ==
  ASSUME SchedulerTypeOK, freed \subseteq Jobs, NEW e \in Events, NEW d \in 1..MaxDelay, AddEvent(e, d)
  PROVE  /\ eventList' \subseteq Events
         /\ eventIds' \subseteq 1..EventIdMax
         /\ lastEventId' \in 0..EventIdMax
         /\ eventId' \in [Events -> 0..EventIdMax]
         /\ cycle' \in [Events -> 0..MaxTime]
         /\ eventSignal' \in BOOLEAN
         /\ fate' \in [Events -> Fate]
         /\ freed' \subseteq Jobs
<1>1. /\ NextEventId(lastEventId) \in 1..EventIdMax
      /\ now + d \in 0..MaxTime
  BY SchedulerAssumption DEF SchedulerTypeOK, NextEventId, AddEvent
<1>2. {"armed", "lost"} \subseteq Fate
  BY DEF Fate
<1>3. CASE schedulerState = "RUNNING"
  <2>1. eventSignal' \in BOOLEAN
    BY <1>3, Zenon DEF AddEvent, SchedulerTypeOK, NotifyScheduler, IsNewTop
  <2>2. /\ cycle' = [cycle EXCEPT ![e] = now + d]
        /\ lastEventId' = NextEventId(lastEventId)
        /\ eventId' = [eventId EXCEPT ![e] = NextEventId(lastEventId)]
        /\ eventIds' = eventIds \cup {NextEventId(lastEventId)}
        /\ eventList' = eventList \cup {e}
        /\ fate' = [fate EXCEPT ![e] = "armed"]
        /\ freed' = freed
    BY <1>3, Zenon DEF AddEvent
  <2>3. /\ cycle' \in [Events -> 0..MaxTime]
        /\ eventId' \in [Events -> 0..EventIdMax]
        /\ fate' \in [Events -> Fate]
    BY <2>2, <1>1, <1>2 DEF SchedulerTypeOK
  <2>4. lastEventId' \in 0..EventIdMax
    BY <2>2, <1>1, SchedulerAssumption
  <2>5. eventIds' \subseteq 1..EventIdMax
    BY <2>2, <1>1 DEF SchedulerTypeOK
  <2>. QED BY <2>1, <2>2, <2>3, <2>4, <2>5 DEF SchedulerTypeOK
<1>4. CASE schedulerState # "RUNNING"
  BY <1>1, <1>2, <1>4 DEF AddEvent, SchedulerTypeOK, Jobs
<1>. QED BY <1>3, <1>4

LEMMA DispatcherTypes ==
  ASSUME DispatcherTypeOK, Running <=> current # Nobody,
         DispatcherLoop \/ DispatcherWake(TRUE)
  PROVE  DispatcherTypeOK' /\ (Running <=> current # Nobody)'
<1>. USE JobsAssumption DEF DispatcherTypeOK, DispatcherPc, ThreadState, queueVars, Running
<1>1. CASE DispatcherCheck
  BY <1>1 DEF DispatcherCheck
<1>2. CASE DispatcherWait
  BY <1>2 DEF DispatcherWait
<1>3. ASSUME NEW spurious \in BOOLEAN, DispatcherWake(spurious)
      PROVE  DispatcherTypeOK' /\ (Running <=> current # Nobody)'
  BY <1>3 DEF DispatcherWake
<1>4. CASE DispatcherFindNothing
  BY <1>4 DEF DispatcherFindNothing
<1>5. ASSUME taskList # <<>>
      PROVE  Head(taskList) \in Jobs /\ Tail(taskList) \in Seq(Jobs)
  BY <1>5, HeadTailProperties
<1>6. CASE DispatcherTake
  BY <1>5, <1>6 DEF DispatcherTake
<1>7. CASE DispatcherSkip
  BY <1>5, <1>7 DEF DispatcherSkip
<1>8. CASE DispatcherFinish
  <2>1. current \in Jobs
    BY <1>8 DEF DispatcherFinish
  <2>. QED BY <2>1, <1>8 DEF DispatcherFinish
<1>9. CASE DispatcherTerminate
  <2>1. taskSignal' \in BOOLEAN
    BY <1>9, Zenon DEF DispatcherTerminate, NotifyDispatcher
  <2>. QED BY <2>1, <1>9 DEF DispatcherTerminate
<1>. QED
  BY <1>1, <1>2, <1>3, <1>4, <1>6, <1>7, <1>8, <1>9, Zenon DEF DispatcherLoop

LEMMA SchedulerTypes ==
  ASSUME DispatcherTypeOK, SchedulerTypeOK, PointersOK,
         SchedulerLoop \/ SchedulerWake(TRUE) \/ Tick
  PROVE  DispatcherTypeOK' /\ SchedulerTypeOK' /\ PointersOK'
<1>. USE DEF DispatcherTypeOK, SchedulerTypeOK, PointersOK, Running, SchedulerPc,
             dispatcherVars, queueVars, heapVars
<1>1. CASE SchedulerCheck
  BY <1>1 DEF SchedulerCheck
<1>2. CASE SchedulerWait
  <2>1. deadline' \in 0..Forever
    BY <1>2, SchedulerAssumption DEF SchedulerWait, Tops, Forever
  <2>. QED BY <2>1, <1>2 DEF SchedulerWait
<1>3. ASSUME NEW spurious \in BOOLEAN, SchedulerWake(spurious)
      PROVE  DispatcherTypeOK' /\ SchedulerTypeOK' /\ PointersOK'
  BY <1>3 DEF SchedulerWake
<1>4. CASE SchedulerTimeout
  BY <1>4 DEF SchedulerTimeout
<1>5. CASE SchedulerNoTimeout
  BY <1>5 DEF SchedulerNoTimeout
<1>6. CASE SchedulerPop
  <2>1. PICK e \in Tops :
          /\ eventList' = eventList \ {e}
          /\ \/ /\ EraseId(e)
                /\ fate' = [fate EXCEPT ![e] = "fired"]
                /\ popped' = e
                /\ schedulerPc' = "handoff"
                /\ freed' = freed
             \/ /\ freed' = freed \cup {e}
                /\ schedulerPc' = "check"
                /\ UNCHANGED <<eventIds, fate, popped>>
    BY <1>6 DEF SchedulerPop
  <2>2. e \in Events /\ e \in Jobs /\ e # Nobody
    BY JobsAssumption DEF Tops, Jobs
  <2>3. eventIds' \subseteq 1..EventIdMax /\ fate' \in [Events -> Fate]
    BY <2>1, <2>2 DEF EraseId, Fate
  <2>4. SchedulerTypeOK' /\ DispatcherTypeOK'
    BY <2>1, <2>2, <2>3, <1>6 DEF SchedulerPop
  <2>5. PointersOK'
    BY <2>1, <2>2, <1>6 DEF SchedulerPop
  <2>. QED BY <2>4, <2>5
<1>7. CASE SchedulerPopEmpty
  BY <1>7 DEF SchedulerPopEmpty
<1>8. CASE SchedulerHandOff
  <2>1. popped \in Jobs
    BY <1>8 DEF SchedulerHandOff, Jobs
  <2>2. /\ taskList' \in Seq(Jobs)
        /\ added' \in Seq(Jobs)
        /\ taskSignal' \in BOOLEAN
        /\ freed' \subseteq Jobs
    BY <1>8, <2>1, AddTaskTypes DEF SchedulerHandOff
  <2>. QED BY <1>8, <2>2 DEF SchedulerHandOff
<1>9. CASE Tick
  <2>1. now' \in 0..MaxTime
    BY <1>9, SchedulerAssumption DEF Tick
  <2>. QED BY <2>1, <1>9 DEF Tick
<1>. QED
  BY <1>1, <1>2, <1>3, <1>4, <1>5, <1>6, <1>7, <1>8, <1>9, Zenon DEF SchedulerLoop

(* The calls and the bodies of the tasks, on the dispatcher thread and elsewhere. *)
LEMMA CallTypes ==
  ASSUME TypeOK, PointersOK,
         \/ \E t \in Tasks : PostTask(t)
         \/ \E e \in Events, d \in 1..MaxDelay :
              TaskAddsEvent(e, d) \/ ServiceAddsEvent(e, d)
         \/ \E e \in Events : TaskStopsEvent(e)
         \/ \E s \in Signals : Signal(s)
  PROVE  TypeOK' /\ PointersOK'
<1>. USE DEF TypeOK, PointersOK, Running, schedulerVars, heapVars, systemVars
<1>1. ASSUME NEW t \in Tasks, PostTask(t)
      PROVE  TypeOK' /\ PointersOK'
  <2>1. AddTask(t, FALSE) /\ t \in Jobs
    BY <1>1 DEF PostTask, Jobs
  <2>2. /\ taskList' \in Seq(Jobs)
        /\ added' \in Seq(Jobs)
        /\ taskSignal' \in BOOLEAN
        /\ freed' \subseteq Jobs
    BY <2>1, AddTaskTypes
  <2>3. DispatcherTypeOK'
    BY <2>2, <1>1 DEF PostTask, DispatcherTypeOK
  <2>4. SchedulerTypeOK'
    BY <1>1 DEF PostTask, SchedulerTypeOK
  <2>. QED BY <2>3, <2>4, <1>1 DEF PostTask
<1>2. ASSUME NEW e \in Events, NEW d \in 1..MaxDelay, AddEvent(e, d),
             TaskAddsEvent(e, d) \/ ServiceAddsEvent(e, d)
      PROVE  TypeOK' /\ PointersOK'
  <2>1. freed \subseteq Jobs
    BY DEF DispatcherTypeOK
  <2>2. /\ eventList' \subseteq Events
        /\ eventIds' \subseteq 1..EventIdMax
        /\ lastEventId' \in 0..EventIdMax
        /\ eventId' \in [Events -> 0..EventIdMax]
        /\ cycle' \in [Events -> 0..MaxTime]
        /\ eventSignal' \in BOOLEAN
        /\ fate' \in [Events -> Fate]
        /\ freed' \subseteq Jobs
    BY <1>2, <2>1, AddEventTypes
  <2>3. SchedulerTypeOK'
    BY <2>2, <1>2 DEF TaskAddsEvent, ServiceAddsEvent, SchedulerTypeOK
  <2>4. DispatcherTypeOK'
    BY <2>2, <1>2
    DEF TaskAddsEvent, ServiceAddsEvent, DispatcherTypeOK, DispatcherPc, queueVars
  <2>5. PointersOK'
    BY <1>2 DEF TaskAddsEvent, ServiceAddsEvent, InGame
  <2>6. /\ mainPc' \in {mainPc, "reading"}
        /\ UNCHANGED <<quitting, servicesStopped, signals>>
    BY <1>2 DEF TaskAddsEvent, ServiceAddsEvent
  <2>7. adding' \in [Callers -> Events \cup {Nobody}]
    BY <1>2 DEF TaskAddsEvent, ServiceAddsEvent, Callers
  <2>. QED BY <2>3, <2>4, <2>5, <2>6, <2>7
<1>3. ASSUME NEW e \in Events, TaskStopsEvent(e)
      PROVE  TypeOK' /\ PointersOK'
  <2>1. eventIds' \subseteq eventIds /\ fate' \in [Events -> Fate]
    BY <1>3 DEF TaskStopsEvent, StopEvent, SchedulerTypeOK, Fate
  <2>2. SchedulerTypeOK'
    BY <2>1, <1>3 DEF TaskStopsEvent, StopEvent, SchedulerTypeOK
  <2>3. DispatcherTypeOK'
    BY <1>3 DEF TaskStopsEvent, DispatcherTypeOK, dispatcherVars, queueVars
  <2>. QED BY <2>2, <2>3, <1>3 DEF TaskStopsEvent, dispatcherVars
<1>4. ASSUME NEW s \in Signals, Signal(s)
      PROVE  TypeOK' /\ PointersOK'
  <2>1. AddTask(s, FALSE) /\ s \in Jobs
    BY <1>4, SignalsAssumption DEF Signal, Jobs, Control
  <2>2. /\ taskList' \in Seq(Jobs)
        /\ added' \in Seq(Jobs)
        /\ taskSignal' \in BOOLEAN
        /\ freed' \subseteq Jobs
    BY <2>1, AddTaskTypes
  <2>3. DispatcherTypeOK'
    BY <2>2, <1>4 DEF Signal, DispatcherTypeOK
  <2>4. SchedulerTypeOK'
    BY <1>4 DEF Signal, SchedulerTypeOK
  <2>5. signals' \in Seq(Signals)
    BY <1>4, AppendProperties DEF Signal
  <2>. QED BY <2>3, <2>4, <2>5, <1>4 DEF Signal
<1>. QED
  BY <1>1, <1>2, <1>3, <1>4 DEF TaskAddsEvent, ServiceAddsEvent

LEMMA PostTypes ==
  ASSUME TypeOK, PointersOK, NEW task \in Control, NEW next \in Control,
         PostShutdown(task, next)
  PROVE  TypeOK' /\ PointersOK'
<1>. USE DEF TypeOK, PointersOK, Running, DispatcherPc, schedulerVars, heapVars, systemVars
<1>1. AddTask(next, FALSE) /\ next \in Jobs
  BY DEF PostShutdown, Jobs
<1>2. /\ taskList' \in Seq(Jobs)
      /\ added' \in Seq(Jobs)
      /\ taskSignal' \in BOOLEAN
      /\ freed' \subseteq Jobs
  BY <1>1, AddTaskTypes
<1>3. DispatcherTypeOK'
  BY <1>2 DEF PostShutdown, DispatcherTypeOK
<1>4. SchedulerTypeOK'
  BY DEF PostShutdown, SchedulerTypeOK
<1>5. PointersOK'
  BY DEF PostShutdown
<1>. QED BY <1>3, <1>4, <1>5 DEF PostShutdown

LEMMA BodyTypes ==
  ASSUME TypeOK, PointersOK, TaskBody
  PROVE  TypeOK' /\ PointersOK'
<1>. USE DEF TypeOK, PointersOK, Running, DispatcherPc, ThreadState, queueVars,
             schedulerVars, heapVars, systemVars
<1>1. CASE TaskReadsEventId
  <2>1. dispatcherPc' \in {"run", "kicking"} /\ current' = current
    BY <1>1 DEF TaskReadsEventId
  <2>2. adding' \in [Callers -> Events \cup {Nobody}]
    BY <1>1 DEF TaskReadsEventId, Callers
  <2>. QED BY <1>1, <2>1, <2>2 DEF TaskReadsEventId, DispatcherTypeOK, SchedulerTypeOK
<1>2. CASE QuitBegins
  BY <1>2 DEF QuitBegins, DispatcherTypeOK, SchedulerTypeOK
<1>3. CASE QuitAgain
  BY <1>3 DEF QuitAgain, DispatcherTypeOK, SchedulerTypeOK
<1>4. CASE StopScheduler
  BY <1>4 DEF StopScheduler, SetScheduler, DispatcherTypeOK, SchedulerTypeOK
<1>5. CASE StopDispatcherToo
  BY <1>5 DEF StopDispatcherToo, StopDispatcher, DispatcherTypeOK, SchedulerTypeOK
<1>6. CASE ShutdownSetsState
  BY <1>6 DEF ShutdownSetsState, SetScheduler, DispatcherTypeOK, SchedulerTypeOK
<1>7. CASE ShutdownClearsEvents
  <2>1. fate' \in [Events -> Fate] /\ freed' \subseteq Jobs
    BY <1>7 DEF ShutdownClearsEvents, ClearEvents, DispatcherTypeOK,
                SchedulerTypeOK, Fate, Jobs
  <2>. QED
    BY <2>1, <1>7
    DEF ShutdownClearsEvents, ClearEvents, DispatcherTypeOK, SchedulerTypeOK
<1>8. CASE ShutdownNotifies
  <2>1. eventSignal' \in BOOLEAN
    BY <1>8, Zenon DEF ShutdownNotifies, NotifyScheduler, SchedulerTypeOK
  <2>. QED BY <2>1, <1>8 DEF ShutdownNotifies, DispatcherTypeOK, SchedulerTypeOK
<1>9. CASE ShutdownEnds
  <2>1. taskSignal' \in BOOLEAN
    BY <1>9, Zenon
    DEF ShutdownEnds, ShutdownDispatcher, NotifyDispatcher, DispatcherTypeOK
  <2>2. servicesStopped' \in BOOLEAN
    BY <1>9, Zenon DEF ShutdownEnds
  <2>3. taskList' \in Seq(Jobs) /\ added' \in Seq(Jobs)
    BY <1>9, AppendProperties
    DEF ShutdownEnds, ShutdownDispatcher, DispatcherTypeOK, Jobs, Control
  <2>4. DispatcherTypeOK'
    BY <2>1, <2>3, <1>9 DEF ShutdownEnds, ShutdownDispatcher, DispatcherTypeOK
  <2>5. SchedulerTypeOK'
    BY <1>9 DEF ShutdownEnds, SchedulerTypeOK
  <2>. QED
    BY <2>2, <2>4, <2>5, <1>9 DEF ShutdownEnds
<1>. QED
  BY <1>1, <1>2, <1>3, <1>4, <1>5, <1>6, <1>7, <1>8, <1>9, PostTypes DEF TaskBody, Control

LEMMA MainTypes ==
  ASSUME TypeOK, PointersOK, MainThread
  PROVE  TypeOK' /\ PointersOK'
<1>. USE DEF TypeOK, PointersOK, Running, queueVars, dispatcherVars, schedulerVars,
             heapVars
<1>1. CASE MainServes \/ MainStopsServing \/ MainJoins
  <2>1. /\ UNCHANGED <<schedulerVars, dispatcherVars, adding, quitting, servicesStopped, signals>>
        /\ mainPc' \in {"serving", "joinScheduler", "joinDispatcher", "exited"}
    BY <1>1 DEF MainServes, MainStopsServing, MainJoins
  <2>2. DispatcherTypeOK' /\ SchedulerTypeOK' /\ PointersOK'
    BY <2>1 DEF DispatcherTypeOK, SchedulerTypeOK
  <2>. QED BY <2>1, <2>2
<1>2. CASE MainGoesOffline
  <2>1. AddTask("offline", FALSE) /\ "offline" \in Jobs
    BY <1>2 DEF MainGoesOffline, Jobs, Control
  <2>2. /\ taskList' \in Seq(Jobs)
        /\ added' \in Seq(Jobs)
        /\ taskSignal' \in BOOLEAN
        /\ freed' \subseteq Jobs
    BY <2>1, AddTaskTypes
  <2>. QED BY <2>2, <1>2 DEF MainGoesOffline, DispatcherTypeOK, SchedulerTypeOK
<1>3. CASE ServiceReadsEventId
  <2>1. /\ UNCHANGED <<schedulerVars, dispatcherVars, quitting, servicesStopped, signals>>
        /\ mainPc' = "serving"
        /\ adding' \in [Callers -> Events \cup {Nobody}]
    BY <1>3 DEF ServiceReadsEventId, Callers
  <2>2. DispatcherTypeOK' /\ SchedulerTypeOK' /\ PointersOK'
    BY <2>1 DEF DispatcherTypeOK, SchedulerTypeOK
  <2>. QED BY <2>1, <2>2
<1>. QED BY <1>1, <1>2, <1>3 DEF MainThread

LEMMA StepTypes ==
  ASSUME TypeOK, PointersOK, [Next]_vars
  PROVE  TypeOK' /\ PointersOK'
<1>1. CASE UNCHANGED vars
  BY <1>1
  DEF vars, TypeOK, PointersOK, Running, DispatcherTypeOK, SchedulerTypeOK,
      dispatcherVars, queueVars, schedulerVars, heapVars, systemVars
<1>2. CASE DispatcherThread
  <2>1. CASE DispatcherLoop /\ UNCHANGED <<schedulerVars, systemVars>>
    BY <2>1, DispatcherTypes
    DEF TypeOK, PointersOK, SchedulerTypeOK, schedulerVars, heapVars, systemVars
  <2>. QED BY <1>2, <2>1, BodyTypes DEF DispatcherThread
<1>3. CASE SchedulerThread
  BY <1>3, SchedulerTypes DEF SchedulerThread, TypeOK, systemVars
<1>4. CASE MainThread
  BY <1>4, MainTypes
<1>5. CASE Choice
  <2>1. CASE DispatcherWake(TRUE) /\ UNCHANGED <<schedulerVars, systemVars>>
    BY <2>1, DispatcherTypes
    DEF TypeOK, PointersOK, SchedulerTypeOK, schedulerVars, heapVars, systemVars
  <2>2. CASE SchedulerWake(TRUE) /\ UNCHANGED <<dispatcherVars, systemVars>>
    BY <2>2, SchedulerTypes DEF TypeOK, systemVars
  <2>3. CASE PostShutdown("quit", "shutdown")
    BY <2>3, PostTypes DEF Control
  <2>. QED BY <1>5, <2>1, <2>2, <2>3, CallTypes DEF Choice
<1>6. CASE Time
  BY <1>6, SchedulerTypes DEF Time, TypeOK, systemVars
<1>. QED BY <1>1, <1>2, <1>3, <1>4, <1>5, <1>6 DEF Next

LEMMA InitTypes == Init => TypeOK /\ PointersOK
<1>. SUFFICES ASSUME Init PROVE TypeOK /\ PointersOK
  OBVIOUS
<1>1. DispatcherTypeOK
  <2>1. <<>> \in Seq(Jobs)
    OBVIOUS
  <2>. QED
    BY <2>1 DEF Init, DispatcherInit, DispatcherTypeOK, ThreadState, DispatcherPc
<1>2. eventId \in [Events -> 0..EventIdMax] /\ cycle \in [Events -> 0..MaxTime]
  BY SchedulerAssumption DEF Init, SchedulerInit
<1>3. deadline \in 0..Forever /\ now \in 0..MaxTime /\ lastEventId \in 0..EventIdMax
  BY SchedulerAssumption DEF Init, SchedulerInit, Forever
<1>4. SchedulerTypeOK
  BY <1>2, <1>3 DEF Init, SchedulerInit, SchedulerTypeOK, ThreadState, SchedulerPc, Fate
<1>5. PointersOK
  BY DEF Init, DispatcherInit, SchedulerInit, PointersOK, Running
<1>6. /\ mainPc = "starting"
      /\ adding \in [Callers -> Events \cup {Nobody}]
      /\ quitting = FALSE
      /\ servicesStopped = FALSE
      /\ signals = <<>>
  BY DEF Init
<1>7. signals \in Seq(Signals)
  BY <1>6
<1>. QED BY <1>1, <1>4, <1>5, <1>6, <1>7 DEF TypeOK

(* Every variable keeps the type that the declarations of the program give it, and
   a pointer is used only where it points at a task. *)
THEOREM TypeCorrect == Spec => []TypeOK
<1>1. Init => TypeOK /\ PointersOK
  BY InitTypes
<1>2. (TypeOK /\ PointersOK) /\ [Next]_vars => (TypeOK /\ PointersOK)'
  BY StepTypes
<1>. QED BY <1>1, <1>2, PTL DEF Spec

-----------------------------------------------------------------------------
(* The dispatcher thread is told of what it would otherwise sleep through: a step
   that leaves it where it is either leaves the queue alone or goes through addTask,
   and a step that sends it to sleep has seen the queue empty. *)
LEMMA AddTaskSignals ==
  ASSUME TypeOK, NoStrandedTask, NEW t, NEW front, AddTask(t, front),
         dispatcherPc' = dispatcherPc
  PROVE  NoStrandedTask'
<1>1. CASE dispatcherState # "RUNNING"
  BY <1>1 DEF AddTask, NoStrandedTask, queueVars
<1>2. CASE dispatcherState = "RUNNING"
  <2>1. taskSignal' = (taskSignal \/ (taskList = <<>> /\ dispatcherPc = "waiting"))
    BY <1>2, Zenon DEF AddTask, NotifyDispatcher, NeedsSignal
  <2>2. dispatcherPc = "waiting" => taskSignal'
    BY <2>1, Zenon DEF NoStrandedTask
  <2>. QED BY <2>2 DEF NoStrandedTask
<1>. QED BY <1>1, <1>2

LEMMA StepSignals ==
  ASSUME TypeOK, NoStrandedTask, [Next]_vars
  PROVE  NoStrandedTask'
<1>. USE DEF queueVars, dispatcherVars
<1>1. ASSUME UNCHANGED <<taskList, taskSignal, dispatcherPc>> PROVE NoStrandedTask'
  BY <1>1 DEF NoStrandedTask
<1>2. ASSUME dispatcherPc' # "waiting" PROVE NoStrandedTask'
  BY <1>2 DEF NoStrandedTask
<1>3. CASE UNCHANGED vars
  BY <1>3, <1>1 DEF vars
<1>4. ASSUME DispatcherLoop \/ DispatcherWake(TRUE) PROVE NoStrandedTask'
  <2>1. CASE DispatcherWait
    BY <2>1 DEF DispatcherWait, NoStrandedTask
  <2>2. CASE ~DispatcherWait
    <3>1. dispatcherPc' # "waiting"
      BY <1>4, <2>2
      DEF DispatcherLoop, DispatcherCheck, DispatcherWake, DispatcherFindNothing,
          DispatcherTake, DispatcherSkip, DispatcherFinish, DispatcherTerminate
    <3>. QED BY <3>1, <1>2
  <2>. QED BY <2>1, <2>2
<1>5. CASE TaskBody
  <2>1. dispatcherPc' # "waiting"
    BY <1>5
    DEF TaskBody, TaskReadsEventId, QuitBegins, PostShutdown, QuitAgain, StopScheduler,
        StopDispatcherToo, ShutdownSetsState, ShutdownClearsEvents, ShutdownNotifies,
        ShutdownEnds
  <2>. QED BY <2>1, <1>2
<1>6. CASE SchedulerLoop \/ SchedulerWake(TRUE) \/ Tick
  <2>1. CASE SchedulerHandOff
    BY <2>1, AddTaskSignals DEF SchedulerHandOff
  <2>2. CASE ~SchedulerHandOff
    <3>1. UNCHANGED <<taskList, taskSignal, dispatcherPc>>
      BY <1>6, <2>2
      DEF SchedulerLoop, SchedulerCheck, SchedulerWait, SchedulerWake,
          SchedulerTimeout, SchedulerNoTimeout, SchedulerPop, SchedulerPopEmpty, Tick
    <3>. QED BY <3>1, <1>1
  <2>. QED BY <2>1, <2>2
<1>7. CASE MainThread
  <2>1. CASE MainGoesOffline
    BY <2>1, AddTaskSignals DEF MainGoesOffline
  <2>2. CASE ~MainGoesOffline
    <3>1. UNCHANGED <<taskList, taskSignal, dispatcherPc>>
      BY <1>7, <2>2
      DEF MainThread, MainServes, ServiceReadsEventId, MainStopsServing, MainJoins
    <3>. QED BY <3>1, <1>1
  <2>. QED BY <2>1, <2>2
<1>8. ASSUME NEW t \in Tasks, PostTask(t) PROVE NoStrandedTask'
  BY <1>8, AddTaskSignals DEF PostTask
<1>9. ASSUME NEW s \in Signals, Signal(s) PROVE NoStrandedTask'
  BY <1>9, AddTaskSignals DEF Signal
<1>10. ASSUME NEW e \in Events, NEW d \in 1..MaxDelay, TaskAddsEvent(e, d) PROVE NoStrandedTask'
  <2>1. UNCHANGED <<taskList, taskSignal>> /\ dispatcherPc' # "waiting"
    BY <1>10 DEF TaskAddsEvent, InGame
  <2>. QED BY <2>1, <1>2
<1>11. ASSUME NEW e \in Events, NEW d \in 1..MaxDelay,
              ServiceAddsEvent(e, d) \/ TaskStopsEvent(e)
       PROVE  NoStrandedTask'
  BY <1>11, <1>1 DEF ServiceAddsEvent, TaskStopsEvent
<1>12. CASE Choice
  <2>1. CASE \E e \in Events : TaskStopsEvent(e)
    <3>1. PICK e \in Events : TaskStopsEvent(e)
      BY <2>1
    <3>2. UNCHANGED <<taskList, taskSignal, dispatcherPc>>
      BY <3>1 DEF TaskStopsEvent
    <3>. QED BY <3>2, <1>1
  <2>2. CASE SchedulerWake(TRUE) /\ UNCHANGED <<dispatcherVars, systemVars>>
    BY <2>2, <1>6
  <2>3. CASE PostShutdown("quit", "shutdown")
    <3>1. dispatcherPc' # "waiting"
      BY <2>3 DEF PostShutdown
    <3>. QED BY <3>1, <1>2
  <2>. QED BY <1>12, <2>1, <2>2, <2>3, <1>4, <1>8, <1>9, <1>10, <1>11, Zenon DEF Choice
<1>13. CASE DispatcherThread \/ SchedulerThread \/ Time
  BY <1>13, <1>4, <1>5, <1>6 DEF DispatcherThread, SchedulerThread, Time
<1>. QED BY <1>3, <1>7, <1>12, <1>13, Zenon DEF Next

(* No wakeup of the dispatcher thread is lost: it does not sleep on a queue that
   holds a task, whoever put it there and however often the thread woke for nothing,
   although addTask signals only when it finds the queue empty. *)
THEOREM NoneStranded == Spec => []NoStrandedTask
<1>1. Init => TypeOK /\ PointersOK /\ NoStrandedTask
  <2>1. Init => NoStrandedTask
    BY DEF Init, DispatcherInit, NoStrandedTask
  <2>. QED BY <2>1, InitTypes
<1>2. /\ TypeOK /\ PointersOK /\ NoStrandedTask
      /\ [Next]_vars
      => (TypeOK /\ PointersOK /\ NoStrandedTask)'
  BY StepTypes, StepSignals
<1>. QED BY <1>1, <1>2, PTL DEF Spec

-----------------------------------------------------------------------------
(* What the steps do to the queue of the dispatcher, as a set. *)

LEMMA ElementsOfPushed ==
  ASSUME NEW s \in Seq(Jobs), NEW x \in Jobs
  PROVE  /\ Elements(Append(s, x)) = Elements(s) \cup {x}
         /\ Elements(<<x>> \o s) = Elements(s) \cup {x}
<1>1. Elements(Append(s, x)) = Elements(s) \cup {x}
  <2>1. /\ Len(Append(s, x)) = Len(s) + 1
        /\ \A i \in 1..Len(s) : Append(s, x)[i] = s[i]
        /\ Append(s, x)[Len(s) + 1] = x
    BY AppendProperties
  <2>2. DOMAIN s = 1..Len(s) /\ DOMAIN Append(s, x) = 1..(Len(s) + 1)
    BY <2>1, AppendProperties
  <2>. QED BY <2>1, <2>2 DEF Elements
<1>2. Elements(<<x>> \o s) = Elements(s) \cup {x}
  <2>1. /\ Len(<<x>> \o s) = Len(s) + 1
        /\ (<<x>> \o s)[1] = x
        /\ \A i \in 2..(Len(s) + 1) : (<<x>> \o s)[i] = s[i - 1]
    BY ConcatProperties
  <2>2. DOMAIN s = 1..Len(s) /\ DOMAIN (<<x>> \o s) = 1..(Len(s) + 1)
    BY <2>1, ConcatProperties
  <2>3. \A i \in 1..Len(s) : i + 1 \in 2..(Len(s) + 1) /\ (<<x>> \o s)[i + 1] = s[i]
    BY <2>1
  <2>4. x \in Elements(<<x>> \o s)
    BY <2>1, <2>2 DEF Elements
  <2>5. \A i \in 1..Len(s) : s[i] \in Elements(<<x>> \o s)
    <3>1. SUFFICES ASSUME NEW i \in 1..Len(s)
                   PROVE  s[i] \in Elements(<<x>> \o s)
      OBVIOUS
    <3>2. i + 1 \in DOMAIN (<<x>> \o s) /\ (<<x>> \o s)[i + 1] = s[i]
      BY <2>2, <2>3
    <3>. QED BY <3>2, Zenon DEF Elements
  <2>6. \A i \in 1..(Len(s) + 1) : (<<x>> \o s)[i] \in Elements(s) \cup {x}
    BY <2>1, <2>2 DEF Elements
  <2>. QED BY <2>2, <2>4, <2>5, <2>6 DEF Elements
<1>. QED BY <1>1, <1>2

LEMMA ElementsOfTaken ==
  ASSUME NEW s \in Seq(Jobs), s # <<>>
  PROVE  /\ Head(s) \in Elements(s)
         /\ Elements(Tail(s)) \subseteq Elements(s)
<1>1. /\ Len(s) \in Nat \ {0}
      /\ Tail(s) \in Seq(Jobs)
      /\ Len(Tail(s)) = Len(s) - 1
      /\ \A i \in 1..(Len(s) - 1) : Tail(s)[i] = s[i + 1]
      /\ Head(s) = s[1]
  BY HeadTailProperties, EmptySeq
<1>2. DOMAIN s = 1..Len(s) /\ DOMAIN Tail(s) = 1..(Len(s) - 1)
  BY <1>1
<1>. QED BY <1>1, <1>2 DEF Elements

LEMMA AddTaskElements ==
  ASSUME DispatcherTypeOK, NEW t \in Jobs, NEW front \in BOOLEAN, AddTask(t, front)
  PROVE  Elements(taskList') \subseteq Elements(taskList) \cup {t}
<1>1. CASE dispatcherState = "RUNNING"
  <2>1. taskList' = Pushed(t, front)
    BY <1>1, Zenon DEF AddTask
  <2>. QED BY <2>1, ElementsOfPushed DEF Pushed, DispatcherTypeOK
<1>2. CASE dispatcherState # "RUNNING"
  BY <1>2 DEF AddTask, queueVars
<1>. QED BY <1>1, <1>2

LEMMA FinalElements ==
  ASSUME DispatcherTypeOK
  PROVE  Elements(Append(taskList, "final")) = Elements(taskList) \cup {"final"}
<1>1. taskList \in Seq(Jobs) /\ "final" \in Jobs
  BY DEF DispatcherTypeOK, Jobs, Control
<1>. QED BY <1>1, ElementsOfPushed

-----------------------------------------------------------------------------
(* The timers.  Most steps are quiet: they leave the heap, the clock and the
   scheduler thread alone. *)

QuietStep ==
  \/ DispatcherLoop /\ UNCHANGED <<schedulerVars, systemVars>>
  \/ DispatcherWake(TRUE) /\ UNCHANGED <<schedulerVars, systemVars>>
  \/ \E t \in Tasks : PostTask(t)
  \/ \E e \in Events : TaskStopsEvent(e)
  \/ \E s \in Signals : Signal(s)
  \/ TaskReadsEventId
  \/ QuitBegins
  \/ PostShutdown("quit", "shutdown")
  \/ PostShutdown("offline", "offlineShutdown")
  \/ QuitAgain
  \/ StopScheduler
  \/ StopDispatcherToo
  \/ ShutdownSetsState
  \/ ShutdownNotifies
  \/ ShutdownEnds
  \/ MainThread

AddingStep ==
  \E e \in Events, d \in 1..MaxDelay :
    AddEvent(e, d) /\ (TaskAddsEvent(e, d) \/ ServiceAddsEvent(e, d))

LEMMA StepKinds ==
  ASSUME Next
  PROVE  \/ QuietStep
         \/ AddingStep
         \/ ShutdownClearsEvents
         \/ SchedulerLoop
         \/ SchedulerWake(TRUE) /\ UNCHANGED dispatcherVars
         \/ Tick
  BY DEF Next, DispatcherThread, SchedulerThread, Choice, Time, TaskBody, QuietStep,
         AddingStep, TaskAddsEvent, ServiceAddsEvent

(* The dispatcher thread is in the part of a shutdown or a stop where the scheduler
   no longer accepts events. *)
Stopped ==
  dispatcherPc \in {"stopDispatcher", "clearEvents", "notifyScheduler",
                    "shutdownDispatcher"}

LEMMA QuietEffect ==
  ASSUME TypeOK, PointersOK, QuietStep
  PROVE  /\ UNCHANGED <<now, eventList, cycle, schedulerPc, deadline, popped>>
         /\ eventSignal => eventSignal'
         /\ schedulerState' = "RUNNING" => schedulerState = "RUNNING"
         /\ \A e \in Events : fate'[e] = fate[e] \/ fate'[e] = "stopped"
         /\ \A e \in Events : OnItsWay(e)' => OnItsWay(e)
         /\ (Stopped => schedulerState # "RUNNING")
              => (Stopped => schedulerState # "RUNNING")'
<1>. USE DEF OnItsWay, Stopped, schedulerVars, heapVars, dispatcherVars, queueVars
<1>. USE JobsAssumption DEF Jobs
<1>1. CASE (DispatcherLoop \/ DispatcherWake(TRUE)) /\ UNCHANGED <<schedulerVars, systemVars>>
  <2>1. Elements(taskList') \cup {current'} \subseteq Elements(taskList) \cup {current, Nobody}
    <3>1. ASSUME taskList # <<>>
          PROVE  /\ Head(taskList) \in Elements(taskList)
                 /\ Elements(Tail(taskList)) \subseteq Elements(taskList)
      BY <3>1, ElementsOfTaken DEF TypeOK, DispatcherTypeOK
    <3>. QED
      BY <1>1, <3>1
      DEF DispatcherLoop, DispatcherCheck, DispatcherWait, DispatcherWake,
          DispatcherFindNothing, DispatcherTake, DispatcherSkip, DispatcherFinish,
          DispatcherTerminate
  <2>2. Stopped' => Stopped
    BY <1>1
    DEF DispatcherLoop, DispatcherCheck, DispatcherWait, DispatcherWake,
        DispatcherFindNothing, DispatcherTake, DispatcherSkip, DispatcherFinish,
        DispatcherTerminate
  <2>. QED BY <1>1, <2>1, <2>2
<1>2. ASSUME NEW t \in Tasks \cup Control, AddTask(t, FALSE), UNCHANGED <<current, popped>>
      PROVE  \A e \in Events : OnItsWay(e)' => OnItsWay(e)
  <2>1. t \in Jobs /\ t \notin Events
    OBVIOUS
  <2>2. Elements(taskList') \subseteq Elements(taskList) \cup {t}
    BY <1>2, <2>1, AddTaskElements DEF TypeOK
  <2>. QED BY <1>2, <2>1, <2>2
<1>3. CASE \E t \in Tasks : PostTask(t)
  <2>1. PICK t \in Tasks : PostTask(t)
    BY <1>3
  <2>2. \A e \in Events : OnItsWay(e)' => OnItsWay(e)
    <3>1. AddTask(t, FALSE) /\ UNCHANGED <<current, popped>>
      BY <2>1 DEF PostTask
    <3>. QED BY <3>1, <1>2
  <2>. QED BY <2>1, <2>2 DEF PostTask
<1>4. CASE \E e \in Events : TaskStopsEvent(e)
  BY <1>4 DEF TaskStopsEvent, StopEvent, TypeOK, SchedulerTypeOK
<1>5. CASE \E s \in Signals : Signal(s)
  <2>1. PICK s \in Signals : Signal(s)
    BY <1>5
  <2>2. s \in Control
    BY SignalsAssumption DEF Control
  <2>3. \A e \in Events : OnItsWay(e)' => OnItsWay(e)
    <3>1. AddTask(s, FALSE) /\ UNCHANGED <<current, popped>>
      BY <2>1 DEF Signal
    <3>. QED BY <3>1, <2>2, <1>2
  <2>. QED BY <2>1, <2>3 DEF Signal
<1>6. CASE \/ TaskReadsEventId \/ QuitBegins \/ QuitAgain \/ StopScheduler
           \/ StopDispatcherToo
  BY <1>6
  DEF TaskReadsEventId, QuitBegins, QuitAgain, StopScheduler, SetScheduler, StopDispatcherToo,
      StopDispatcher
<1>7. ASSUME NEW task, NEW next \in Control, PostShutdown(task, next)
      PROVE  /\ UNCHANGED schedulerVars
             /\ dispatcherPc' = "stopScheduler"
             /\ \A e \in Events : OnItsWay(e)' => OnItsWay(e)
  <2>1. AddTask(next, FALSE) /\ UNCHANGED <<current, popped>>
    BY <1>7 DEF PostShutdown
  <2>2. \A e \in Events : OnItsWay(e)' => OnItsWay(e)
    BY <2>1, <1>2
  <2>. QED BY <1>7, <2>2 DEF PostShutdown
<1>8. CASE ShutdownSetsState
  BY <1>8 DEF ShutdownSetsState, SetScheduler
<1>9. CASE ShutdownNotifies
  <2>1. eventSignal => eventSignal'
    BY <1>9, Zenon DEF ShutdownNotifies, NotifyScheduler
  <2>. QED BY <1>9, <2>1 DEF ShutdownNotifies
<1>10. CASE ShutdownEnds
  <2>1. Elements(taskList') = Elements(taskList) \cup {"final"}
    BY <1>10, FinalElements DEF ShutdownEnds, ShutdownDispatcher, TypeOK
  <2>. QED BY <1>10, <2>1 DEF ShutdownEnds, ShutdownDispatcher, Control
<1>11. CASE MainServes \/ ServiceReadsEventId \/ MainStopsServing \/ MainJoins
  BY <1>11 DEF MainServes, ServiceReadsEventId, MainStopsServing, MainJoins
<1>12. CASE MainGoesOffline
  <2>1. AddTask("offline", FALSE) /\ UNCHANGED <<current, popped>>
    BY <1>12 DEF MainGoesOffline
  <2>2. \A e \in Events : OnItsWay(e)' => OnItsWay(e)
    BY <2>1, <1>2 DEF Control
  <2>. QED BY <1>12, <2>2 DEF MainGoesOffline
<1>. QED
  <2>1. CASE PostShutdown("quit", "shutdown") \/ PostShutdown("offline", "offlineShutdown")
    BY <2>1, <1>7 DEF Control
  <2>. QED
    BY <2>1, <1>1, <1>3, <1>4, <1>5, <1>6, <1>8, <1>9, <1>10, <1>11, <1>12
    DEF QuietStep, MainThread

(* By time t an event is due, unless the heap was cleared for good. *)
DueBy(t) ==
  \/ \E e \in eventList : cycle[e] <= t
  \/ eventList = {} /\ schedulerState # "RUNNING"

DeadlineMet ==
  /\ schedulerPc \in {"waiting", "woken"} /\ deadline # Forever => DueBy(deadline)
  /\ schedulerPc = "timedout" => DueBy(now)

OldEvents == \A e \in Events : e \in eventList \/ OnItsWay(e) => fate[e] # "new"

StoppedForGood == Stopped => schedulerState # "RUNNING"

TimerInv == OldEvents /\ StoppedForGood /\ NoOversleep /\ DeadlineMet /\ NoEarlyFire

LEMMA QuietTimers ==
  ASSUME TypeOK, PointersOK, TimerInv, QuietStep
  PROVE  TimerInv'
<1>1. /\ UNCHANGED <<now, eventList, cycle, schedulerPc, deadline, popped>>
      /\ eventSignal => eventSignal'
      /\ schedulerState' = "RUNNING" => schedulerState = "RUNNING"
      /\ \A e \in Events : fate'[e] = fate[e] \/ fate'[e] = "stopped"
      /\ \A e \in Events : OnItsWay(e)' => OnItsWay(e)
      /\ StoppedForGood => StoppedForGood'
  BY QuietEffect DEF StoppedForGood
<1>2. OldEvents' /\ NoEarlyFire' /\ StoppedForGood'
  BY <1>1 DEF TimerInv, OldEvents, NoEarlyFire
<1>3. NoOversleep'
  BY <1>1 DEF TimerInv, NoOversleep
<1>4. DeadlineMet'
  BY <1>1 DEF TimerInv, DeadlineMet, DueBy
<1>. QED BY <1>2, <1>3, <1>4 DEF TimerInv

LEMMA AddingTimers ==
  ASSUME TypeOK, PointersOK, TimerInv, AddingStep
  PROVE  TimerInv'
<1>1. PICK e \in Events, d \in 1..MaxDelay :
        AddEvent(e, d) /\ (TaskAddsEvent(e, d) \/ ServiceAddsEvent(e, d))
  BY DEF AddingStep
<1>2. /\ UNCHANGED <<now, schedulerState, schedulerPc, deadline, popped, taskList, current>>
      /\ Stopped' => Stopped
  BY <1>1 DEF TaskAddsEvent, ServiceAddsEvent, Stopped, queueVars
<1>3. e \notin eventList /\ ~OnItsWay(e)
  BY <1>1 DEF AddEvent, TimerInv, OldEvents
<1>4. \A f \in Events : OnItsWay(f)' <=> OnItsWay(f)
  BY <1>2 DEF OnItsWay
<1>5. /\ \A f \in Events \ {e} : cycle'[f] = cycle[f] /\ fate'[f] = fate[f]
      /\ cycle'[e] = now + d
      /\ fate'[e] # "new"
  BY <1>1 DEF AddEvent, TypeOK, SchedulerTypeOK
<1>6. CASE schedulerState = "RUNNING"
  <2>1. /\ eventList' = eventList \cup {e}
        /\ NotifyScheduler(IsNewTop(now + d))
    BY <1>1, <1>6, Zenon DEF AddEvent
  <2>2. OldEvents' /\ NoEarlyFire' /\ StoppedForGood'
    BY <1>2, <1>3, <1>4, <1>5, <2>1
    DEF TimerInv, OldEvents, NoEarlyFire, StoppedForGood
  <2>3. NoOversleep'
    <3>1. SUFFICES ASSUME schedulerPc = "waiting", ~eventSignal', NEW f \in eventList'
                   PROVE  deadline <= cycle'[f]
      BY <1>2 DEF NoOversleep
    <3>2. ~eventSignal /\ ~IsNewTop(now + d)
      BY <2>1, <3>1 DEF NotifyScheduler
    <3>3. \A g \in eventList : deadline <= cycle[g]
      BY <3>1, <3>2 DEF TimerInv, NoOversleep
    <3>4. PICK g \in eventList : ~(now + d < cycle[g])
      BY <3>2 DEF IsNewTop
    <3>5. deadline \in Nat /\ now + d \in Nat /\ cycle[g] \in Nat
      BY SchedulerAssumption DEF TypeOK, SchedulerTypeOK
    <3>6. deadline <= now + d
      BY <3>3, <3>4, <3>5
    <3>. QED BY <1>3, <1>5, <2>1, <3>3, <3>6 DEF TypeOK, SchedulerTypeOK
  <2>4. \A t : DueBy(t) => DueBy(t)'
    BY <1>3, <1>5, <1>6, <2>1 DEF DueBy, TypeOK, SchedulerTypeOK
  <2>5. DeadlineMet'
    BY <1>2, <2>4 DEF TimerInv, DeadlineMet
  <2>. QED BY <2>2, <2>3, <2>5 DEF TimerInv
<1>7. CASE schedulerState # "RUNNING"
  <2>1. UNCHANGED <<eventList, eventSignal>>
    BY <1>1, <1>7, Zenon DEF AddEvent
  <2>2. OldEvents' /\ NoEarlyFire' /\ StoppedForGood'
    BY <1>2, <1>3, <1>4, <1>5, <2>1
    DEF TimerInv, OldEvents, NoEarlyFire, StoppedForGood
  <2>3. NoOversleep'
    BY <1>2, <1>3, <1>5, <2>1 DEF TimerInv, NoOversleep, TypeOK, SchedulerTypeOK
  <2>4. \A t : DueBy(t) => DueBy(t)'
    BY <1>2, <1>3, <1>5, <2>1 DEF DueBy, TypeOK, SchedulerTypeOK
  <2>5. DeadlineMet'
    BY <1>2, <2>4 DEF TimerInv, DeadlineMet
  <2>. QED BY <2>2, <2>3, <2>5 DEF TimerInv
<1>. QED BY <1>6, <1>7

LEMMA ClearingTimers ==
  ASSUME TypeOK, PointersOK, TimerInv, ShutdownClearsEvents
  PROVE  TimerInv'
<1>1. /\ UNCHANGED <<now, cycle, schedulerState, schedulerPc, deadline, popped,
                      taskList, current, eventSignal>>
      /\ eventList' = {}
      /\ \A e \in Events : fate'[e] = fate[e] \/ fate'[e] = "lost"
  BY DEF ShutdownClearsEvents, ClearEvents, queueVars, TypeOK, SchedulerTypeOK
<1>2. schedulerState # "RUNNING"
  BY DEF TimerInv, StoppedForGood, Stopped, ShutdownClearsEvents
<1>3. \A e \in Events : OnItsWay(e)' <=> OnItsWay(e)
  BY <1>1 DEF OnItsWay
<1>4. OldEvents' /\ NoEarlyFire' /\ StoppedForGood' /\ NoOversleep'
  BY <1>1, <1>2, <1>3
  DEF TimerInv, OldEvents, NoEarlyFire, StoppedForGood, NoOversleep
<1>5. DeadlineMet'
  BY <1>1, <1>2 DEF DeadlineMet, DueBy
<1>. QED BY <1>4, <1>5 DEF TimerInv

(* The steps of the scheduler thread that leave the heap and the queue alone. *)
LEMMA WaitingTimers ==
  ASSUME TypeOK, PointersOK, TimerInv,
         \/ SchedulerCheck
         \/ SchedulerWait
         \/ \E spurious \in BOOLEAN : SchedulerWake(spurious)
         \/ SchedulerTimeout
         \/ SchedulerNoTimeout
         \/ SchedulerPopEmpty
  PROVE  TimerInv'
<1>. USE DEF heapVars, dispatcherVars, queueVars
<1>1. /\ UNCHANGED <<now, eventList, cycle, fate, schedulerState, popped, taskList,
                      current, dispatcherPc>>
  BY DEF SchedulerCheck, SchedulerWait, SchedulerWake, SchedulerTimeout,
         SchedulerNoTimeout, SchedulerPopEmpty
<1>2. \A e \in Events : OnItsWay(e)' <=> OnItsWay(e)
  BY <1>1 DEF OnItsWay
<1>3. OldEvents' /\ NoEarlyFire' /\ StoppedForGood'
  BY <1>1, <1>2 DEF TimerInv, OldEvents, NoEarlyFire, StoppedForGood, Stopped
<1>4. \A t : DueBy(t)' <=> DueBy(t)
  BY <1>1 DEF DueBy
<1>5. CASE SchedulerWait
  <2>1. schedulerPc' = "waiting"
    BY <1>5 DEF SchedulerWait
  <2>2. ASSUME eventList = {}, deadline' = Forever
        PROVE  NoOversleep' /\ DeadlineMet'
    BY <1>1, <2>1, <2>2 DEF NoOversleep, DeadlineMet, Forever
  <2>3. ASSUME NEW e \in Tops, deadline' = cycle[e]
        PROVE  NoOversleep' /\ DeadlineMet'
    <3>1. e \in eventList /\ \A f \in eventList : cycle[e] <= cycle[f]
      BY DEF Tops
    <3>2. DueBy(cycle[e])
      BY <3>1 DEF DueBy, TypeOK, SchedulerTypeOK
    <3>. QED BY <1>1, <1>4, <2>1, <2>3, <3>1, <3>2 DEF NoOversleep, DeadlineMet
  <2>4. NoOversleep' /\ DeadlineMet'
    BY <1>1, <2>1, <2>2, <2>3, <1>5 DEF SchedulerWait, NoOversleep, DeadlineMet
  <2>. QED BY <1>3, <2>4 DEF TimerInv
<1>6. CASE SchedulerTimeout
  <2>1. deadline <= now /\ schedulerPc \in {"waiting", "woken"} /\ schedulerPc' = "timedout"
    BY <1>6 DEF SchedulerTimeout
  <2>2. deadline # Forever
    BY <2>1, SchedulerAssumption DEF TypeOK, SchedulerTypeOK, Forever
  <2>3. DueBy(deadline)
    BY <2>1, <2>2 DEF TimerInv, DeadlineMet
  <2>4. DueBy(now)
    BY <2>1, <2>3, SchedulerAssumption DEF DueBy, TypeOK, SchedulerTypeOK, Forever
  <2>5. NoOversleep' /\ DeadlineMet'
    BY <1>1, <1>4, <2>1, <2>4 DEF NoOversleep, DeadlineMet
  <2>. QED BY <1>3, <2>5 DEF TimerInv
<1>7. CASE SchedulerCheck \/ SchedulerNoTimeout \/ SchedulerPopEmpty
  BY <1>3, <1>7
  DEF SchedulerCheck, SchedulerNoTimeout, SchedulerPopEmpty, TimerInv, NoOversleep,
      DeadlineMet
<1>8. CASE \E spurious \in BOOLEAN : SchedulerWake(spurious)
  <2>1. schedulerPc = "waiting" /\ schedulerPc' = "woken" /\ UNCHANGED deadline
    BY <1>8 DEF SchedulerWake
  <2>. QED BY <1>1, <1>3, <1>4, <2>1 DEF TimerInv, NoOversleep, DeadlineMet
<1>. QED BY <1>5, <1>6, <1>7, <1>8

LEMMA FiringTimers ==
  ASSUME TypeOK, PointersOK, TimerInv, SchedulerPop \/ SchedulerHandOff
  PROVE  TimerInv'
<1>1. CASE SchedulerPop
  <2>1. PICK e \in Tops :
          /\ eventList' = eventList \ {e}
          /\ fate' = fate \/ fate' = [fate EXCEPT ![e] = "fired"]
          /\ popped' \in {popped, e}
          /\ schedulerPc' \in {"handoff", "check"}
    BY <1>1 DEF SchedulerPop
  <2>2. UNCHANGED <<now, cycle, schedulerState, dispatcherPc, taskList, current>>
    BY <1>1 DEF SchedulerPop, queueVars
  <2>3. e \in eventList /\ e \in Events /\ cycle[e] <= now
    <3>1. e \in eventList /\ \A f \in eventList : cycle[e] <= cycle[f]
      BY DEF Tops
    <3>2. DueBy(now)
      BY <1>1 DEF SchedulerPop, TimerInv, DeadlineMet
    <3>. QED
      BY <3>1, <3>2, SchedulerAssumption DEF DueBy, TypeOK, SchedulerTypeOK
  <2>4. \A f \in Events : OnItsWay(f)' => OnItsWay(f) \/ f = e
    BY <2>1, <2>2 DEF OnItsWay
  <2>5. \A f \in Events : fate'[f] = "new" => fate[f] = "new"
    BY <2>1, <2>3 DEF TypeOK, SchedulerTypeOK
  <2>6. OldEvents'
    BY <2>1, <2>3, <2>4, <2>5 DEF TimerInv, OldEvents
  <2>7. NoEarlyFire' /\ StoppedForGood' /\ NoOversleep' /\ DeadlineMet'
    BY <2>1, <2>2, <2>3, <2>4
    DEF TimerInv, NoEarlyFire, StoppedForGood, Stopped, NoOversleep, DeadlineMet
  <2>. QED BY <2>6, <2>7 DEF TimerInv
<1>2. CASE SchedulerHandOff
  <2>1. /\ UNCHANGED <<now, eventList, cycle, fate, schedulerState, dispatcherPc, current>>
        /\ schedulerPc' = "check"
        /\ popped' = Nobody
    BY <1>2 DEF SchedulerHandOff, heapVars
  <2>2. popped \in Events /\ popped \in Jobs
    BY <1>2 DEF SchedulerHandOff, TypeOK, SchedulerTypeOK, PointersOK, Jobs
  <2>3. Elements(taskList') \subseteq Elements(taskList) \cup {popped}
    BY <1>2, <2>2, AddTaskElements DEF SchedulerHandOff, TypeOK
  <2>4. \A e \in Events : OnItsWay(e)' => OnItsWay(e)
    BY <2>1, <2>3, JobsAssumption DEF OnItsWay, Jobs
  <2>. QED
    BY <2>1, <2>4
    DEF TimerInv, OldEvents, NoEarlyFire, StoppedForGood, Stopped, NoOversleep,
        DeadlineMet
<1>. QED BY <1>1, <1>2

LEMMA TickTimers ==
  ASSUME TypeOK, TimerInv, Tick
  PROVE  TimerInv'
<1>1. /\ UNCHANGED <<eventList, cycle, fate, schedulerState, schedulerPc, deadline,
                      eventSignal, popped, taskList, current, dispatcherPc>>
      /\ now' = now + 1
  BY DEF Tick, heapVars, dispatcherVars, queueVars
<1>2. \A e \in Events : OnItsWay(e)' <=> OnItsWay(e)
  BY <1>1 DEF OnItsWay
<1>3. OldEvents' /\ StoppedForGood' /\ NoOversleep'
  BY <1>1, <1>2 DEF TimerInv, OldEvents, StoppedForGood, Stopped, NoOversleep
<1>4. NoEarlyFire'
  BY <1>1, <1>2, SchedulerAssumption DEF TimerInv, NoEarlyFire, TypeOK, SchedulerTypeOK
<1>5. DueBy(now) => DueBy(now)'
  BY <1>1, SchedulerAssumption DEF DueBy, TypeOK, SchedulerTypeOK
<1>6. DueBy(deadline) => DueBy(deadline)'
  BY <1>1 DEF DueBy
<1>7. DeadlineMet'
  BY <1>1, <1>5, <1>6 DEF TimerInv, DeadlineMet
<1>. QED BY <1>3, <1>4, <1>7 DEF TimerInv

LEMMA StepTimers ==
  ASSUME TypeOK, PointersOK, TimerInv, [Next]_vars
  PROVE  TimerInv'
<1>1. CASE UNCHANGED vars
  BY <1>1
  DEF vars, dispatcherVars, queueVars, schedulerVars, TimerInv, OldEvents, OnItsWay,
      StoppedForGood, Stopped, NoOversleep, DeadlineMet, DueBy, NoEarlyFire
<1>2. CASE Next
  BY <1>2, StepKinds, QuietTimers, AddingTimers, ClearingTimers, WaitingTimers,
     FiringTimers, TickTimers
  DEF SchedulerLoop
<1>. QED BY <1>1, <1>2

LEMMA TimersInvariant == Spec => [](TypeOK /\ PointersOK /\ TimerInv)
<1>1. Init => TypeOK /\ PointersOK /\ TimerInv
  <2>1. Init => TimerInv
    BY JobsAssumption
    DEF Init, DispatcherInit, SchedulerInit, TimerInv, OldEvents, OnItsWay, Elements,
        StoppedForGood, Stopped, NoOversleep, DeadlineMet, NoEarlyFire, Jobs
  <2>. QED BY <2>1, InitTypes
<1>2. /\ TypeOK /\ PointersOK /\ TimerInv
      /\ [Next]_vars
      => (TypeOK /\ PointersOK /\ TimerInv)'
  BY StepTypes, StepTimers
<1>. QED BY <1>1, <1>2, PTL DEF Spec

(* No event reaches the dispatcher before it is due. *)
THEOREM NeverEarly == Spec => []NoEarlyFire
<1>1. TypeOK /\ PointersOK /\ TimerInv => NoEarlyFire
  BY DEF TimerInv
<1>. QED BY <1>1, TimersInvariant, PTL

(* The scheduler thread never sleeps past an event of the heap: no wakeup that an
   event needs is lost. *)
THEOREM NeverOversleeps == Spec => []NoOversleep
<1>1. TypeOK /\ PointersOK /\ TimerInv => NoOversleep
  BY DEF TimerInv
<1>. QED BY <1>1, TimersInvariant, PTL

-----------------------------------------------------------------------------
(* The ids.  While there are at least as many ids as there will ever be events, no id
   is given out twice, and the set of ids says exactly which events are armed.  (In
   the program the ids wrap around after 2^32 - 1 of them.) *)

IdsSuffice == IsFiniteSet(Events) /\ Cardinality(Events) <= EventIdMax

WithId == {e \in Events : eventId[e] # 0}

IdInv ==
  /\ lastEventId = Cardinality(WithId)
  /\ \A e \in Events : eventId[e] <= lastEventId
  /\ \A e, f \in WithId : eventId[e] = eventId[f] => e = f
  /\ \A e \in Events : fate[e] = "new" => eventId[e] = 0
  /\ \A e \in Events : eventId[e] \in eventIds <=> fate[e] = "armed"

FiredInv == \A e \in Events : OnItsWay(e) => fate[e] = "fired"

LEMMA QuietHeap ==
  ASSUME QuietStep
  PROVE  UNCHANGED heapVars \/ \E e \in Events : TaskStopsEvent(e)
  BY DEF QuietStep, PostTask, Signal, TaskReadsEventId, QuitBegins, PostShutdown,
         QuitAgain, StopScheduler, StopDispatcherToo, ShutdownSetsState,
         ShutdownNotifies, ShutdownEnds, MainThread, MainServes, ServiceReadsEventId,
         MainGoesOffline, MainStopsServing,
         MainJoins, schedulerVars, heapVars

LEMMA AddEventIds ==
  ASSUME IdsSuffice, TypeOK, IdInv, NEW e \in Events, NEW d \in 1..MaxDelay,
         AddEvent(e, d)
  PROVE  IdInv'
<1>. USE DEF IdInv, WithId, TypeOK, SchedulerTypeOK
<1>1. fate[e] = "new" /\ eventId[e] = 0
  BY DEF AddEvent
<1>2. CASE schedulerState = "RUNNING"
  <2>1. /\ lastEventId' = NextEventId(lastEventId)
        /\ eventId' = [eventId EXCEPT ![e] = NextEventId(lastEventId)]
        /\ eventIds' = eventIds \cup {NextEventId(lastEventId)}
        /\ fate' = [fate EXCEPT ![e] = "armed"]
    BY <1>2, Zenon DEF AddEvent
  <2>2. IsFiniteSet(WithId) /\ e \notin WithId
    BY <1>1, FS_Subset DEF IdsSuffice
  <2>3. Cardinality(WithId \cup {e}) = Cardinality(WithId) + 1
    BY <2>2, FS_AddElement
  <2>4. Cardinality(WithId \cup {e}) <= Cardinality(Events)
    BY FS_Subset DEF IdsSuffice
  <2>5. /\ lastEventId + 1 <= EventIdMax
        /\ NextEventId(lastEventId) = lastEventId + 1
    <3>1. Cardinality(Events) \in Nat /\ EventIdMax \in Nat /\ lastEventId \in Nat
      BY FS_CardinalityType, SchedulerAssumption DEF IdsSuffice
    <3>2. lastEventId + 1 <= EventIdMax
      BY <2>3, <2>4, <3>1 DEF IdsSuffice
    <3>. QED BY <3>1, <3>2 DEF NextEventId
  <2>6. WithId' = WithId \cup {e}
    BY <1>1, <2>1, <2>5
  <2>7. lastEventId' = Cardinality(WithId')
    BY <2>1, <2>3, <2>5, <2>6
  <2>8. \A f \in Events \ {e} : eventId'[f] = eventId[f] /\ fate'[f] = fate[f]
    BY <2>1
  <2>9. eventId'[e] = lastEventId + 1 /\ fate'[e] = "armed"
    BY <2>1, <2>5
  <2>10. \A f \in Events : eventId'[f] <= lastEventId'
    BY <2>1, <2>5, <2>8, <2>9
  <2>11. \A f, g \in WithId' : eventId'[f] = eventId'[g] => f = g
    <3>1. \A f \in WithId : f \in Events \ {e} /\ eventId'[f] = eventId[f]
      BY <2>2, <2>8
    <3>2. \A f \in WithId : eventId'[f] # eventId'[e]
      BY <3>1, <2>5, <2>9
    <3>3. \A f, g \in WithId : eventId'[f] = eventId'[g] => f = g
      BY <3>1
    <3>. QED BY <2>6, <3>2, <3>3, Zenon
  <2>12. \A f \in Events : fate'[f] = "new" => eventId'[f] = 0
    BY <2>8, <2>9
  <2>13. \A f \in Events : eventId'[f] \in eventIds' <=> fate'[f] = "armed"
    BY <2>1, <2>5, <2>8, <2>9
  <2>. QED BY <2>7, <2>10, <2>11, <2>12, <2>13
<1>3. CASE schedulerState # "RUNNING"
  <2>1. /\ UNCHANGED <<lastEventId, eventId, eventIds>>
        /\ fate' = [fate EXCEPT ![e] = "lost"]
    BY <1>3, Zenon DEF AddEvent
  <2>2. 0 \notin eventIds
    OBVIOUS
  <2>. QED BY <1>1, <2>1, <2>2
<1>. QED BY <1>2, <1>3

LEMMA StepIds ==
  ASSUME IdsSuffice, TypeOK, PointersOK, IdInv, [Next]_vars
  PROVE  IdInv'
<1>. USE DEF IdInv, WithId, heapVars
<1>1. CASE UNCHANGED heapVars
  BY <1>1
<1>2. ASSUME NEW e \in Events, eventId[e] \in eventIds,
             eventIds' = eventIds \ {eventId[e]},
             fate' = [fate EXCEPT ![e] = "stopped"] \/ fate' = [fate EXCEPT ![e] = "fired"],
             UNCHANGED <<lastEventId, eventId>>
      PROVE  IdInv'
  <2>1. eventId[e] # 0
    BY <1>2 DEF TypeOK, SchedulerTypeOK
  <2>2. \A f \in Events \ {e} : fate'[f] = fate[f]
    BY <1>2 DEF TypeOK, SchedulerTypeOK
  <2>3. fate'[e] \in {"stopped", "fired"}
    BY <1>2 DEF TypeOK, SchedulerTypeOK
  <2>4. \A f \in Events \ {e} : eventId[f] # eventId[e]
    BY <2>1
  <2>5. \A f \in Events : eventId'[f] \in eventIds' <=> fate'[f] = "armed"
    BY <1>2, <2>2, <2>3, <2>4
  <2>6. \A f \in Events : fate'[f] = "new" => eventId'[f] = 0
    BY <1>2, <2>2, <2>3
  <2>. QED BY <1>2, <2>5, <2>6
<1>3. ASSUME NEW e \in Events, TaskStopsEvent(e)
      PROVE  IdInv'
  BY <1>2, <1>3 DEF TaskStopsEvent, StopEvent
<1>4. CASE AddingStep
  BY <1>4, AddEventIds DEF AddingStep
<1>5. CASE ShutdownClearsEvents
  BY <1>5 DEF ShutdownClearsEvents, ClearEvents, TypeOK, SchedulerTypeOK
<1>6. CASE SchedulerPop
  <2>1. PICK e \in Tops :
          \/ IsWanted(e) /\ EraseId(e) /\ fate' = [fate EXCEPT ![e] = "fired"]
          \/ UNCHANGED <<eventIds, fate>>
    BY <1>6 DEF SchedulerPop
  <2>2. UNCHANGED <<lastEventId, eventId>>
    BY <1>6 DEF SchedulerPop
  <2>3. e \in Events
    BY DEF Tops, TypeOK, SchedulerTypeOK
  <2>. QED BY <1>2, <2>1, <2>2, <2>3 DEF IsWanted, EraseId
<1>7. CASE SchedulerLoop /\ ~SchedulerPop
  BY <1>1, <1>7
  DEF SchedulerLoop, SchedulerCheck, SchedulerWait, SchedulerWake, SchedulerTimeout,
      SchedulerNoTimeout, SchedulerPopEmpty, SchedulerHandOff
<1>8. CASE SchedulerWake(TRUE) \/ Tick \/ UNCHANGED vars
  BY <1>1, <1>8 DEF SchedulerWake, Tick, vars, schedulerVars
<1>. QED
  BY <1>1, <1>3, <1>4, <1>5, <1>6, <1>7, <1>8, StepKinds, QuietHeap

LEMMA StepFired ==
  ASSUME TypeOK, PointersOK, IdInv, FiredInv, [Next]_vars
  PROVE  FiredInv'
<1>1. ASSUME \A e \in Events : OnItsWay(e)' => OnItsWay(e), UNCHANGED fate
      PROVE  FiredInv'
  BY <1>1 DEF FiredInv
<1>2. CASE QuietStep
  <2>1. \A e \in Events : OnItsWay(e)' => OnItsWay(e)
    BY <1>2, QuietEffect
  <2>2. ASSUME NEW e \in Events, TaskStopsEvent(e)
        PROVE  FiredInv'
    <3>1. fate[e] = "armed" /\ fate' = [fate EXCEPT ![e] = "stopped"]
      BY <2>2 DEF TaskStopsEvent, StopEvent, IdInv
    <3>. QED BY <2>1, <3>1 DEF FiredInv, TypeOK, SchedulerTypeOK
  <2>. QED BY <1>1, <1>2, <2>1, <2>2, QuietHeap DEF heapVars
<1>3. CASE AddingStep
  <2>1. PICK e \in Events, d \in 1..MaxDelay :
          AddEvent(e, d) /\ (TaskAddsEvent(e, d) \/ ServiceAddsEvent(e, d))
    BY <1>3 DEF AddingStep
  <2>2. UNCHANGED <<taskList, popped, current>>
    BY <2>1 DEF TaskAddsEvent, ServiceAddsEvent, queueVars
  <2>3. fate[e] = "new" /\ \A f \in Events \ {e} : fate'[f] = fate[f]
    BY <2>1 DEF AddEvent, TypeOK, SchedulerTypeOK
  <2>4. \A f \in Events : OnItsWay(f)' <=> OnItsWay(f)
    BY <2>2 DEF OnItsWay
  <2>. QED BY <2>3, <2>4 DEF FiredInv
<1>4. CASE ShutdownClearsEvents
  <2>1. UNCHANGED <<taskList, popped, current>>
    BY <1>4 DEF ShutdownClearsEvents, queueVars
  <2>2. \A f \in Events : OnItsWay(f)' <=> OnItsWay(f)
    BY <2>1 DEF OnItsWay
  <2>. QED
    BY <1>4, <2>2 DEF FiredInv, ShutdownClearsEvents, ClearEvents, TypeOK, SchedulerTypeOK
<1>5. CASE SchedulerPop
  <2>1. PICK e \in Tops :
          \/ fate' = [fate EXCEPT ![e] = "fired"] /\ popped' = e
          \/ UNCHANGED <<fate, popped>>
    BY <1>5 DEF SchedulerPop
  <2>2. UNCHANGED <<taskList, current>>
    BY <1>5 DEF SchedulerPop, queueVars
  <2>3. e \in Events
    BY DEF Tops, TypeOK, SchedulerTypeOK
  <2>. QED BY <2>1, <2>2, <2>3 DEF FiredInv, OnItsWay, TypeOK, SchedulerTypeOK
<1>6. CASE SchedulerHandOff
  <2>1. popped \in Events /\ popped \in Jobs
    BY <1>6 DEF SchedulerHandOff, TypeOK, SchedulerTypeOK, PointersOK, Jobs
  <2>2. Elements(taskList') \subseteq Elements(taskList) \cup {popped}
    BY <1>6, <2>1, AddTaskElements DEF SchedulerHandOff, TypeOK
  <2>3. \A e \in Events : OnItsWay(e)' => OnItsWay(e)
    BY <1>6, <2>2, JobsAssumption DEF SchedulerHandOff, OnItsWay, Jobs
  <2>. QED BY <1>1, <1>6, <2>3 DEF SchedulerHandOff, heapVars
<1>7. ASSUME UNCHANGED <<fate, taskList, popped, current>>
      PROVE  FiredInv'
  BY <1>7 DEF FiredInv, OnItsWay
<1>8. CASE \/ SchedulerWake(TRUE) /\ UNCHANGED dispatcherVars
          \/ Tick
          \/ UNCHANGED vars
  BY <1>7, <1>8
  DEF SchedulerWake, Tick, vars, schedulerVars, heapVars, dispatcherVars, queueVars
<1>9. CASE SchedulerLoop
  <2>1. CASE \/ SchedulerCheck \/ SchedulerWait \/ SchedulerWake(FALSE)
            \/ SchedulerTimeout \/ SchedulerNoTimeout \/ SchedulerPopEmpty
    BY <1>7, <2>1
    DEF SchedulerCheck, SchedulerWait, SchedulerWake, SchedulerTimeout,
        SchedulerNoTimeout, SchedulerPopEmpty, heapVars, dispatcherVars, queueVars
  <2>. QED BY <1>5, <1>6, <1>9, <2>1 DEF SchedulerLoop
<1>10. CASE Next
  BY <1>2, <1>3, <1>4, <1>8, <1>9, <1>10, StepKinds
<1>. QED BY <1>8, <1>10

SchedulerInv == TypeOK /\ PointersOK /\ TimerInv /\ IdInv /\ FiredInv

LEMMA SchedulerInvariant ==
  ASSUME IdsSuffice
  PROVE  Spec => []SchedulerInv
<1>1. Init => SchedulerInv
  <2>1. Init => TimerInv /\ FiredInv
    BY JobsAssumption
    DEF Init, DispatcherInit, SchedulerInit, TimerInv, OldEvents, OnItsWay, Elements,
        StoppedForGood, Stopped, NoOversleep, DeadlineMet, NoEarlyFire, FiredInv, Jobs
  <2>2. ASSUME Init
        PROVE  IdInv
    <3>1. WithId = {}
      BY <2>2 DEF Init, SchedulerInit, WithId
    <3>2. lastEventId = Cardinality(WithId)
      BY <2>2, <3>1, FS_EmptySet DEF Init, SchedulerInit
    <3>. QED BY <2>2, <3>1, <3>2 DEF Init, SchedulerInit, IdInv
  <2>. QED BY <2>1, <2>2, InitTypes DEF SchedulerInv
<1>2. SchedulerInv /\ [Next]_vars => SchedulerInv'
  BY StepTypes, StepTimers, StepIds, StepFired DEF SchedulerInv
<1>. QED BY <1>1, <1>2, PTL DEF Spec

(* With ids enough, an event that was stopped never runs, whatever it takes to reach
   the dispatcher. *)
THEOREM StoppedStaysStopped ==
  ASSUME IdsSuffice
  PROVE  Spec => []StoppedNeverRuns
<1>1. SchedulerInv => StoppedNeverRuns
  BY DEF SchedulerInv, FiredInv, StoppedNeverRuns
<1>. QED BY <1>1, SchedulerInvariant, PTL

LEMMA QuietPromise ==
  ASSUME SchedulerInv, QuietStep
  PROVE  [Alarm!Next]_Alarm!vars
<1>1. UNCHANGED <<now, cycle>>
  BY QuietEffect DEF SchedulerInv
<1>2. ASSUME NEW e \in Events, TaskStopsEvent(e)
      PROVE  Alarm!Stop(e)
  <2>1. fate[e] = "armed" /\ fate' = [fate EXCEPT ![e] = "stopped"]
    BY <1>2 DEF TaskStopsEvent, StopEvent, SchedulerInv, IdInv
  <2>2. UNCHANGED schedulerState
    BY <1>2 DEF TaskStopsEvent
  <2>. QED BY <1>1, <2>1, <2>2 DEF Alarm!Stop, Alarm!Become
<1>3. ASSUME UNCHANGED heapVars
      PROVE  Alarm!Close \/ UNCHANGED Alarm!vars
  <2>1. schedulerState' = "RUNNING" => schedulerState = "RUNNING"
    BY QuietEffect DEF SchedulerInv
  <2>2. CASE schedulerState' = "RUNNING"
    BY <1>1, <1>3, <2>1, <2>2 DEF heapVars, Alarm!vars
  <2>3. CASE schedulerState' # "RUNNING"
    BY <1>1, <1>3, <2>3 DEF heapVars, Alarm!Close
  <2>. QED BY <2>2, <2>3
<1>. QED BY <1>2, <1>3, QuietHeap DEF Alarm!Next

LEMMA AddingPromise ==
  ASSUME SchedulerInv, NEW e \in Events, NEW d \in 1..MaxDelay, AddEvent(e, d),
         UNCHANGED <<now, schedulerState>>
  PROVE  Alarm!Arm(e)
<1>1. /\ fate[e] = "new"
      /\ cycle' = [cycle EXCEPT ![e] = now + d]
  BY DEF AddEvent
<1>2. fate' = [fate EXCEPT ![e] = IF schedulerState = "RUNNING" THEN "armed" ELSE "lost"]
  <2>1. CASE schedulerState = "RUNNING"
    BY <2>1, Zenon DEF AddEvent
  <2>2. CASE schedulerState # "RUNNING"
    BY <2>2, Zenon DEF AddEvent
  <2>. QED BY <2>1, <2>2
<1>. QED BY <1>1, <1>2 DEF Alarm!Arm, Alarm!Become

LEMMA FiringPromise ==
  ASSUME SchedulerInv, SchedulerPop
  PROVE  [Alarm!Next]_Alarm!vars
<1>1. PICK e \in Tops :
        \/ IsWanted(e) /\ fate' = [fate EXCEPT ![e] = "fired"]
        \/ UNCHANGED fate
  BY DEF SchedulerPop
<1>2. UNCHANGED <<now, cycle, schedulerState>>
  BY DEF SchedulerPop
<1>3. CASE UNCHANGED fate
  BY <1>2, <1>3 DEF Alarm!vars
<1>4. CASE IsWanted(e) /\ fate' = [fate EXCEPT ![e] = "fired"]
  <2>1. e \in Events /\ fate[e] = "armed"
    BY <1>4 DEF Tops, IsWanted, SchedulerInv, IdInv, TypeOK, SchedulerTypeOK
  <2>2. cycle[e] <= now
    <3>1. e \in eventList /\ \A f \in eventList : cycle[e] <= cycle[f]
      BY DEF Tops
    <3>2. DueBy(now)
      BY DEF SchedulerPop, SchedulerInv, TimerInv, DeadlineMet
    <3>. QED
      BY <3>1, <3>2, SchedulerAssumption
      DEF DueBy, SchedulerInv, TypeOK, SchedulerTypeOK
  <2>3. Alarm!Fire(e)
    BY <1>2, <1>4, <2>1, <2>2 DEF Alarm!Fire, Alarm!Become
  <2>. QED BY <2>1, <2>3 DEF Alarm!Next
<1>. QED BY <1>1, <1>3, <1>4

LEMMA StepPromise ==
  ASSUME SchedulerInv, [Next]_vars
  PROVE  [Alarm!Next]_Alarm!vars
<1>1. CASE QuietStep
  BY <1>1, QuietPromise
<1>2. CASE AddingStep
  <2>1. PICK e \in Events, d \in 1..MaxDelay :
          AddEvent(e, d) /\ (TaskAddsEvent(e, d) \/ ServiceAddsEvent(e, d))
    BY <1>2 DEF AddingStep
  <2>2. UNCHANGED <<now, schedulerState>>
    BY <2>1 DEF TaskAddsEvent, ServiceAddsEvent
  <2>. QED BY <2>1, <2>2, AddingPromise DEF Alarm!Next
<1>3. CASE ShutdownClearsEvents
  <2>1. schedulerState # "RUNNING"
    BY <1>3 DEF ShutdownClearsEvents, SchedulerInv, TimerInv, StoppedForGood, Stopped
  <2>2. Alarm!LoseAll
    BY <1>3, <2>1 DEF ShutdownClearsEvents, ClearEvents, Alarm!LoseAll
  <2>. QED BY <2>2 DEF Alarm!Next
<1>4. ASSUME UNCHANGED <<now, schedulerState, cycle, fate>>
      PROVE  UNCHANGED Alarm!vars
  BY <1>4 DEF Alarm!vars
<1>5. CASE SchedulerLoop
  <2>1. CASE \/ SchedulerCheck \/ SchedulerWait \/ SchedulerWake(FALSE)
            \/ SchedulerTimeout \/ SchedulerNoTimeout \/ SchedulerPopEmpty
            \/ SchedulerHandOff
    BY <1>4, <2>1
    DEF SchedulerCheck, SchedulerWait, SchedulerWake, SchedulerTimeout,
        SchedulerNoTimeout, SchedulerPopEmpty, SchedulerHandOff, heapVars
  <2>. QED BY <1>5, <2>1, FiringPromise DEF SchedulerLoop
<1>6. CASE SchedulerWake(TRUE) \/ UNCHANGED vars
  BY <1>4, <1>6 DEF SchedulerWake, vars, schedulerVars, heapVars
<1>7. CASE Tick
  <2>1. Alarm!Tick
    BY <1>7 DEF Tick, heapVars, Alarm!Tick
  <2>. QED BY <2>1 DEF Alarm!Next
<1>8. CASE Next
  BY <1>1, <1>2, <1>3, <1>5, <1>6, <1>7, <1>8, StepKinds
<1>. QED BY <1>6, <1>8

(* With ids enough, the scheduler is an alarm service: an accepted event fires at
   most once and not early, not at all once it was stopped, and is lost only when
   the server shuts down. *)
THEOREM KeepsItsPromise ==
  ASSUME IdsSuffice
  PROVE  Spec => AlarmSpec
<1>1. Init => Alarm!Init
  BY DEF Init, SchedulerInit, Alarm!Init
<1>2. SchedulerInv /\ [Next]_vars => [Alarm!Next]_Alarm!vars
  BY StepPromise
<1>. QED BY <1>1, <1>2, SchedulerInvariant, PTL DEF Spec, AlarmSpec, Alarm!Spec

-----------------------------------------------------------------------------
(* Who may delete a task.  The queues pass raw pointers to tasks on, from the heap to
   the scheduler thread to the list to the dispatcher thread. *)

(* The tasks that are made once.  (The control tasks stand for many objects.) *)
Once == Tasks \cup Events

Distinct(s) == \A i, k \in DOMAIN s : s[i] = s[k] /\ s[i] \in Once => i = k

Placed(j) ==
  j \in Elements(taskList) \/ j \in eventList \/ j = popped \/ j = current \/ j \in freed

(* The five places have no task in common. *)
Apart ==
  \A j \in Once :
    /\ j \in Elements(taskList)
         => j \notin eventList /\ j # popped /\ j # current /\ j \notin freed
    /\ j \in eventList => j # popped /\ j # current /\ j \notin freed
    /\ j = popped => j # current /\ j \notin freed
    /\ j = current => j \notin freed

(* A task is in a place from the moment it was handed over. *)
Accounted ==
  /\ \A e \in Events : Placed(e) <=> fate[e] # "new"
  /\ \A t \in Tasks : Placed(t) <=> InUse(t)

FiredLeft == \A e \in eventList : fate[e] # "fired"

OwnInv == Distinct(taskList) /\ Apart /\ Accounted /\ FiredLeft

-----------------------------------------------------------------------------
(* The list of the dispatcher. *)

LEMMA AppendDistinct ==
  ASSUME NEW s \in Seq(Jobs), NEW x \in Jobs, Distinct(s),
         x \in Once => x \notin Elements(s)
  PROVE  Distinct(Append(s, x))
<1>1. /\ Len(Append(s, x)) = Len(s) + 1
      /\ \A i \in 1..Len(s) : Append(s, x)[i] = s[i]
      /\ Append(s, x)[Len(s) + 1] = x
  BY AppendProperties
<1>2. DOMAIN s = 1..Len(s) /\ DOMAIN Append(s, x) = 1..(Len(s) + 1) /\ Len(s) \in Nat
  BY <1>1, AppendProperties
<1>3. \A i \in 1..Len(s) : x \in Once => s[i] # x
  BY <1>2 DEF Elements
<1>4. SUFFICES ASSUME NEW i \in 1..(Len(s) + 1), NEW k \in 1..(Len(s) + 1),
                      Append(s, x)[i] = Append(s, x)[k], Append(s, x)[i] \in Once
               PROVE  i = k
  BY <1>2 DEF Distinct
<1>5. CASE i = Len(s) + 1 \/ k = Len(s) + 1
  BY <1>1, <1>2, <1>3, <1>4, <1>5
<1>6. CASE i \in 1..Len(s) /\ k \in 1..Len(s)
  BY <1>1, <1>2, <1>4, <1>6 DEF Distinct
<1>. QED BY <1>2, <1>5, <1>6

LEMMA PushDistinct ==
  ASSUME NEW s \in Seq(Jobs), NEW x \in Jobs, Distinct(s),
         x \in Once => x \notin Elements(s)
  PROVE  Distinct(<<x>> \o s)
<1>1. /\ Len(<<x>> \o s) = Len(s) + 1
      /\ (<<x>> \o s)[1] = x
      /\ \A i \in 2..(Len(s) + 1) : (<<x>> \o s)[i] = s[i - 1]
  BY ConcatProperties
<1>2. DOMAIN s = 1..Len(s) /\ DOMAIN (<<x>> \o s) = 1..(Len(s) + 1) /\ Len(s) \in Nat
  BY <1>1, ConcatProperties
<1>3. \A i \in 1..Len(s) : x \in Once => s[i] # x
  BY <1>2 DEF Elements
<1>4. SUFFICES ASSUME NEW i \in 1..(Len(s) + 1), NEW k \in 1..(Len(s) + 1),
                      (<<x>> \o s)[i] = (<<x>> \o s)[k], (<<x>> \o s)[i] \in Once
               PROVE  i = k
  BY <1>2 DEF Distinct
<1>5. CASE i = 1 \/ k = 1
  BY <1>1, <1>2, <1>3, <1>4, <1>5
<1>6. CASE i \in 2..(Len(s) + 1) /\ k \in 2..(Len(s) + 1)
  <2>1. /\ s[i - 1] = s[k - 1] /\ s[i - 1] \in Once
        /\ i - 1 \in DOMAIN s /\ k - 1 \in DOMAIN s
    BY <1>1, <1>2, <1>4, <1>6
  <2>2. i - 1 = k - 1
    BY <2>1 DEF Distinct
  <2>. QED BY <2>2, <1>2
<1>. QED BY <1>2, <1>5, <1>6

LEMMA TakeDistinct ==
  ASSUME NEW s \in Seq(Jobs), s # <<>>, Distinct(s)
  PROVE  /\ Distinct(Tail(s))
         /\ Elements(s) = Elements(Tail(s)) \cup {Head(s)}
         /\ Head(s) \in Once => Head(s) \notin Elements(Tail(s))
<1>1. /\ Len(s) \in Nat \ {0}
      /\ Tail(s) \in Seq(Jobs)
      /\ Len(Tail(s)) = Len(s) - 1
      /\ \A i \in 1..(Len(s) - 1) : Tail(s)[i] = s[i + 1]
      /\ Head(s) = s[1]
  BY HeadTailProperties, EmptySeq
<1>2. DOMAIN s = 1..Len(s) /\ DOMAIN Tail(s) = 1..(Len(s) - 1)
  BY <1>1
<1>3. Distinct(Tail(s))
  <2>1. SUFFICES ASSUME NEW i \in 1..(Len(s) - 1), NEW k \in 1..(Len(s) - 1),
                        Tail(s)[i] = Tail(s)[k], Tail(s)[i] \in Once
                 PROVE  i = k
    BY <1>2 DEF Distinct
  <2>2. /\ s[i + 1] = s[k + 1] /\ s[i + 1] \in Once
        /\ i + 1 \in DOMAIN s /\ k + 1 \in DOMAIN s
    BY <1>1, <1>2, <2>1
  <2>3. i + 1 = k + 1
    BY <2>2 DEF Distinct
  <2>. QED BY <2>3
<1>4. Elements(s) \subseteq Elements(Tail(s)) \cup {Head(s)}
  <2>1. SUFFICES ASSUME NEW i \in 1..Len(s), i # 1
                 PROVE  s[i] \in Elements(Tail(s))
    BY <1>1, <1>2 DEF Elements
  <2>2. i - 1 \in DOMAIN Tail(s) /\ Tail(s)[i - 1] = s[i]
    BY <1>1, <1>2, <2>1
  <2>. QED BY <2>2, Zenon DEF Elements
<1>5. ASSUME Head(s) \in Once, Head(s) \in Elements(Tail(s))
      PROVE  FALSE
  <2>1. PICK i \in 1..(Len(s) - 1) : Tail(s)[i] = s[1]
    BY <1>1, <1>2, <1>5 DEF Elements
  <2>2. s[i + 1] = s[1] /\ s[1] \in Once /\ i + 1 \in DOMAIN s /\ 1 \in DOMAIN s
    BY <1>1, <1>2, <1>5, <2>1
  <2>3. i + 1 = 1
    BY <2>2 DEF Distinct
  <2>. QED BY <2>3
<1>. QED BY <1>3, <1>4, <1>5, ElementsOfTaken

-----------------------------------------------------------------------------
(* The steps that hand a task over or delete it. *)

LEMMA Kinds ==
  /\ Once \subseteq Jobs
  /\ Control \subseteq Jobs
  /\ Once \cap Control = {}
  /\ Tasks \cap Events = {}
  /\ Nobody \notin Jobs
  BY JobsAssumption DEF Jobs, Once

(* Nothing moves. *)
LEMMA StillOwned ==
  ASSUME OwnInv, UNCHANGED <<taskList, eventList, popped, current, freed, added>>,
         \A e \in Events : fate'[e] = "new" <=> fate[e] = "new",
         \A e \in eventList : fate'[e] = "fired" => fate[e] = "fired"
  PROVE  OwnInv'
  BY DEF OwnInv, Distinct, Apart, Accounted, FiredLeft, Placed, InUse

(* addTask of a task that is in no place, and that stays out of the others. *)
LEMMA AddOwned ==
  ASSUME TypeOK, OwnInv, NEW t \in Jobs, AddTask(t, FALSE),
         t \in Once => ~Placed(t) /\ t \in Tasks,
         UNCHANGED <<eventList, popped, current, fate>>
  PROVE  OwnInv'
<1>. USE Kinds
<1>1. taskList \in Seq(Jobs) /\ added \in Seq(Jobs) /\ freed \subseteq Jobs
  BY DEF TypeOK, DispatcherTypeOK
<1>2. CASE dispatcherState = "RUNNING"
  <2>1. /\ taskList' = Append(taskList, t)
        /\ added' = Append(added, t)
        /\ freed' = freed
    BY <1>2, Zenon DEF AddTask, Pushed
  <2>2. /\ Elements(taskList') = Elements(taskList) \cup {t}
        /\ Elements(added') = Elements(added) \cup {t}
    BY <1>1, <2>1, ElementsOfPushed
  <2>3. Distinct(taskList')
    BY <1>1, <2>1, AppendDistinct DEF OwnInv, Placed
  <2>4. Apart'
    BY <2>1, <2>2 DEF OwnInv, Apart, Placed
  <2>5. Accounted'
    BY <2>1, <2>2 DEF OwnInv, Accounted, Placed, InUse, Once
  <2>. QED BY <2>3, <2>4, <2>5 DEF OwnInv, FiredLeft
<1>3. CASE dispatcherState # "RUNNING"
  <2>1. freed' = freed \cup {t} /\ UNCHANGED <<taskList, added>>
    BY <1>3, Zenon DEF AddTask, queueVars
  <2>2. Distinct(taskList') /\ Apart' /\ Accounted' /\ FiredLeft'
    BY <2>1 DEF OwnInv, Apart, Accounted, Placed, InUse, Once, FiredLeft
  <2>. QED BY <2>2 DEF OwnInv
<1>. QED BY <1>2, <1>3

LEMMA FinalOwned ==
  ASSUME TypeOK, OwnInv, ShutdownEnds
  PROVE  OwnInv'
<1>. USE Kinds
<1>1. taskList \in Seq(Jobs) /\ added \in Seq(Jobs) /\ "final" \in Control
  BY DEF TypeOK, DispatcherTypeOK, Control
<1>2. /\ taskList' = Append(taskList, "final")
      /\ added' = Append(added, "final")
      /\ UNCHANGED <<eventList, popped, current, freed, fate>>
  BY DEF ShutdownEnds, ShutdownDispatcher, schedulerVars
<1>3. /\ Elements(taskList') = Elements(taskList) \cup {"final"}
      /\ Elements(added') = Elements(added) \cup {"final"}
  BY <1>1, <1>2, ElementsOfPushed
<1>4. Distinct(taskList')
  BY <1>1, <1>2, AppendDistinct DEF OwnInv
<1>5. Apart' /\ Accounted' /\ FiredLeft'
  BY <1>1, <1>2, <1>3 DEF OwnInv, Apart, Accounted, Placed, InUse, Once, FiredLeft
<1>. QED BY <1>4, <1>5 DEF OwnInv

LEMMA LoopOwned ==
  ASSUME TypeOK, PointersOK, OwnInv, DispatcherLoop \/ DispatcherWake(TRUE),
         UNCHANGED schedulerVars
  PROVE  OwnInv'
<1>. USE Kinds
<1>1. taskList \in Seq(Jobs) /\ UNCHANGED <<eventList, popped, fate>>
  BY DEF TypeOK, DispatcherTypeOK, schedulerVars
<1>2. ASSUME taskList # <<>>
      PROVE  /\ Distinct(Tail(taskList))
             /\ Elements(taskList) = Elements(Tail(taskList)) \cup {Head(taskList)}
             /\ Head(taskList) \in Once => Head(taskList) \notin Elements(Tail(taskList))
  BY <1>1, <1>2, TakeDistinct DEF OwnInv
<1>3. CASE DispatcherTake
  <2>1. /\ taskList # <<>>
        /\ current = Nobody
        /\ current' = Head(taskList)
        /\ taskList' = Tail(taskList)
        /\ UNCHANGED <<added, freed>>
    BY <1>3 DEF DispatcherTake, PointersOK, Running
  <2>2. Distinct(taskList') /\ FiredLeft'
    BY <1>1, <1>2, <2>1 DEF OwnInv, FiredLeft
  <2>3. Apart'
    BY <1>1, <1>2, <2>1 DEF OwnInv, Apart
  <2>4. \A j \in Once : Placed(j)' <=> Placed(j)
    BY <1>1, <1>2, <2>1 DEF Placed
  <2>5. Accounted'
    BY <1>1, <2>1, <2>4 DEF OwnInv, Accounted, InUse, Once
  <2>. QED BY <2>2, <2>3, <2>5 DEF OwnInv
<1>4. CASE DispatcherSkip
  <2>1. /\ taskList # <<>>
        /\ freed' = freed \cup {Head(taskList)}
        /\ taskList' = Tail(taskList)
        /\ UNCHANGED <<added, current>>
    BY <1>4 DEF DispatcherSkip
  <2>2. Distinct(taskList') /\ FiredLeft'
    BY <1>1, <1>2, <2>1 DEF OwnInv, FiredLeft
  <2>3. Apart'
    BY <1>1, <1>2, <2>1 DEF OwnInv, Apart
  <2>4. \A j \in Once : Placed(j)' <=> Placed(j)
    BY <1>1, <1>2, <2>1 DEF Placed
  <2>5. \A t \in Tasks : InUse(t)' <=> InUse(t)
    BY <1>2, <2>1 DEF OwnInv, Accounted, Placed, InUse
  <2>6. Accounted'
    BY <1>1, <2>4, <2>5 DEF OwnInv, Accounted, Once
  <2>. QED BY <2>2, <2>3, <2>6 DEF OwnInv
<1>5. CASE DispatcherFinish
  <2>1. /\ freed' = freed \cup {current}
        /\ current' = Nobody
        /\ UNCHANGED <<taskList, added>>
    BY <1>5 DEF DispatcherFinish, queueVars
  <2>2. Distinct(taskList') /\ FiredLeft'
    BY <1>1, <2>1 DEF OwnInv, FiredLeft
  <2>3. Apart'
    BY <1>1, <2>1 DEF OwnInv, Apart
  <2>4. \A j \in Once : Placed(j)' <=> Placed(j)
    BY <1>1, <2>1 DEF Placed
  <2>5. \A t \in Tasks : InUse(t)' <=> InUse(t)
    BY <2>1 DEF OwnInv, Accounted, Placed, InUse
  <2>6. Accounted'
    BY <1>1, <2>4, <2>5 DEF OwnInv, Accounted, Once
  <2>. QED BY <2>2, <2>3, <2>6 DEF OwnInv
<1>6. CASE \/ DispatcherCheck \/ DispatcherWait \/ DispatcherWake(FALSE)
           \/ DispatcherWake(TRUE) \/ DispatcherFindNothing \/ DispatcherTerminate
  <2>1. UNCHANGED <<taskList, added, current, freed>>
    BY <1>6
    DEF DispatcherCheck, DispatcherWait, DispatcherWake, DispatcherFindNothing,
        DispatcherTerminate, queueVars
  <2>. QED BY <1>1, <2>1, StillOwned
<1>. QED BY <1>3, <1>4, <1>5, <1>6 DEF DispatcherLoop

LEMMA AddingOwned ==
  ASSUME TypeOK, OwnInv, NEW e \in Events, NEW d \in 1..MaxDelay, AddEvent(e, d),
         UNCHANGED <<taskList, popped, current, added>>
  PROVE  OwnInv'
<1>. USE Kinds
<1>1. fate[e] = "new" /\ ~Placed(e)
  BY DEF AddEvent, OwnInv, Accounted
<1>2. /\ fate'[e] \in {"armed", "lost"}
      /\ \A f \in Events \ {e} : fate'[f] = fate[f]
  BY DEF AddEvent, TypeOK, SchedulerTypeOK
<1>3. \/ eventList' = eventList \cup {e} /\ freed' = freed
      \/ eventList' = eventList /\ freed' = freed \cup {e}
  BY Zenon DEF AddEvent
<1>4. eventList \subseteq Events
  BY DEF TypeOK, SchedulerTypeOK
<1>5. Apart'
  BY <1>1, <1>3 DEF OwnInv, Apart, Placed
<1>6. \A f \in Events : Placed(f)' <=> Placed(f) \/ f = e
  BY <1>3 DEF Placed
<1>7. \A t \in Tasks : (Placed(t)' <=> Placed(t)) /\ (InUse(t)' <=> InUse(t))
  BY <1>3 DEF Placed, InUse
<1>8. Accounted'
  BY <1>2, <1>6, <1>7 DEF OwnInv, Accounted
<1>9. FiredLeft'
  BY <1>2, <1>3, <1>4 DEF OwnInv, FiredLeft
<1>. QED BY <1>5, <1>8, <1>9 DEF OwnInv

LEMMA ClearingOwned ==
  ASSUME TypeOK, OwnInv, ShutdownClearsEvents
  PROVE  OwnInv'
<1>. USE Kinds
<1>1. /\ freed' = freed \cup eventList
      /\ eventList' = {}
      /\ UNCHANGED <<taskList, popped, current, added>>
  BY DEF ShutdownClearsEvents, ClearEvents, queueVars
<1>2. /\ \A e \in Events : fate'[e] = "new" <=> fate[e] = "new"
      /\ eventList \subseteq Events
  BY DEF ShutdownClearsEvents, ClearEvents, TypeOK, SchedulerTypeOK
<1>3. Apart'
  BY <1>1 DEF OwnInv, Apart
<1>4. \A j \in Once : Placed(j)' <=> Placed(j)
  BY <1>1 DEF Placed
<1>5. \A t \in Tasks : InUse(t)' <=> InUse(t)
  BY <1>1, <1>2 DEF InUse
<1>6. Accounted'
  BY <1>2, <1>4, <1>5 DEF OwnInv, Accounted, Once
<1>. QED BY <1>1, <1>3, <1>6 DEF OwnInv, FiredLeft

LEMMA PopOwned ==
  ASSUME TypeOK, PointersOK, OwnInv, SchedulerPop
  PROVE  OwnInv'
<1>. USE Kinds
<1>1. PICK e \in Tops :
        /\ eventList' = eventList \ {e}
        /\ \/ popped' = e /\ freed' = freed /\ fate' = [fate EXCEPT ![e] = "fired"]
           \/ freed' = freed \cup {e} /\ UNCHANGED <<popped, fate>>
  BY DEF SchedulerPop
<1>2. e \in eventList /\ e \in Events /\ popped = Nobody /\ eventList \subseteq Events
  BY DEF Tops, TypeOK, SchedulerTypeOK, PointersOK, SchedulerPop
<1>3. UNCHANGED <<taskList, current, added>>
  BY DEF SchedulerPop, queueVars
<1>4. /\ \A f \in Events : fate'[f] = "new" <=> fate[f] = "new"
      /\ \A f \in Events \ {e} : fate'[f] = fate[f]
  <2>1. fate[e] # "new"
    BY <1>2 DEF OwnInv, Accounted, Placed
  <2>. QED BY <1>1, <1>2, <2>1 DEF TypeOK, SchedulerTypeOK
<1>5. Apart'
  BY <1>1, <1>2, <1>3 DEF OwnInv, Apart, Once
<1>6. \A j \in Once : Placed(j)' <=> Placed(j)
  BY <1>1, <1>2, <1>3 DEF Placed
<1>7. \A t \in Tasks : InUse(t)' <=> InUse(t)
  BY <1>1, <1>2, <1>3 DEF InUse
<1>8. Accounted'
  BY <1>4, <1>6, <1>7 DEF OwnInv, Accounted, Once
<1>9. FiredLeft'
  BY <1>1, <1>2, <1>4 DEF OwnInv, FiredLeft
<1>. QED BY <1>3, <1>5, <1>8, <1>9 DEF OwnInv

LEMMA HandOffOwned ==
  ASSUME TypeOK, PointersOK, OwnInv, SchedulerHandOff
  PROVE  OwnInv'
<1>. USE Kinds
<1>1. /\ AddTask(popped, TRUE)
      /\ popped' = Nobody
      /\ UNCHANGED <<eventList, fate, current>>
  BY DEF SchedulerHandOff, heapVars
<1>2. popped \in Events /\ popped \in Once /\ popped \in Jobs /\ taskList \in Seq(Jobs)
  BY DEF SchedulerHandOff, TypeOK, SchedulerTypeOK, DispatcherTypeOK, PointersOK, Jobs,
         Once
<1>3. \/ taskList' = <<popped>> \o taskList /\ UNCHANGED <<freed, added>>
      \/ taskList' = taskList /\ freed' = freed \cup {popped} /\ added' = added
  BY <1>1, Zenon DEF AddTask, Pushed, queueVars
<1>4. Elements(<<popped>> \o taskList) = Elements(taskList) \cup {popped}
  BY <1>2, ElementsOfPushed
<1>5. Distinct(taskList')
  BY <1>2, <1>3, PushDistinct DEF OwnInv, Apart
<1>6. Apart'
  BY <1>1, <1>2, <1>3, <1>4 DEF OwnInv, Apart
<1>7. \A j \in Once : Placed(j)' <=> Placed(j)
  <2>1. \/ Elements(taskList') = Elements(taskList) \cup {popped} /\ freed' = freed
        \/ Elements(taskList') = Elements(taskList) /\ freed' = freed \cup {popped}
    BY <1>3, <1>4, Zenon
  <2>. QED BY <1>1, <1>2, <2>1 DEF Placed
<1>8. \A t \in Tasks : InUse(t)' <=> InUse(t)
  BY <1>2, <1>3 DEF InUse
<1>9. Accounted'
  BY <1>1, <1>7, <1>8 DEF OwnInv, Accounted, Once
<1>. QED BY <1>1, <1>5, <1>6, <1>9 DEF OwnInv, FiredLeft

LEMMA QuietOwned ==
  ASSUME SchedulerInv, OwnInv, QuietStep
  PROVE  OwnInv'
<1>. USE Kinds DEF queueVars, dispatcherVars, schedulerVars, heapVars
<1>1. TypeOK /\ PointersOK
  BY DEF SchedulerInv
<1>2. ASSUME NEW t \in Tasks, PostTask(t)
      PROVE  OwnInv'
  <2>1. ~Placed(t) /\ t \in Jobs
    BY <1>2 DEF PostTask, OwnInv, Accounted, Once
  <2>. QED BY <1>1, <1>2, <2>1, AddOwned DEF PostTask
<1>3. ASSUME NEW c \in Control, AddTask(c, FALSE), UNCHANGED <<schedulerVars, current>>
      PROVE  OwnInv'
  BY <1>1, <1>3, AddOwned
<1>4. ASSUME NEW s \in Signals, Signal(s)
      PROVE  OwnInv'
  <2>1. s \in Control
    BY SignalsAssumption DEF Control
  <2>2. AddTask(s, FALSE) /\ UNCHANGED <<schedulerVars, current>>
    BY <1>4 DEF Signal
  <2>. QED BY <2>1, <2>2, <1>3
<1>5. CASE \/ PostShutdown("quit", "shutdown")
           \/ PostShutdown("offline", "offlineShutdown")
           \/ MainGoesOffline
  <2>1. {"shutdown", "offlineShutdown", "offline"} \subseteq Control
    BY DEF Control
  <2>2. PICK c \in {"shutdown", "offlineShutdown", "offline"} :
          AddTask(c, FALSE) /\ UNCHANGED <<schedulerVars, current>>
    BY <1>5 DEF PostShutdown, MainGoesOffline
  <2>. QED BY <2>1, <2>2, <1>3
<1>6. ASSUME NEW e \in Events, TaskStopsEvent(e)
      PROVE  OwnInv'
  <2>1. /\ fate[e] = "armed"
        /\ fate' = [fate EXCEPT ![e] = "stopped"]
        /\ UNCHANGED <<taskList, eventList, popped, current, freed, added>>
    BY <1>6 DEF TaskStopsEvent, StopEvent, SchedulerInv, IdInv
  <2>2. eventList \subseteq Events /\ fate \in [Events -> Fate]
    BY <1>1 DEF TypeOK, SchedulerTypeOK
  <2>. QED BY <2>1, <2>2, StillOwned
<1>7. CASE \/ TaskReadsEventId \/ QuitBegins \/ QuitAgain \/ StopScheduler
           \/ StopDispatcherToo \/ ShutdownSetsState \/ ShutdownNotifies \/ MainServes
           \/ ServiceReadsEventId \/ MainStopsServing \/ MainJoins
  <2>1. UNCHANGED <<taskList, eventList, popped, current, freed, added, fate>>
    BY <1>7
    DEF TaskReadsEventId, QuitBegins, QuitAgain, StopScheduler, StopDispatcherToo,
        StopDispatcher, ShutdownSetsState, ShutdownNotifies, MainServes,
        ServiceReadsEventId, MainStopsServing, MainJoins
  <2>. QED BY <2>1, StillOwned
<1>8. CASE (DispatcherLoop \/ DispatcherWake(TRUE)) /\ UNCHANGED <<schedulerVars, systemVars>>
  BY <1>1, <1>8, LoopOwned
<1>. QED
  BY <1>1, <1>2, <1>4, <1>5, <1>6, <1>7, <1>8, FinalOwned, Zenon DEF QuietStep, MainThread

LEMMA StepOwned ==
  ASSUME SchedulerInv, OwnInv, [Next]_vars
  PROVE  OwnInv'
<1>. USE DEF queueVars, dispatcherVars, schedulerVars, heapVars
<1>1. TypeOK /\ PointersOK
  BY DEF SchedulerInv
<1>2. CASE AddingStep
  <2>1. PICK e \in Events, d \in 1..MaxDelay :
          AddEvent(e, d) /\ (TaskAddsEvent(e, d) \/ ServiceAddsEvent(e, d))
    BY <1>2 DEF AddingStep
  <2>2. UNCHANGED <<taskList, popped, current, added>>
    BY <2>1 DEF TaskAddsEvent, ServiceAddsEvent
  <2>. QED BY <1>1, <2>1, <2>2, AddingOwned
<1>3. ASSUME UNCHANGED <<taskList, eventList, popped, current, freed, added, fate>>
      PROVE  OwnInv'
  BY <1>3, StillOwned
<1>4. CASE \/ SchedulerWake(TRUE) /\ UNCHANGED dispatcherVars
           \/ Tick
           \/ UNCHANGED vars
  BY <1>3, <1>4 DEF SchedulerWake, Tick, vars
<1>5. CASE SchedulerLoop
  <2>1. CASE \/ SchedulerCheck \/ SchedulerWait \/ SchedulerWake(FALSE)
             \/ SchedulerTimeout \/ SchedulerNoTimeout \/ SchedulerPopEmpty
    BY <1>3, <2>1
    DEF SchedulerCheck, SchedulerWait, SchedulerWake, SchedulerTimeout,
        SchedulerNoTimeout, SchedulerPopEmpty
  <2>. QED BY <1>1, <1>5, <2>1, PopOwned, HandOffOwned DEF SchedulerLoop
<1>6. CASE Next
  BY <1>1, <1>2, <1>4, <1>5, <1>6, StepKinds, QuietOwned, ClearingOwned, Zenon
<1>. QED BY <1>4, <1>6

-----------------------------------------------------------------------------
(* The events whose addEvent has not returned.  That of the dispatcher thread can be
   deleted only when it was stopped, which takes the dispatcher thread, or when the
   dispatcher refuses it, and the dispatcher stops accepting tasks after the scheduler
   does.  That of the network thread may be deleted when it has fired, or with the rest
   of the heap. *)

(* The dispatcher has been told to stop, or will be. *)
Ending ==
  \/ dispatcherState # "RUNNING"
  \/ "final" \in Elements(taskList)
  \/ current = "final"

ReadingInv ==
  /\ dispatcherPc = "reading"
       => /\ schedulerState = "RUNNING"
          /\ adding["dispatcher"] \in Events
          /\ fate[adding["dispatcher"]] \in {"armed", "fired"}
          /\ adding["dispatcher"] \notin freed
  /\ Ending => schedulerState # "RUNNING"

(* What a deleted event says of the clock and of the scheduler. *)
Over(e) == e \in freed => schedulerState # "RUNNING" \/ cycle[e] <= now

ServiceInv ==
  mainPc = "reading"
    => /\ adding["main"] \in Events
       /\ fate[adding["main"]] # "new"
       /\ Over(adding["main"])

LEMMA SchedulerNeverRestarts ==
  ASSUME SchedulerInv, [Next]_vars, schedulerState' = "RUNNING"
  PROVE  schedulerState = "RUNNING"
<1>1. CASE QuietStep
  BY <1>1, QuietEffect DEF SchedulerInv
<1>2. CASE AddingStep \/ ShutdownClearsEvents
  BY <1>2 DEF AddingStep, TaskAddsEvent, ServiceAddsEvent, ShutdownClearsEvents
<1>3. CASE SchedulerLoop \/ SchedulerWake(TRUE) \/ Tick \/ UNCHANGED vars
  BY <1>3
  DEF SchedulerLoop, SchedulerCheck, SchedulerWait, SchedulerWake, SchedulerTimeout,
      SchedulerNoTimeout, SchedulerPop, SchedulerPopEmpty, SchedulerHandOff, Tick, vars,
      schedulerVars
<1>. QED BY <1>1, <1>2, <1>3, StepKinds

LEMMA StepEnding ==
  ASSUME SchedulerInv, [Next]_vars, ~Ending, Ending'
  PROVE  Stopped
<1>. USE Kinds DEF queueVars, dispatcherVars, schedulerVars, heapVars
<1>1. /\ TypeOK /\ PointersOK
      /\ taskList \in Seq(Jobs)
      /\ dispatcherState = "RUNNING"
      /\ "final" \notin Elements(taskList)
      /\ current # "final"
      /\ "final" \in Control
  BY DEF SchedulerInv, TypeOK, DispatcherTypeOK, Ending, Control
<1>2. ASSUME NEW t \in Jobs \ {"final"}, NEW front \in BOOLEAN, AddTask(t, front),
             UNCHANGED <<dispatcherState, current>>
      PROVE  FALSE
  <2>1. "final" \notin Elements(taskList')
    BY <1>1, <1>2, AddTaskElements DEF TypeOK
  <2>. QED BY <1>1, <1>2, <2>1 DEF Ending
<1>3. ASSUME UNCHANGED <<dispatcherState, taskList, current>>
      PROVE  FALSE
  BY <1>1, <1>3 DEF Ending
<1>4. CASE DispatcherLoop \/ DispatcherWake(TRUE)
  <2>1. ASSUME taskList # <<>>
        PROVE  /\ Head(taskList) \in Elements(taskList)
               /\ Elements(Tail(taskList)) \subseteq Elements(taskList)
    BY <1>1, <2>1, ElementsOfTaken
  <2>2. CASE DispatcherTake \/ DispatcherSkip
    BY <1>1, <2>1, <2>2 DEF DispatcherTake, DispatcherSkip, Ending
  <2>3. CASE DispatcherFinish
    BY <1>1, <2>3 DEF DispatcherFinish, Ending
  <2>4. CASE DispatcherTerminate
    BY <1>1, <2>4 DEF DispatcherTerminate
  <2>5. CASE \/ DispatcherCheck \/ DispatcherWait \/ DispatcherWake(FALSE)
             \/ DispatcherWake(TRUE) \/ DispatcherFindNothing
    BY <1>3, <2>5
    DEF DispatcherCheck, DispatcherWait, DispatcherWake, DispatcherFindNothing
  <2>. QED BY <1>4, <2>2, <2>3, <2>4, <2>5 DEF DispatcherLoop
<1>5. ASSUME NEW t \in Tasks, PostTask(t)
      PROVE  FALSE
  BY <1>1, <1>2, <1>5 DEF PostTask, Once
<1>6. ASSUME NEW s \in Signals, Signal(s)
      PROVE  FALSE
  <2>1. s \in Jobs \ {"final"}
    BY SignalsAssumption DEF Control
  <2>. QED BY <1>2, <1>6, <2>1 DEF Signal
<1>7. CASE \/ PostShutdown("quit", "shutdown")
           \/ PostShutdown("offline", "offlineShutdown")
           \/ MainGoesOffline
  <2>1. {"shutdown", "offlineShutdown", "offline"} \subseteq Jobs \ {"final"}
    BY DEF Control
  <2>2. PICK c \in {"shutdown", "offlineShutdown", "offline"} :
          AddTask(c, FALSE) /\ UNCHANGED <<dispatcherState, current>>
    BY <1>7 DEF PostShutdown, MainGoesOffline
  <2>. QED BY <2>1, <2>2, <1>2
<1>8. CASE StopDispatcherToo \/ ShutdownEnds
  BY <1>8 DEF StopDispatcherToo, ShutdownEnds, Stopped
<1>9. ASSUME \/ \E e \in Events : TaskStopsEvent(e)
             \/ TaskReadsEventId \/ QuitBegins \/ QuitAgain \/ StopScheduler
             \/ ShutdownSetsState \/ ShutdownNotifies \/ MainServes
             \/ ServiceReadsEventId \/ MainStopsServing
             \/ MainJoins \/ ShutdownClearsEvents \/ AddingStep
      PROVE  FALSE
  BY <1>3, <1>9
  DEF TaskStopsEvent, TaskReadsEventId, QuitBegins, QuitAgain, StopScheduler,
      ShutdownSetsState, ShutdownNotifies, MainServes, ServiceReadsEventId,
      MainStopsServing, MainJoins, ShutdownClearsEvents, AddingStep, TaskAddsEvent,
      ServiceAddsEvent
<1>10. CASE SchedulerLoop
  <2>1. CASE SchedulerHandOff
    <3>1. popped \in Jobs \ {"final"}
      BY <2>1, <1>1 DEF SchedulerHandOff, TypeOK, SchedulerTypeOK, PointersOK, Once
    <3>. QED BY <2>1, <3>1, <1>2 DEF SchedulerHandOff
  <2>2. CASE \/ SchedulerCheck \/ SchedulerWait \/ SchedulerWake(FALSE) \/ SchedulerPop
             \/ SchedulerTimeout \/ SchedulerNoTimeout \/ SchedulerPopEmpty
    BY <1>3, <2>2
    DEF SchedulerCheck, SchedulerWait, SchedulerWake, SchedulerTimeout,
        SchedulerNoTimeout, SchedulerPop, SchedulerPopEmpty
  <2>. QED BY <1>10, <2>1, <2>2 DEF SchedulerLoop
<1>11. ASSUME \/ SchedulerWake(TRUE) /\ UNCHANGED dispatcherVars
              \/ Tick
              \/ UNCHANGED vars
       PROVE  FALSE
  BY <1>3, <1>11 DEF SchedulerWake, Tick, vars
<1>12. CASE QuietStep
  BY <1>4, <1>5, <1>6, <1>7, <1>8, <1>9, <1>12, Zenon DEF QuietStep, MainThread
<1>. QED BY <1>9, <1>10, <1>11, <1>12, StepKinds

LEMMA StepReading ==
  ASSUME SchedulerInv, OwnInv, ReadingInv, [Next]_vars
  PROVE  ReadingInv'
<1>. USE Kinds DEF queueVars, dispatcherVars, schedulerVars, heapVars, systemVars
<1>0. adding \in [Callers -> Events \cup {Nobody}] /\ Callers = {"dispatcher", "main"}
  BY DEF SchedulerInv, TypeOK, Callers
<1>1. TypeOK /\ PointersOK /\ Stopped => schedulerState # "RUNNING"
  BY DEF SchedulerInv, TimerInv, StoppedForGood
<1>2. (Ending => schedulerState # "RUNNING")'
  BY <1>1, StepEnding, SchedulerNeverRestarts DEF ReadingInv, SchedulerInv
<1>3. ASSUME dispatcherPc' # "reading"
      PROVE  ReadingInv'
  BY <1>2, <1>3 DEF ReadingInv
<1>4. ASSUME UNCHANGED <<dispatcherPc, schedulerState, fate>>,
             adding'["dispatcher"] = adding["dispatcher"],
             freed' \cap Events \subseteq freed
      PROVE  ReadingInv'
  BY <1>2, <1>4 DEF ReadingInv
<1>5. ASSUME NEW t \in Tasks \cup Control, AddTask(t, FALSE)
      PROVE  freed' \cap Events \subseteq freed
  <2>1. t \notin Events
    BY DEF Once
  <2>. QED BY <1>5, <2>1, Zenon DEF AddTask
<1>6. CASE QuietStep
  <2>1. CASE \/ DispatcherLoop \/ DispatcherWake(TRUE) \/ TaskBody
             \/ PostShutdown("quit", "shutdown")
    <3>1. dispatcherPc' # "reading"
      BY <2>1
      DEF DispatcherLoop, DispatcherCheck, DispatcherWait, DispatcherWake,
          DispatcherFindNothing, DispatcherTake, DispatcherSkip, DispatcherFinish,
          DispatcherTerminate, TaskBody, TaskReadsEventId, QuitBegins, PostShutdown,
          QuitAgain, StopScheduler, StopDispatcherToo, ShutdownSetsState, ShutdownClearsEvents,
          ShutdownNotifies, ShutdownEnds
    <3>. QED BY <3>1, <1>3
  <2>2. CASE \E t \in Tasks : PostTask(t)
    <3>1. PICK t \in Tasks :
            AddTask(t, FALSE) /\ UNCHANGED <<dispatcherPc, schedulerVars, adding>>
      BY <2>2 DEF PostTask
    <3>. QED BY <3>1, <1>4, <1>5
  <2>3. CASE (\E s \in Signals : Signal(s)) \/ MainGoesOffline
    <3>1. "offline" \in Control /\ Signals \subseteq Control
      BY SignalsAssumption DEF Control
    <3>2. PICK c \in Control :
            AddTask(c, FALSE) /\ UNCHANGED <<dispatcherPc, schedulerVars, adding>>
      BY <2>3, <3>1 DEF Signal, MainGoesOffline
    <3>. QED BY <3>2, <1>4, <1>5
  <2>4. CASE \E e \in Events : TaskStopsEvent(e)
    <3>1. dispatcherPc' # "reading"
      BY <2>4 DEF TaskStopsEvent, InGame
    <3>. QED BY <3>1, <1>3
  <2>5. CASE MainServes \/ ServiceReadsEventId \/ MainStopsServing \/ MainJoins
    <3>1. /\ UNCHANGED <<dispatcherPc, schedulerState, fate, freed>>
          /\ adding' \in {adding, [adding EXCEPT !["main"] = Nobody]}
      BY <2>5 DEF MainServes, ServiceReadsEventId, MainStopsServing, MainJoins
    <3>2. adding'["dispatcher"] = adding["dispatcher"]
      BY <1>0, <3>1
    <3>. QED BY <3>1, <3>2, <1>4
  <2>. QED BY <1>6, <2>1, <2>2, <2>3, <2>4, <2>5, Zenon DEF QuietStep, TaskBody, MainThread
<1>7. CASE ShutdownClearsEvents
  BY <1>3, <1>7 DEF ShutdownClearsEvents
<1>8. CASE AddingStep
  <2>1. PICK e \in Events, d \in 1..MaxDelay :
          AddEvent(e, d) /\ (TaskAddsEvent(e, d) \/ ServiceAddsEvent(e, d))
    BY <1>8 DEF AddingStep
  <2>2. fate[e] = "new" /\ e \notin freed
    BY <2>1 DEF AddEvent, OwnInv, Accounted, Placed
  <2>3. UNCHANGED schedulerState
    BY <2>1 DEF TaskAddsEvent, ServiceAddsEvent
  <2>4. CASE schedulerState = "RUNNING"
    <3>1. fate' = [fate EXCEPT ![e] = "armed"] /\ freed' = freed
      BY <2>1, <2>4, Zenon DEF AddEvent
    <3>2. \/ adding'["dispatcher"] = e
          \/ UNCHANGED dispatcherPc /\ adding'["dispatcher"] = adding["dispatcher"]
      BY <1>0, <2>1, <2>4 DEF TaskAddsEvent, ServiceAddsEvent
    <3>3. fate'[e] = "armed" /\ \A f \in Events \ {e} : fate'[f] = fate[f]
      BY <3>1, <1>1 DEF TypeOK, SchedulerTypeOK, SchedulerInv
    <3>. QED BY <1>2, <2>2, <2>3, <2>4, <3>1, <3>2, <3>3 DEF ReadingInv
  <2>5. CASE schedulerState # "RUNNING"
    <3>1. dispatcherPc' = dispatcherPc
      BY <2>1, <2>5, Zenon DEF TaskAddsEvent, ServiceAddsEvent
    <3>2. dispatcherPc # "reading"
      BY <2>5 DEF ReadingInv
    <3>. QED BY <3>1, <3>2, <1>3
  <2>. QED BY <2>4, <2>5
<1>9. CASE SchedulerLoop /\ UNCHANGED systemVars
  <2>1. CASE SchedulerPop
    <3>1. PICK e \in Tops :
            \/ freed' = freed /\ fate' = [fate EXCEPT ![e] = "fired"]
            \/ ~IsWanted(e) /\ freed' = freed \cup {e} /\ UNCHANGED fate
      BY <2>1 DEF SchedulerPop
    <3>2. UNCHANGED <<dispatcherPc, schedulerState, adding>>
      BY <1>9, <2>1 DEF SchedulerPop
    <3>3. e \in eventList /\ e \in Events /\ fate \in [Events -> Fate]
      BY DEF Tops, SchedulerInv, TypeOK, SchedulerTypeOK
    <3>4. fate[e] # "fired" /\ (~IsWanted(e) => fate[e] # "armed")
      BY <3>3 DEF OwnInv, FiredLeft, IsWanted, SchedulerInv, IdInv
    <3>5. CASE freed' = freed /\ fate' = [fate EXCEPT ![e] = "fired"]
      BY <1>2, <3>2, <3>3, <3>5 DEF ReadingInv
    <3>6. CASE ~IsWanted(e) /\ freed' = freed \cup {e} /\ UNCHANGED fate
      BY <1>2, <3>2, <3>4, <3>6 DEF ReadingInv
    <3>. QED BY <3>1, <3>5, <3>6
  <2>2. CASE SchedulerHandOff
    <3>1. UNCHANGED <<dispatcherPc, schedulerState, adding, fate>>
      BY <1>9, <2>2 DEF SchedulerHandOff
    <3>2. dispatcherState = "RUNNING" => freed' = freed
      BY <2>2, Zenon DEF SchedulerHandOff, AddTask
    <3>3. dispatcherState # "RUNNING" => dispatcherPc' # "reading"
      BY <3>1 DEF ReadingInv, Ending
    <3>. QED BY <3>1, <3>2, <3>3, <1>3, <1>4
  <2>3. CASE \/ SchedulerCheck \/ SchedulerWait \/ SchedulerWake(FALSE)
             \/ SchedulerTimeout \/ SchedulerNoTimeout \/ SchedulerPopEmpty
    BY <1>4, <1>9, <2>3
    DEF SchedulerCheck, SchedulerWait, SchedulerWake, SchedulerTimeout,
        SchedulerNoTimeout, SchedulerPopEmpty
  <2>. QED BY <1>9, <2>1, <2>2, <2>3 DEF SchedulerLoop
<1>10. CASE \/ SchedulerWake(TRUE) /\ UNCHANGED <<dispatcherVars, systemVars>>
            \/ Tick /\ UNCHANGED systemVars
            \/ UNCHANGED vars
  BY <1>4, <1>10 DEF SchedulerWake, Tick, vars
<1>11. CASE DispatcherThread \/ MainThread
  BY <1>6, <1>7, <1>11 DEF DispatcherThread, TaskBody, QuietStep
<1>12. CASE Choice
  BY <1>6, <1>8, <1>10, <1>12
  DEF Choice, QuietStep, AddingStep, TaskAddsEvent, ServiceAddsEvent
<1>. QED BY <1>9, <1>10, <1>11, <1>12 DEF Next, SchedulerThread, Time

(* What a step may delete of the events. *)
LEMMA StepFrees ==
  ASSUME SchedulerInv, [Next]_vars, NEW e \in Events, fate[e] # "new"
  PROVE  /\ now <= now'
         /\ cycle'[e] = cycle[e]
         /\ fate'[e] # "new"
         /\ e \in freed' => e \in freed \/ cycle[e] <= now \/ schedulerState # "RUNNING"
<1>. USE Kinds DEF queueVars, dispatcherVars, schedulerVars, heapVars, systemVars
<1>1. /\ TypeOK /\ PointersOK
      /\ now \in Nat
      /\ cycle \in [Events -> 0..MaxTime] /\ fate \in [Events -> Fate]
      /\ eventList \subseteq Events /\ Events \subseteq Once
      /\ OnItsWay(e) => cycle[e] <= now
  BY SchedulerAssumption
  DEF SchedulerInv, TypeOK, SchedulerTypeOK, TimerInv, NoEarlyFire, Once
<1>2. ASSUME UNCHANGED <<now, cycle>>, fate'[e] # "new",
             e \in freed' => e \in freed \/ OnItsWay(e) \/ schedulerState # "RUNNING"
      PROVE  /\ now <= now'
             /\ cycle'[e] = cycle[e]
             /\ fate'[e] # "new"
             /\ e \in freed' => e \in freed \/ cycle[e] <= now \/ schedulerState # "RUNNING"
  BY <1>1, <1>2
<1>3. CASE QuietStep
  <2>1. UNCHANGED <<now, cycle>> /\ fate'[e] # "new"
    BY <1>1, <1>3, QuietEffect
  <2>2. ASSUME NEW t \in Tasks \cup Control, AddTask(t, FALSE)
        PROVE  e \in freed' => e \in freed
    BY <1>1, <2>2, Zenon DEF AddTask, Once
  <2>3. CASE DispatcherLoop \/ DispatcherWake(TRUE)
    <3>1. taskList # <<>> => Head(taskList) \in Elements(taskList)
      BY <1>1, ElementsOfTaken DEF TypeOK, DispatcherTypeOK
    <3>2. \/ freed' = freed
          \/ freed' = freed \cup {Head(taskList)} /\ taskList # <<>>
          \/ freed' = freed \cup {current}
      BY <2>3
      DEF DispatcherLoop, DispatcherCheck, DispatcherWait, DispatcherWake,
          DispatcherFindNothing, DispatcherTake, DispatcherSkip, DispatcherFinish,
          DispatcherTerminate
    <3>3. e \in freed' => e \in freed \/ OnItsWay(e)
      BY <3>1, <3>2, Zenon DEF OnItsWay
    <3>. QED BY <2>1, <3>3, <1>2
  <2>4. ASSUME \/ \E t \in Tasks : PostTask(t)
               \/ \E s \in Signals : Signal(s)
               \/ PostShutdown("quit", "shutdown")
               \/ PostShutdown("offline", "offlineShutdown")
               \/ MainGoesOffline
        PROVE  e \in freed' => e \in freed
    <3>1. /\ Signals \subseteq Control
          /\ {"shutdown", "offlineShutdown", "offline"} \subseteq Control
      BY SignalsAssumption DEF Control
    <3>2. \E t \in Tasks \cup Control : AddTask(t, FALSE)
      BY <2>4, <3>1 DEF PostTask, Signal, PostShutdown, MainGoesOffline
    <3>. QED BY <3>2, <2>2
  <2>5. ASSUME \/ \E f \in Events : TaskStopsEvent(f)
               \/ TaskReadsEventId \/ QuitBegins \/ QuitAgain \/ StopScheduler
               \/ StopDispatcherToo \/ ShutdownSetsState \/ ShutdownNotifies
               \/ ShutdownEnds \/ MainServes \/ ServiceReadsEventId \/ MainStopsServing
               \/ MainJoins
        PROVE  freed' = freed
    BY <2>5
    DEF TaskStopsEvent, TaskReadsEventId, QuitBegins, QuitAgain, StopScheduler,
        StopDispatcherToo, StopDispatcher, ShutdownSetsState, ShutdownNotifies,
        ShutdownEnds, ShutdownDispatcher, MainServes, ServiceReadsEventId,
        MainStopsServing, MainJoins
  <2>6. CASE ~(DispatcherLoop \/ DispatcherWake(TRUE))
    <3>1. e \in freed' => e \in freed
      BY <1>3, <2>4, <2>5, <2>6, Zenon DEF QuietStep, MainThread
    <3>. QED BY <2>1, <3>1, <1>2
  <2>. QED BY <2>3, <2>6
<1>4. CASE AddingStep
  <2>1. PICK f \in Events, d \in 1..MaxDelay :
          AddEvent(f, d) /\ (TaskAddsEvent(f, d) \/ ServiceAddsEvent(f, d))
    BY <1>4 DEF AddingStep
  <2>2. f # e /\ cycle' = [cycle EXCEPT ![f] = now + d]
    BY <2>1 DEF AddEvent
  <2>3. freed' \in {freed, freed \cup {f}} /\ fate'[e] = fate[e]
    BY <1>1, <2>1, <2>2 DEF AddEvent
  <2>4. now' = now /\ cycle'[e] = cycle[e]
    BY <1>1, <2>1, <2>2 DEF TaskAddsEvent, ServiceAddsEvent
  <2>. QED BY <1>1, <2>2, <2>3, <2>4
<1>5. CASE ShutdownClearsEvents
  <2>1. schedulerState # "RUNNING"
    BY <1>5 DEF ShutdownClearsEvents, SchedulerInv, TimerInv, StoppedForGood, Stopped
  <2>2. UNCHANGED <<now, cycle>> /\ fate'[e] # "new"
    BY <1>1, <1>5 DEF ShutdownClearsEvents, ClearEvents
  <2>. QED BY <2>1, <2>2, <1>2
<1>6. CASE SchedulerPop
  <2>1. PICK f \in Tops :
          \/ freed' = freed /\ fate' = [fate EXCEPT ![f] = "fired"]
          \/ freed' = freed \cup {f} /\ UNCHANGED fate
    BY <1>6 DEF SchedulerPop
  <2>2. UNCHANGED <<now, cycle>>
    BY <1>6 DEF SchedulerPop
  <2>3. DueBy(now)
    BY <1>6 DEF SchedulerPop, SchedulerInv, TimerInv, DeadlineMet
  <2>4. f \in eventList /\ \A g \in eventList : cycle[f] <= cycle[g]
    BY DEF Tops
  <2>5. f = e => cycle[e] <= now
    BY <1>1, <2>3, <2>4, SchedulerAssumption DEF DueBy
  <2>6. fate'[e] # "new"
    BY <1>1, <2>1
  <2>. QED BY <1>1, <2>1, <2>2, <2>5, <2>6
<1>7. CASE SchedulerHandOff
  <2>1. UNCHANGED <<now, cycle, fate>>
    BY <1>7 DEF SchedulerHandOff
  <2>2. e \in freed' => e \in freed \/ OnItsWay(e)
    BY <1>7, Zenon DEF SchedulerHandOff, AddTask, OnItsWay
  <2>. QED BY <2>1, <2>2, <1>2
<1>8. CASE \/ SchedulerCheck \/ SchedulerWait \/ SchedulerWake(FALSE)
           \/ SchedulerTimeout \/ SchedulerNoTimeout \/ SchedulerPopEmpty
           \/ SchedulerWake(TRUE) /\ UNCHANGED dispatcherVars
           \/ UNCHANGED vars
  <2>1. UNCHANGED <<now, cycle, fate, freed>>
    BY <1>8
    DEF SchedulerCheck, SchedulerWait, SchedulerWake, SchedulerTimeout,
        SchedulerNoTimeout, SchedulerPopEmpty, vars
  <2>. QED BY <2>1, <1>2
<1>9. CASE Tick
  <2>1. now' = now + 1 /\ UNCHANGED <<cycle, fate, freed>>
    BY <1>9 DEF Tick
  <2>. QED BY <1>1, <2>1
<1>. QED
  BY <1>3, <1>4, <1>5, <1>6, <1>7, <1>8, <1>9, StepKinds, Zenon DEF SchedulerLoop

LEMMA StepService ==
  ASSUME SchedulerInv, OwnInv, ServiceInv, [Next]_vars
  PROVE  ServiceInv'
<1>. USE DEF dispatcherVars, schedulerVars, systemVars
<1>1. /\ TypeOK /\ fate \in [Events -> Fate] /\ now \in Nat /\ now' \in Nat
      /\ \A e \in Events : cycle[e] \in Nat
      /\ adding \in [Callers -> Events \cup {Nobody}] /\ Callers = {"dispatcher", "main"}
  <2>1. TypeOK'
    BY StepTypes DEF SchedulerInv
  <2>2. now' \in Nat
    BY <2>1, SchedulerAssumption DEF TypeOK, SchedulerTypeOK
  <2>3. now \in Nat /\ \A e \in Events : cycle[e] \in Nat
    BY SchedulerAssumption DEF SchedulerInv, TypeOK, SchedulerTypeOK
  <2>. QED BY <2>2, <2>3 DEF SchedulerInv, TypeOK, SchedulerTypeOK, Callers
<1>2. ASSUME mainPc' # "reading"
      PROVE  ServiceInv'
  BY <1>2 DEF ServiceInv
<1>3. ASSUME mainPc' = mainPc, adding'["main"] = adding["main"]
      PROVE  ServiceInv'
  <2>1. SUFFICES ASSUME mainPc = "reading"
                 PROVE  ServiceInv'
    BY <1>3 DEF ServiceInv
  <2>. DEFINE e == adding["main"]
  <2>2. e \in Events /\ fate[e] # "new" /\ Over(e)
    BY <2>1 DEF ServiceInv
  <2>3. /\ now <= now'
        /\ cycle'[e] = cycle[e]
        /\ fate'[e] # "new"
        /\ e \in freed' => e \in freed \/ cycle[e] <= now \/ schedulerState # "RUNNING"
    BY <2>2, StepFrees
  <2>4. schedulerState' = "RUNNING" => schedulerState = "RUNNING"
    BY SchedulerNeverRestarts
  <2>5. cycle[e] \in Nat
    BY <1>1, <2>2
  <2>. HIDE DEF e
  <2>6. cycle[e] <= now => cycle'[e] <= now'
    BY <1>1, <2>3, <2>5
  <2>7. e \in freed' => schedulerState' # "RUNNING" \/ cycle'[e] <= now'
    BY <2>2, <2>3, <2>4, <2>6 DEF Over
  <2>8. adding'["main"] = e
    BY <1>3 DEF e
  <2>. QED BY <2>2, <2>3, <2>7, <2>8 DEF ServiceInv, Over
<1>4. ASSUME NEW e \in Events, NEW d \in 1..MaxDelay, ServiceAddsEvent(e, d)
      PROVE  ServiceInv'
  <2>1. fate[e] = "new" /\ e \notin freed
    BY <1>4 DEF ServiceAddsEvent, AddEvent, OwnInv, Accounted, Placed
  <2>2. CASE schedulerState = "RUNNING"
    <3>1. fate' = [fate EXCEPT ![e] = "armed"] /\ freed' = freed
      BY <1>4, <2>2, Zenon DEF ServiceAddsEvent, AddEvent
    <3>2. adding' = [adding EXCEPT !["main"] = e]
      BY <1>4, <2>2, Zenon DEF ServiceAddsEvent
    <3>. QED BY <1>1, <2>1, <3>1, <3>2 DEF ServiceInv, Over
  <2>3. CASE schedulerState # "RUNNING"
    <3>1. mainPc' # "reading"
      BY <1>4, <2>3 DEF ServiceAddsEvent
    <3>. QED BY <3>1, <1>2
  <2>. QED BY <2>2, <2>3
<1>5. ASSUME NEW e \in Events, NEW d \in 1..MaxDelay, TaskAddsEvent(e, d)
      PROVE  ServiceInv'
  <2>1. mainPc' = mainPc /\ adding' \in {adding, [adding EXCEPT !["dispatcher"] = e]}
    BY <1>5 DEF TaskAddsEvent
  <2>. QED BY <1>1, <1>3, <2>1
<1>6. CASE MainThread
  BY <1>2, <1>6
  DEF MainThread, MainServes, ServiceReadsEventId, MainGoesOffline, MainStopsServing,
      MainJoins
<1>7. CASE TaskBody \/ PostShutdown("quit", "shutdown")
  <2>1. /\ mainPc' = mainPc
        /\ adding' \in {adding, [adding EXCEPT !["dispatcher"] = Nobody]}
    BY <1>7
    DEF TaskBody, TaskReadsEventId, QuitBegins, PostShutdown, QuitAgain, StopScheduler,
        StopDispatcherToo, ShutdownSetsState, ShutdownClearsEvents, ShutdownNotifies,
        ShutdownEnds
  <2>. QED BY <1>1, <1>3, <2>1
<1>8. CASE \/ \E t \in Tasks : PostTask(t)
           \/ \E e \in Events : TaskStopsEvent(e)
           \/ \E s \in Signals : Signal(s)
           \/ UNCHANGED systemVars
           \/ UNCHANGED vars
  <2>1. mainPc' = mainPc /\ adding' = adding
    BY <1>8 DEF PostTask, TaskStopsEvent, Signal, vars
  <2>. QED BY <2>1, <1>3
<1>. QED
  BY <1>4, <1>5, <1>6, <1>7, <1>8, Zenon
  DEF Next, DispatcherThread, SchedulerThread, Choice, Time

-----------------------------------------------------------------------------
(* From the places to the count of the owners. *)

LEMMA OneOwner ==
  ASSUME OwnInv, NEW j \in Once
  PROVE  Cardinality(Owners(j)) = IF Placed(j) THEN 1 ELSE 0
<1>. USE Kinds
<1>1. CASE ~Placed(j)
  <2>1. Owners(j) = {}
    BY <1>1 DEF Owners, Placed, Elements
  <2>. QED BY <1>1, <2>1, FS_EmptySet
<1>2. CASE j \in Elements(taskList)
  <2>1. PICK i \in DOMAIN taskList : taskList[i] = j
    BY <1>2 DEF Elements
  <2>2. \A k \in DOMAIN taskList : taskList[k] = j => k = i
    BY <2>1 DEF OwnInv, Distinct
  <2>3. j \notin eventList /\ j # popped /\ j # current /\ j \notin freed
    BY <1>2 DEF OwnInv, Apart
  <2>4. Owners(j) = {<<"taskList", i>>}
    BY <2>1, <2>2, <2>3 DEF Owners
  <2>. QED BY <1>2, <2>4, FS_Singleton DEF Placed
<1>3. CASE j \notin Elements(taskList)
  <2>1. \A k \in DOMAIN taskList : taskList[k] # j
    BY <1>3 DEF Elements
  <2>2. CASE j \in eventList
    <3>1. j # popped /\ j # current /\ j \notin freed
      BY <2>2 DEF OwnInv, Apart
    <3>2. Owners(j) = {<<"eventList", 0>>}
      BY <2>1, <2>2, <3>1 DEF Owners
    <3>. QED BY <2>2, <3>2, FS_Singleton DEF Placed
  <2>3. CASE j = popped
    <3>1. j \notin eventList /\ j # current /\ j \notin freed
      BY <2>3 DEF OwnInv, Apart
    <3>2. Owners(j) = {<<"popped", 0>>}
      BY <2>1, <2>3, <3>1 DEF Owners
    <3>. QED BY <2>3, <3>2, FS_Singleton DEF Placed
  <2>4. CASE j = current
    <3>1. j \notin eventList /\ j # popped /\ j \notin freed
      BY <2>4 DEF OwnInv, Apart
    <3>2. Owners(j) = {<<"current", 0>>}
      BY <2>1, <2>4, <3>1 DEF Owners
    <3>. QED BY <2>4, <3>2, FS_Singleton DEF Placed
  <2>5. CASE j \in freed
    <3>1. j \notin eventList /\ j # popped /\ j # current
      BY <2>5 DEF OwnInv, Apart
    <3>2. Owners(j) = {<<"freed", 0>>}
      BY <2>1, <2>5, <3>1 DEF Owners
    <3>. QED BY <2>5, <3>2, FS_Singleton DEF Placed
  <2>. QED BY <1>1, <1>3, <2>2, <2>3, <2>4, <2>5 DEF Placed
<1>. QED BY <1>2, <1>3

(* With ids enough, every task has one owner from the moment it is handed over, so
   that none is deleted twice and none is lost undeleted.  When addEvent reads the id
   after it released the lock, the dispatcher thread still has its task; the network
   thread reads a deleted one only when the scheduler is shut down in between, or the
   event was due by then. *)
THEOREM OwnedAndReadAlive ==
  ASSUME IdsSuffice
  PROVE  Spec => []TasksOwned
<1>1. Init => OwnInv /\ ReadingInv /\ ServiceInv
  <2>1. ASSUME Init
        PROVE  /\ taskList = <<>> /\ added = <<>> /\ eventList = {} /\ freed = {}
               /\ popped = Nobody /\ current = Nobody
               /\ \A e \in Events : fate[e] = "new"
               /\ dispatcherState = "RUNNING"
               /\ dispatcherPc # "reading" /\ mainPc # "reading"
    BY <2>1 DEF Init, DispatcherInit, SchedulerInit
  <2>2. Elements(<<>>) = {}
    BY DEF Elements
  <2>3. ASSUME Init
        PROVE  OwnInv
    BY <2>1, <2>2, <2>3, Kinds
    DEF OwnInv, Distinct, Apart, Accounted, FiredLeft, Placed, InUse, Once
  <2>4. ASSUME Init
        PROVE  ReadingInv /\ ServiceInv
    BY <2>1, <2>2, <2>4 DEF ReadingInv, Ending, Nobody, ServiceInv
  <2>. QED BY <2>3, <2>4
<1>2. /\ SchedulerInv /\ OwnInv /\ ReadingInv /\ ServiceInv
      /\ [Next]_vars
      => (OwnInv /\ ReadingInv /\ ServiceInv)'
  BY StepOwned, StepReading, StepService
<1>3. OwnInv /\ ReadingInv /\ ServiceInv => TasksOwned
  <2>1. ASSUME OwnInv
        PROVE  SingleOwner
    BY <2>1, OneOwner DEF SingleOwner, OwnInv, Accounted, Once
  <2>2. ASSUME ReadingInv, ServiceInv
        PROVE  ReturnReadsLiveTask
    BY <2>2 DEF ReadingInv, ServiceInv, Over, ReturnReadsLiveTask
  <2>. QED BY <2>1, <2>2 DEF TasksOwned
<1>4. Spec => []SchedulerInv
  BY SchedulerInvariant
<1>. QED BY <1>1, <1>2, <1>3, <1>4, PTL DEF Spec

-----------------------------------------------------------------------------
(* When a task has its turn.  All that a step may do to the list: *)

Stopping == dispatcherPc \in {"stopScheduler", "stopDispatcher"}

Shutdowns == {"shutdown", "offlineShutdown"}

(* The bodies of the tasks that stop the server are only run by those tasks. *)
InBody ==
  /\ Stopping => current \in {"quit", "offline"}
  /\ dispatcherPc \in {"clearEvents", "notifyScheduler", "shutdownDispatcher"}
       => current \in {"term"} \cup Shutdowns

QueueStill ==
  /\ UNCHANGED <<taskList, added, dispatcherState, current>>
  /\ Stopping' <=> Stopping

QueuePosts(t) ==
  /\ AddTask(t, FALSE)
  /\ UNCHANGED <<dispatcherState, current>>
  /\ t = "term" => "term" \in Elements(signals')
  /\ t \in Shutdowns => Stopping'
  /\ Stopping => Stopping'

QueueFires(e) ==
  /\ AddTask(e, TRUE)
  /\ UNCHANGED <<dispatcherState, current>>
  /\ Stopping' <=> Stopping

QueueTakes ==
  /\ taskList # <<>>
  /\ taskList' = Tail(taskList)
  /\ current' \in {Head(taskList), Nobody}
  /\ UNCHANGED <<added, dispatcherState>>
  /\ ~Stopping

QueueFinishes ==
  /\ current' = Nobody
  /\ UNCHANGED <<taskList, added, dispatcherState>>
  /\ ~Stopping

QueueStops ==
  /\ UNCHANGED <<taskList, added, current>>
  /\ \/ dispatcherState' = "CLOSING" /\ current \in {"quit", "offline"}
     \/ dispatcherState' = "TERMINATED" /\ current = "final"

QueueCloses ==
  /\ current \in {"term"} \cup Shutdowns
  /\ taskList' = Append(taskList, "final")
  /\ added' = Append(added, "final")
  /\ UNCHANGED <<dispatcherState, current>>
  /\ ~Stopping

QueueStep ==
  \/ QueueStill
  \/ \E t \in Jobs \ {"final"} : QueuePosts(t)
  \/ \E e \in Events : QueueFires(e)
  \/ QueueTakes
  \/ QueueFinishes
  \/ QueueStops
  \/ QueueCloses

LEMMA StepBody ==
  ASSUME TypeOK, PointersOK, InBody, [Next]_vars
  PROVE  InBody'
<1>. USE DEF InBody, Stopping, Shutdowns, dispatcherVars, systemVars
<1>1. ASSUME UNCHANGED <<dispatcherPc, current>>
      PROVE  InBody'
  BY <1>1
<1>2. ASSUME UNCHANGED current,
             dispatcherPc' \in {"run", "reading", "kicking", "finish"}
      PROVE  InBody'
  BY <1>2
<1>3. CASE DispatcherLoop \/ DispatcherWake(TRUE)
  BY <1>3
  DEF DispatcherLoop, DispatcherCheck, DispatcherWait, DispatcherWake,
      DispatcherFindNothing, DispatcherTake, DispatcherSkip, DispatcherFinish,
      DispatcherTerminate
<1>4. CASE \/ \E t \in Tasks : PostTask(t)
           \/ \E e \in Events : TaskStopsEvent(e)
           \/ \E s \in Signals : Signal(s)
           \/ MainThread
  BY <1>1, <1>4
  DEF PostTask, TaskStopsEvent, Signal, MainThread, MainServes, ServiceReadsEventId,
      MainGoesOffline, MainStopsServing, MainJoins
<1>5. CASE PostShutdown("quit", "shutdown") \/ PostShutdown("offline", "offlineShutdown")
  BY <1>5 DEF PostShutdown
<1>6. CASE StopScheduler \/ ShutdownSetsState \/ ShutdownClearsEvents \/ ShutdownNotifies
  BY <1>6
  DEF StopScheduler, ShutdownSetsState, ShutdownClearsEvents, ShutdownNotifies
<1>7. CASE \/ TaskReadsEventId \/ QuitBegins \/ QuitAgain \/ StopDispatcherToo
           \/ ShutdownEnds \/ AddingStep
  BY <1>1, <1>2, <1>7
  DEF TaskReadsEventId, QuitBegins, QuitAgain, StopDispatcherToo, ShutdownEnds, AddingStep,
      TaskAddsEvent, ServiceAddsEvent
<1>8. CASE \/ SchedulerLoop
           \/ SchedulerWake(TRUE) /\ UNCHANGED dispatcherVars
           \/ Tick
           \/ UNCHANGED vars
  BY <1>1, <1>8
  DEF SchedulerLoop, SchedulerCheck, SchedulerWait, SchedulerWake, SchedulerTimeout,
      SchedulerNoTimeout, SchedulerPop, SchedulerPopEmpty, SchedulerHandOff, Tick, vars
<1>9. CASE QuietStep
  BY <1>3, <1>4, <1>5, <1>6, <1>7, <1>9, Zenon DEF QuietStep
<1>. QED BY <1>6, <1>7, <1>8, <1>9, StepKinds

LEMMA StepQueue ==
  ASSUME TypeOK, PointersOK, InBody, [Next]_vars
  PROVE  QueueStep
<1>. USE Kinds DEF Stopping, queueVars, dispatcherVars, schedulerVars, systemVars
<1>1. CASE DispatcherLoop \/ DispatcherWake(TRUE)
  <2>1. CASE DispatcherTake \/ DispatcherSkip
    BY <2>1
    DEF DispatcherTake, DispatcherSkip, PointersOK, Running, QueueTakes, QueueStep
  <2>2. CASE DispatcherFinish
    BY <2>2 DEF DispatcherFinish, QueueFinishes, QueueStep
  <2>3. CASE DispatcherTerminate
    BY <2>3 DEF DispatcherTerminate, QueueStops, QueueStep
  <2>4. CASE \/ DispatcherCheck \/ DispatcherWait \/ DispatcherWake(FALSE)
             \/ DispatcherWake(TRUE) \/ DispatcherFindNothing
    BY <2>4
    DEF DispatcherCheck, DispatcherWait, DispatcherWake, DispatcherFindNothing,
        QueueStill, QueueStep
  <2>. QED BY <1>1, <2>1, <2>2, <2>3, <2>4, Zenon DEF DispatcherLoop
<1>2. ASSUME NEW t \in Tasks, PostTask(t)
      PROVE  QueueStep
  <2>1. t \in Jobs \ {"final"} /\ t \notin Control
    BY DEF Once, Control
  <2>2. QueuePosts(t)
    BY <1>2, <2>1 DEF PostTask, QueuePosts, Shutdowns, Control
  <2>. QED BY <2>1, <2>2, Zenon DEF QueueStep
<1>3. ASSUME NEW s \in Signals, Signal(s)
      PROVE  QueueStep
  <2>1. s \in Jobs \ {"final"} /\ s \notin Shutdowns
    BY SignalsAssumption DEF Jobs, Control, Shutdowns
  <2>2. s \in Elements(signals')
    <3>1. signals' = Append(signals, s) /\ signals \in Seq(Signals)
      BY <1>3 DEF Signal, TypeOK
    <3>2. Len(signals) + 1 \in DOMAIN signals' /\ signals'[Len(signals) + 1] = s
      BY <3>1, AppendProperties
    <3>. QED BY <3>2, Zenon DEF Elements
  <2>3. QueuePosts(s)
    BY <1>3, <2>1, <2>2 DEF Signal, QueuePosts
  <2>. QED BY <2>1, <2>3, Zenon DEF QueueStep
<1>4. ASSUME NEW task \in {"quit", "offline"}, NEW next \in Shutdowns,
             PostShutdown(task, next)
      PROVE  QueueStep
  <2>1. next \in Jobs \ {"final"} /\ next # "term"
    BY DEF Jobs, Control, Shutdowns
  <2>2. QueuePosts(next)
    BY <1>4, <2>1 DEF PostShutdown, QueuePosts
  <2>. QED BY <2>1, <2>2, Zenon DEF QueueStep
<1>5. CASE MainGoesOffline
  <2>1. "offline" \in Jobs \ {"final"} /\ "offline" \notin Shutdowns
    BY DEF Jobs, Control, Shutdowns
  <2>2. QueuePosts("offline")
    BY <1>5, <2>1 DEF MainGoesOffline, QueuePosts
  <2>. QED BY <2>1, <2>2, Zenon DEF QueueStep
<1>6. CASE StopDispatcherToo
  BY <1>6 DEF StopDispatcherToo, StopDispatcher, InBody, QueueStops, QueueStep
<1>7. CASE ShutdownEnds
  BY <1>7 DEF ShutdownEnds, ShutdownDispatcher, InBody, QueueCloses, QueueStep
<1>8. ASSUME UNCHANGED <<taskList, added, dispatcherState, current>>, Stopping' <=> Stopping
      PROVE  QueueStep
  BY <1>8 DEF QueueStill, QueueStep
<1>9. CASE \/ \E e \in Events : TaskStopsEvent(e)
           \/ TaskReadsEventId \/ QuitBegins \/ QuitAgain \/ StopScheduler
           \/ ShutdownSetsState \/ ShutdownClearsEvents \/ ShutdownNotifies
           \/ MainServes \/ ServiceReadsEventId \/ MainStopsServing \/ MainJoins
           \/ AddingStep
  BY <1>8, <1>9
  DEF TaskStopsEvent, TaskReadsEventId, QuitBegins, QuitAgain, StopScheduler,
      ShutdownSetsState, ShutdownClearsEvents, ShutdownNotifies, MainServes,
      ServiceReadsEventId, MainStopsServing, MainJoins, AddingStep, TaskAddsEvent,
      ServiceAddsEvent, InGame
<1>10. CASE SchedulerHandOff
  <2>1. popped \in Events
    BY <1>10 DEF SchedulerHandOff, TypeOK, SchedulerTypeOK, PointersOK
  <2>2. QueueFires(popped)
    BY <1>10 DEF SchedulerHandOff, QueueFires
  <2>. QED BY <2>1, <2>2, Zenon DEF QueueStep
<1>11. CASE SchedulerLoop
  <2>1. CASE \/ SchedulerCheck \/ SchedulerWait \/ SchedulerWake(FALSE) \/ SchedulerPop
             \/ SchedulerTimeout \/ SchedulerNoTimeout \/ SchedulerPopEmpty
    BY <1>8, <2>1
    DEF SchedulerCheck, SchedulerWait, SchedulerWake, SchedulerTimeout,
        SchedulerNoTimeout, SchedulerPop, SchedulerPopEmpty
  <2>. QED BY <1>10, <1>11, <2>1 DEF SchedulerLoop
<1>12. CASE \/ SchedulerWake(TRUE) /\ UNCHANGED dispatcherVars
            \/ Tick
            \/ UNCHANGED vars
  BY <1>8, <1>12 DEF SchedulerWake, Tick, vars
<1>13. CASE QuietStep
  <2>1. /\ PostShutdown("quit", "shutdown") => QueueStep
        /\ PostShutdown("offline", "offlineShutdown") => QueueStep
    BY <1>4 DEF Shutdowns
  <2>. QED
    BY <1>1, <1>2, <1>3, <1>5, <1>6, <1>7, <1>9, <1>13, <2>1, Zenon
    DEF QuietStep, MainThread
<1>. QED BY <1>9, <1>11, <1>12, <1>13, StepKinds

(* Where the tasks that shut the server down are: the last of them, and the tasks of
   the game with regard to it. *)

KnownTerm ==
  "term" \in Elements(taskList) \/ current = "term" => "term" \in Elements(signals)

ClosedFirst ==
  Elements(taskList) \cap Shutdowns # {} \/ current \in Shutdowns
    => Stopping \/ dispatcherState # "RUNNING"

LastIsFinal ==
  "term" \notin Elements(signals)
    => /\ Ending => dispatcherState # "RUNNING"
       /\ \A i, k \in DOMAIN taskList :
            taskList[i] = "final" /\ i < k => taskList[k] \notin Tasks
       /\ current = "final" \/ dispatcherState = "TERMINATED"
            => Elements(taskList) \cap Tasks = {}

LEMMA SignalsKept ==
  ASSUME TypeOK, [Next]_vars
  PROVE  Elements(signals) \subseteq Elements(signals')
<1>1. ASSUME UNCHANGED signals
      PROVE  Elements(signals) \subseteq Elements(signals')
  BY <1>1
<1>2. ASSUME NEW s \in Signals, Signal(s)
      PROVE  Elements(signals) \subseteq Elements(signals')
  <2>1. signals' = Append(signals, s) /\ signals \in Seq(Signals)
    BY <1>2 DEF Signal, TypeOK
  <2>2. /\ DOMAIN signals \subseteq DOMAIN signals'
        /\ \A i \in DOMAIN signals : signals'[i] = signals[i]
    BY <2>1, AppendProperties
  <2>. QED BY <2>2, Zenon DEF Elements
<1>3. (\E s \in Signals : Signal(s)) \/ UNCHANGED signals
  <2>1. CASE QuietStep
    BY <2>1
    DEF QuietStep, PostTask, TaskStopsEvent, TaskReadsEventId, QuitBegins, PostShutdown,
        QuitAgain, StopScheduler, StopDispatcherToo, ShutdownSetsState, ShutdownNotifies,
        ShutdownEnds, MainThread, MainServes, ServiceReadsEventId, MainGoesOffline, MainStopsServing,
        MainJoins, systemVars
  <2>2. CASE Next /\ ~QuietStep
    BY <2>2
    DEF Next, DispatcherThread, SchedulerThread, Choice, Time, TaskBody, QuietStep,
        TaskAddsEvent, ServiceAddsEvent, ShutdownClearsEvents, systemVars
  <2>3. CASE UNCHANGED vars
    BY <2>3 DEF vars, systemVars
  <2>. QED BY <2>1, <2>2, <2>3
<1>. QED BY <1>1, <1>2, <1>3

(* What addTask does to the list, in words of its elements. *)
LEMMA PostedElements ==
  ASSUME TypeOK, NEW t \in Jobs, NEW front \in BOOLEAN, AddTask(t, front)
  PROVE  /\ Elements(taskList') \subseteq Elements(taskList) \cup {t}
         /\ dispatcherState # "RUNNING" => UNCHANGED <<taskList, added>>
         /\ dispatcherState = "RUNNING"
              => /\ taskList' = Pushed(t, front)
                 /\ added' = IF front THEN added ELSE Append(added, t)
<1>1. DispatcherTypeOK
  BY DEF TypeOK
<1>2. Elements(taskList') \subseteq Elements(taskList) \cup {t}
  BY <1>1, AddTaskElements
<1>3. dispatcherState # "RUNNING" => UNCHANGED <<taskList, added>>
  BY Zenon DEF AddTask, queueVars
<1>4. dispatcherState = "RUNNING"
        => /\ taskList' = Pushed(t, front)
           /\ added' = IF front THEN added ELSE Append(added, t)
  BY Zenon DEF AddTask
<1>. QED BY <1>2, <1>3, <1>4

LEMMA StepTerm ==
  ASSUME TypeOK, PointersOK, InBody, KnownTerm, [Next]_vars
  PROVE  KnownTerm'
<1>. USE Kinds DEF KnownTerm
<1>1. Elements(signals) \subseteq Elements(signals')
  BY SignalsKept
<1>2. taskList \in Seq(Jobs) /\ DispatcherTypeOK
  BY DEF TypeOK, DispatcherTypeOK
<1>3. ASSUME NEW t \in Jobs \ {"final"}, QueuePosts(t)
      PROVE  KnownTerm'
  <2>1. Elements(taskList') \subseteq Elements(taskList) \cup {t}
    BY <1>3, PostedElements DEF QueuePosts
  <2>. QED BY <1>1, <1>3, <2>1 DEF QueuePosts
<1>4. ASSUME NEW e \in Events, QueueFires(e)
      PROVE  KnownTerm'
  <2>1. e \in Jobs /\ e # "term"
    BY DEF Once, Control
  <2>2. Elements(taskList') \subseteq Elements(taskList) \cup {e}
    BY <1>4, <2>1, PostedElements DEF QueueFires
  <2>. QED BY <1>1, <1>4, <2>1, <2>2 DEF QueueFires
<1>5. CASE QueueTakes
  <2>1. /\ Head(taskList) \in Elements(taskList)
        /\ Elements(Tail(taskList)) \subseteq Elements(taskList)
    BY <1>2, <1>5, ElementsOfTaken DEF QueueTakes
  <2>. QED BY <1>1, <1>5, <2>1 DEF QueueTakes, Nobody
<1>6. CASE QueueCloses
  BY <1>1, <1>2, <1>6, FinalElements DEF QueueCloses
<1>7. CASE QueueStill \/ QueueFinishes \/ QueueStops
  BY <1>1, <1>7 DEF QueueStill, QueueFinishes, QueueStops, Nobody
<1>. QED BY <1>3, <1>4, <1>5, <1>6, <1>7, StepQueue, Zenon DEF QueueStep

LEMMA StepClosed ==
  ASSUME TypeOK, PointersOK, InBody, ClosedFirst, [Next]_vars
  PROVE  ClosedFirst'
<1>. USE Kinds DEF ClosedFirst
<1>1. taskList \in Seq(Jobs) /\ DispatcherTypeOK
  BY DEF TypeOK, DispatcherTypeOK
<1>2. Nobody \notin Shutdowns /\ {"quit", "offline", "final"} \cap Shutdowns = {}
  BY DEF Shutdowns, Nobody
<1>3. ASSUME NEW t \in Jobs \ {"final"}, QueuePosts(t)
      PROVE  ClosedFirst'
  <2>1. Elements(taskList') \subseteq Elements(taskList) \cup {t}
    BY <1>3, PostedElements DEF QueuePosts
  <2>. QED BY <1>3, <2>1 DEF QueuePosts
<1>4. ASSUME NEW e \in Events, QueueFires(e)
      PROVE  ClosedFirst'
  <2>1. e \in Jobs /\ e \notin Shutdowns
    BY DEF Once, Control, Shutdowns
  <2>2. Elements(taskList') \subseteq Elements(taskList) \cup {e}
    BY <1>4, <2>1, PostedElements DEF QueueFires
  <2>. QED BY <1>4, <2>1, <2>2 DEF QueueFires
<1>5. CASE QueueTakes
  <2>1. /\ Head(taskList) \in Elements(taskList)
        /\ Elements(Tail(taskList)) \subseteq Elements(taskList)
    BY <1>1, <1>5, ElementsOfTaken DEF QueueTakes
  <2>. QED BY <1>2, <1>5, <2>1 DEF QueueTakes
<1>6. CASE QueueCloses
  BY <1>1, <1>2, <1>6, FinalElements DEF QueueCloses
<1>7. CASE QueueStill \/ QueueFinishes
  BY <1>2, <1>7 DEF QueueStill, QueueFinishes
<1>8. CASE QueueStops
  BY <1>8 DEF QueueStops
<1>. QED BY <1>3, <1>4, <1>5, <1>6, <1>7, <1>8, StepQueue, Zenon DEF QueueStep

LEMMA StepLast ==
  ASSUME TypeOK, PointersOK, InBody, KnownTerm, ClosedFirst, LastIsFinal, [Next]_vars
  PROVE  LastIsFinal'
<1>. USE Kinds
<1>1. /\ taskList \in Seq(Jobs) /\ DispatcherTypeOK
      /\ DOMAIN taskList = 1..Len(taskList) /\ Len(taskList) \in Nat
  BY DEF TypeOK, DispatcherTypeOK
<1>2. SUFFICES ASSUME "term" \notin Elements(signals')
               PROVE  LastIsFinal'
  BY DEF LastIsFinal
<1>3. /\ "term" \notin Elements(signals)
      /\ Ending => dispatcherState # "RUNNING"
      /\ \A i, k \in DOMAIN taskList :
           taskList[i] = "final" /\ i < k => taskList[k] \notin Tasks
      /\ current = "final" \/ dispatcherState = "TERMINATED"
           => Elements(taskList) \cap Tasks = {}
  BY <1>2, SignalsKept DEF LastIsFinal
<1>4. ASSUME UNCHANGED <<taskList, dispatcherState>>,
             current' = "final" => current = "final"
      PROVE  LastIsFinal'
  BY <1>3, <1>4 DEF LastIsFinal, Ending
<1>5. ASSUME NEW t \in Jobs \ {"final"}, NEW front \in BOOLEAN, AddTask(t, front),
             front => t \in Events,
             UNCHANGED <<dispatcherState, current>>
      PROVE  LastIsFinal'
  <2>1. CASE dispatcherState # "RUNNING"
    BY <1>4, <1>5, <2>1, PostedElements
  <2>2. CASE dispatcherState = "RUNNING"
    <3>1. ~Ending /\ dispatcherState # "TERMINATED" /\ current # "final"
      BY <1>3, <2>2 DEF Ending
    <3>2. "final" \notin Elements(taskList')
      BY <1>5, <3>1, PostedElements DEF Ending
    <3>. QED BY <1>5, <2>2, <3>1, <3>2, Zenon DEF LastIsFinal, Ending, Elements
  <2>. QED BY <2>1, <2>2
<1>6. ASSUME NEW t \in Jobs \ {"final"}, QueuePosts(t)
      PROVE  LastIsFinal'
  BY <1>5, <1>6 DEF QueuePosts
<1>7. ASSUME NEW e \in Events, QueueFires(e)
      PROVE  LastIsFinal'
  <2>1. e \in Jobs \ {"final"}
    BY DEF Once, Control
  <2>. QED BY <1>5, <1>7, <2>1 DEF QueueFires
<1>8. CASE QueueTakes
  <2>1. /\ Head(taskList) = taskList[1]
        /\ taskList' = Tail(taskList)
        /\ Len(taskList) \in Nat \ {0}
        /\ DOMAIN taskList' = 1..(Len(taskList) - 1)
        /\ \A i \in 1..(Len(taskList) - 1) : taskList'[i] = taskList[i + 1]
    BY <1>1, <1>8, HeadTailProperties, EmptySeq DEF QueueTakes
  <2>2. /\ Head(taskList) \in Elements(taskList)
        /\ Elements(taskList') \subseteq Elements(taskList)
    BY <1>1, <1>8, ElementsOfTaken DEF QueueTakes
  <2>3. Head(taskList) = "final" => Elements(taskList') \cap Tasks = {}
    <3>1. SUFFICES ASSUME taskList[1] = "final", NEW i \in 1..(Len(taskList) - 1)
                   PROVE  taskList'[i] \notin Tasks
      BY <2>1 DEF Elements
    <3>2. /\ 1 \in DOMAIN taskList /\ i + 1 \in DOMAIN taskList /\ 1 < i + 1
          /\ taskList'[i] = taskList[i + 1]
      BY <1>1, <2>1
    <3>. QED BY <1>3, <3>1, <3>2
  <2>4. \A i, k \in DOMAIN taskList' :
          taskList'[i] = "final" /\ i < k => taskList'[k] \notin Tasks
    <3>1. SUFFICES ASSUME NEW i \in 1..(Len(taskList) - 1), NEW k \in 1..(Len(taskList) - 1),
                          taskList'[i] = "final", i < k
                   PROVE  taskList'[k] \notin Tasks
      BY <2>1
    <3>2. taskList'[i] = taskList[i + 1] /\ taskList'[k] = taskList[k + 1]
      BY <2>1
    <3>3. i + 1 \in 1..Len(taskList) /\ k + 1 \in 1..Len(taskList) /\ i + 1 < k + 1
      BY <1>1, <3>1
    <3>. QED BY <1>1, <1>3, <3>1, <3>2, <3>3
  <2>5. UNCHANGED dispatcherState /\ (current' = "final" => Head(taskList) = "final")
    BY <1>8 DEF QueueTakes, Nobody
  <2>6. Ending' => Ending
    BY <2>2, <2>5 DEF Ending
  <2>7. (current = "final" \/ dispatcherState = "TERMINATED"
           => Elements(taskList) \cap Tasks = {})'
    BY <1>3, <2>2, <2>3, <2>5
  <2>. QED BY <1>3, <2>4, <2>5, <2>6, <2>7 DEF LastIsFinal
<1>9. CASE QueueFinishes \/ QueueStill
  BY <1>4, <1>9 DEF QueueFinishes, QueueStill, Nobody
<1>10. CASE QueueStops
  <2>1. CASE dispatcherState' = "CLOSING" /\ UNCHANGED <<taskList, current>>
             /\ current # "final"
    BY <1>3, <2>1 DEF LastIsFinal
  <2>2. CASE dispatcherState' = "TERMINATED" /\ UNCHANGED <<taskList, current>>
             /\ current = "final"
    BY <1>3, <2>2 DEF LastIsFinal
  <2>. QED BY <1>10, <2>1, <2>2 DEF QueueStops
<1>11. CASE QueueCloses
  <2>1. current \in Shutdowns /\ dispatcherState # "RUNNING"
    <3>1. current # "term"
      BY <1>3 DEF KnownTerm
    <3>. QED BY <1>11, <3>1 DEF QueueCloses, ClosedFirst
  <2>2. current # "final" /\ "final" \in Jobs /\ "final" \notin Tasks
    BY <2>1 DEF Shutdowns, Jobs, Control, Once
  <2>3. Elements(taskList') = Elements(taskList) \cup {"final"}
    BY <1>1, <1>11, FinalElements DEF QueueCloses
  <2>4. /\ DOMAIN taskList' = 1..(Len(taskList) + 1)
        /\ \A i \in 1..Len(taskList) : taskList'[i] = taskList[i]
        /\ taskList'[Len(taskList) + 1] = "final"
    BY <1>1, <1>11, <2>2, AppendProperties DEF QueueCloses
  <2>5. \A i, k \in DOMAIN taskList' :
          taskList'[i] = "final" /\ i < k => taskList'[k] \notin Tasks
    <3>1. SUFFICES ASSUME NEW i \in 1..(Len(taskList) + 1), NEW k \in 1..(Len(taskList) + 1),
                          taskList'[i] = "final", i < k
                   PROVE  taskList'[k] \notin Tasks
      BY <2>4
    <3>2. CASE k = Len(taskList) + 1
      BY <2>2, <2>4, <3>2
    <3>3. CASE k \in 1..Len(taskList)
      <4>1. i \in 1..Len(taskList)
        BY <1>1, <3>1, <3>3
      <4>. QED BY <1>1, <1>3, <2>4, <3>1, <3>3, <4>1
    <3>. QED BY <1>1, <3>2, <3>3
  <2>6. UNCHANGED <<dispatcherState, current>>
    BY <1>11 DEF QueueCloses
  <2>7. Elements(taskList') \cap Tasks = Elements(taskList) \cap Tasks
    BY <2>2, <2>3
  <2>. QED BY <1>3, <2>1, <2>2, <2>5, <2>6, <2>7 DEF LastIsFinal
<1>. QED BY <1>6, <1>7, <1>8, <1>9, <1>10, <1>11, StepQueue, Zenon DEF QueueStep

(* The order of the list. *)

InOrder(s, a, n, k) ==
  /\ n \in 0..Len(s) /\ k \in 0..Len(a)
  /\ Len(s) - n = Len(a) - k
  /\ \A i \in 1..n : s[i] \in Events
  /\ \A i \in (n + 1)..Len(s) : s[i] = a[i - n + k]

Ordered(s, a) == \E n, k \in Nat : InOrder(s, a, n, k)

LEMMA RestOfSequence ==
  ASSUME NEW S, NEW s \in Seq(S), NEW n \in 0..Len(s)
  PROVE  /\ SubSeq(s, n + 1, Len(s)) \in Seq(S)
         /\ Len(SubSeq(s, n + 1, Len(s))) = Len(s) - n
         /\ \A i \in 1..(Len(s) - n) : SubSeq(s, n + 1, Len(s))[i] = s[n + i]
<1>1. Len(s) \in Nat /\ n \in Nat /\ \A i \in (n + 1)..Len(s) : s[i] \in S
  OBVIOUS
<1>2. SubSeq(s, n + 1, Len(s)) \in Seq(S)
  BY <1>1
<1>3. Len(SubSeq(s, n + 1, Len(s))) = Len(s) - n
  BY <1>1
<1>4. \A i \in 1..(Len(s) - n) : SubSeq(s, n + 1, Len(s))[i] = s[n + i]
  BY <1>1
<1>. QED BY <1>2, <1>3, <1>4

LEMMA RestOfOrder ==
  ASSUME NEW s \in Seq(Jobs), NEW a \in Seq(Jobs), Ordered(s, a)
  PROVE  \E n \in 0..Len(s), k \in 0..Len(a) :
           /\ \A i \in 1..n : s[i] \in Events
           /\ SubSeq(s, n + 1, Len(s)) = SubSeq(a, k + 1, Len(a))
<1>1. PICK n \in Nat, k \in Nat : InOrder(s, a, n, k)
  BY Zenon DEF Ordered
<1>2. /\ n \in 0..Len(s) /\ k \in 0..Len(a)
      /\ Len(s) - n = Len(a) - k
      /\ \A i \in 1..n : s[i] \in Events
      /\ \A i \in (n + 1)..Len(s) : s[i] = a[i - n + k]
  BY <1>1, Zenon DEF InOrder
<1>3. /\ SubSeq(s, n + 1, Len(s)) \in Seq(Jobs)
      /\ Len(SubSeq(s, n + 1, Len(s))) = Len(s) - n
      /\ \A i \in 1..(Len(s) - n) : SubSeq(s, n + 1, Len(s))[i] = s[n + i]
  BY <1>2, RestOfSequence
<1>4. /\ SubSeq(a, k + 1, Len(a)) \in Seq(Jobs)
      /\ Len(SubSeq(a, k + 1, Len(a))) = Len(a) - k
      /\ \A i \in 1..(Len(a) - k) : SubSeq(a, k + 1, Len(a))[i] = a[k + i]
  BY <1>2, RestOfSequence
<1>5. ASSUME NEW i \in 1..(Len(s) - n)
      PROVE  SubSeq(s, n + 1, Len(s))[i] = SubSeq(a, k + 1, Len(a))[i]
  <2>1. /\ n + i \in (n + 1)..Len(s)
        /\ (n + i) - n + k = k + i
        /\ i \in 1..(Len(a) - k)
    BY <1>2
  <2>2. s[n + i] = a[(n + i) - n + k]
    BY <1>2, <2>1, Zenon
  <2>. QED BY <1>3, <1>4, <2>1, <2>2, Zenon
<1>6. SubSeq(s, n + 1, Len(s)) = SubSeq(a, k + 1, Len(a))
  BY <1>2, <1>3, <1>4, <1>5, SeqEqual, Zenon
<1>. QED BY <1>2, <1>6, Zenon

LEMMA OrderAppended ==
  ASSUME NEW s \in Seq(Jobs), NEW a \in Seq(Jobs), NEW t \in Jobs, Ordered(s, a)
  PROVE  Ordered(Append(s, t), Append(a, t))
<1>1. PICK n \in Nat, k \in Nat : InOrder(s, a, n, k)
  BY DEF Ordered
<1>2. /\ Len(Append(s, t)) = Len(s) + 1 /\ Len(Append(a, t)) = Len(a) + 1
      /\ \A i \in 1..Len(s) : Append(s, t)[i] = s[i]
      /\ \A i \in 1..Len(a) : Append(a, t)[i] = a[i]
      /\ Append(s, t)[Len(s) + 1] = t /\ Append(a, t)[Len(a) + 1] = t
      /\ Len(s) \in Nat /\ Len(a) \in Nat
  BY AppendProperties
<1>3. /\ n \in 0..Len(s) /\ k \in 0..Len(a)
      /\ Len(s) - n = Len(a) - k
      /\ \A i \in 1..n : s[i] \in Events
      /\ \A i \in (n + 1)..Len(s) : s[i] = a[i - n + k]
  BY <1>1, Zenon DEF InOrder
<1>. DEFINE S == Append(s, t)
            A == Append(a, t)
<1>. HIDE DEF S, A
<1>0. Len(S) = Len(s) + 1 /\ Len(A) = Len(a) + 1
  BY <1>2, Zenon DEF S, A
<1>4. ASSUME NEW i \in (n + 1)..Len(S)
      PROVE  S[i] = A[i - n + k]
  <2>1. CASE i = Len(S)
    <3>0. /\ n \in Nat /\ k \in Nat /\ Len(s) \in Nat /\ Len(a) \in Nat
          /\ Len(s) - n = Len(a) - k
      BY <1>2, <1>3
    <3>1. i = Len(s) + 1 /\ i - n + k = Len(a) + 1
      BY <1>0, <2>1, <3>0
    <3>. QED BY <1>2, <3>1, Zenon DEF S, A
  <2>2. CASE i # Len(S)
    <3>1. i \in (n + 1)..Len(s) /\ i \in 1..Len(s) /\ i - n + k \in 1..Len(a)
      BY <1>0, <1>2, <1>3, <2>2
    <3>2. S[i] = s[i] /\ A[i - n + k] = a[i - n + k]
      BY <1>2, <3>1, Zenon DEF S, A
    <3>. QED BY <1>3, <3>1, <3>2, Zenon
  <2>. QED BY <2>1, <2>2
<1>5. /\ n \in 0..Len(S) /\ k \in 0..Len(A)
      /\ Len(S) - n = Len(A) - k
  BY <1>0, <1>2, <1>3
<1>6. ASSUME NEW i \in 1..n
      PROVE  S[i] \in Events
  <2>1. i \in 1..Len(s)
    BY <1>2, <1>3
  <2>. QED BY <1>2, <1>3, <2>1, Zenon DEF S
<1>7. InOrder(S, A, n, k)
  BY <1>4, <1>5, <1>6, Zenon DEF InOrder
<1>. QED BY <1>7 DEF Ordered, S, A

LEMMA OrderPushed ==
  ASSUME NEW s \in Seq(Jobs), NEW a \in Seq(Jobs), NEW e \in Events, Ordered(s, a)
  PROVE  Ordered(<<e>> \o s, a)
<1>1. PICK n \in Nat, k \in Nat : InOrder(s, a, n, k)
  BY DEF Ordered
<1>. DEFINE S == <<e>> \o s
<1>2. /\ Len(S) = Len(s) + 1 /\ S[1] = e
      /\ \A i \in 2..(Len(s) + 1) : S[i] = s[i - 1]
      /\ Len(s) \in Nat /\ Len(a) \in Nat
  BY Kinds, ConcatProperties DEF Once
<1>3. /\ n \in 0..Len(s) /\ k \in 0..Len(a)
      /\ Len(s) - n = Len(a) - k
      /\ \A i \in 1..n : s[i] \in Events
      /\ \A i \in (n + 1)..Len(s) : s[i] = a[i - n + k]
  BY <1>1, Zenon DEF InOrder
<1>. HIDE DEF S
<1>4. /\ n + 1 \in 0..Len(S) /\ k \in 0..Len(a)
      /\ Len(S) - (n + 1) = Len(a) - k
  <2>1. Len(S) = Len(s) + 1 /\ Len(s) \in Nat /\ Len(a) \in Nat
    BY <1>2
  <2>2. n \in 0..Len(s) /\ k \in 0..Len(a) /\ Len(s) - n = Len(a) - k
    BY <1>3
  <2>3. n \in Nat /\ k \in Nat /\ n <= Len(s) /\ k <= Len(a)
    BY <2>1, <2>2
  <2>4. Len(s) + 1 - (n + 1) = Len(a) - k
    BY <2>1, <2>2, <2>3
  <2>. QED BY <2>1, <2>2, <2>3, <2>4
<1>5. ASSUME NEW i \in 1..(n + 1)
      PROVE  S[i] \in Events
  <2>1. i = 1 \/ (i \in 2..(Len(s) + 1) /\ i - 1 \in 1..n)
    BY <1>2, <1>3
  <2>. QED BY <1>2, <1>3, <2>1, Zenon
<1>6. ASSUME NEW i \in (n + 1 + 1)..Len(S)
      PROVE  S[i] = a[i - (n + 1) + k]
  <2>1. /\ i \in 2..(Len(s) + 1) /\ i - 1 \in (n + 1)..Len(s)
        /\ i - (n + 1) + k = (i - 1) - n + k
    BY <1>2, <1>3
  <2>. QED BY <1>2, <1>3, <2>1, Zenon
<1>7. InOrder(S, a, n + 1, k)
  BY <1>4, <1>5, <1>6, Zenon DEF InOrder
<1>8. n + 1 \in Nat
  OBVIOUS
<1>. QED BY <1>7, <1>8, Zenon DEF Ordered, S

LEMMA OrderTaken ==
  ASSUME NEW s \in Seq(Jobs), NEW a \in Seq(Jobs), s # <<>>, Ordered(s, a)
  PROVE  Ordered(Tail(s), a)
<1>1. PICK n \in Nat, k \in Nat : InOrder(s, a, n, k)
  BY DEF Ordered
<1>. DEFINE S == Tail(s)
<1>2. /\ Len(s) \in Nat \ {0} /\ Len(a) \in Nat
      /\ Len(S) = Len(s) - 1
      /\ \A i \in 1..(Len(s) - 1) : S[i] = s[i + 1]
  BY HeadTailProperties, EmptySeq
<1>3. /\ n \in 0..Len(s) /\ k \in 0..Len(a)
      /\ Len(s) - n = Len(a) - k
      /\ \A i \in 1..n : s[i] \in Events
      /\ \A i \in (n + 1)..Len(s) : s[i] = a[i - n + k]
  BY <1>1, Zenon DEF InOrder
<1>. HIDE DEF S
<1>4. CASE n = 0
  <2>1. 0 \in 0..Len(S) /\ k + 1 \in 0..Len(a) /\ Len(S) - 0 = Len(a) - (k + 1)
    BY <1>2, <1>3, <1>4
  <2>2. ASSUME NEW i \in (0 + 1)..Len(S)
        PROVE  S[i] = a[i - 0 + (k + 1)]
    <3>1. /\ i \in 1..(Len(s) - 1) /\ i + 1 \in (n + 1)..Len(s)
          /\ i - 0 + (k + 1) = (i + 1) - n + k
      BY <1>2, <1>3, <1>4
    <3>. QED BY <1>2, <1>3, <3>1, Zenon
  <2>3. \A i \in 1..0 : S[i] \in Events
    OBVIOUS
  <2>4. InOrder(S, a, 0, k + 1)
    BY <2>1, <2>2, <2>3, Zenon DEF InOrder
  <2>5. 0 \in Nat /\ k + 1 \in Nat
    OBVIOUS
  <2>. QED BY <2>4, <2>5, Zenon DEF Ordered, S
<1>5. CASE n # 0
  <2>1. /\ n - 1 \in 0..Len(S) /\ k \in 0..Len(a)
        /\ Len(S) - (n - 1) = Len(a) - k
    BY <1>2, <1>3, <1>5
  <2>2. ASSUME NEW i \in ((n - 1) + 1)..Len(S)
        PROVE  S[i] = a[i - (n - 1) + k]
    <3>1. /\ i \in 1..(Len(s) - 1) /\ i + 1 \in (n + 1)..Len(s)
          /\ i - (n - 1) + k = (i + 1) - n + k
      BY <1>2, <1>3, <1>5
    <3>. QED BY <1>2, <1>3, <3>1, Zenon
  <2>3. ASSUME NEW i \in 1..(n - 1)
        PROVE  S[i] \in Events
    <3>1. i \in 1..(Len(s) - 1) /\ i + 1 \in 1..n
      BY <1>2, <1>3
    <3>. QED BY <1>2, <1>3, <3>1, Zenon
  <2>4. InOrder(S, a, n - 1, k)
    BY <2>1, <2>2, <2>3, Zenon DEF InOrder
  <2>5. n - 1 \in Nat
    BY <1>5
  <2>. QED BY <2>4, <2>5, Zenon DEF Ordered, S
<1>. QED BY <1>4, <1>5

LEMMA StepOrder ==
  ASSUME TypeOK, PointersOK, InBody, Ordered(taskList, added), [Next]_vars
  PROVE  Ordered(taskList', added')
<1>. USE Kinds
<1>1. taskList \in Seq(Jobs) /\ added \in Seq(Jobs)
  BY DEF TypeOK, DispatcherTypeOK
<1>2. ASSUME UNCHANGED <<taskList, added>>
      PROVE  Ordered(taskList', added')
  BY <1>2
<1>3. ASSUME NEW t \in Jobs \ {"final"}, QueuePosts(t)
      PROVE  Ordered(taskList', added')
  <2>1. AddTask(t, FALSE)
    BY <1>3 DEF QueuePosts
  <2>2. CASE dispatcherState = "RUNNING"
    <3>1. taskList' = Append(taskList, t) /\ added' = Append(added, t)
      BY <2>1, <2>2, PostedElements DEF Pushed
    <3>. QED BY <1>1, <3>1, OrderAppended
  <2>3. CASE dispatcherState # "RUNNING"
    BY <1>2, <2>1, <2>3, PostedElements
  <2>. QED BY <2>2, <2>3
<1>4. ASSUME NEW e \in Events, QueueFires(e)
      PROVE  Ordered(taskList', added')
  <2>1. e \in Jobs
    BY DEF Once
  <2>2. AddTask(e, TRUE)
    BY <1>4 DEF QueueFires
  <2>3. CASE dispatcherState = "RUNNING"
    <3>1. taskList' = <<e>> \o taskList /\ added' = added
      BY <2>1, <2>2, <2>3, PostedElements DEF Pushed
    <3>. QED BY <1>1, <3>1, OrderPushed
  <2>4. CASE dispatcherState # "RUNNING"
    BY <1>2, <2>1, <2>2, <2>4, PostedElements
  <2>. QED BY <2>3, <2>4
<1>5. CASE QueueTakes
  BY <1>1, <1>5, OrderTaken DEF QueueTakes
<1>6. CASE QueueCloses
  <2>1. "final" \in Jobs
    BY DEF Jobs, Control
  <2>. QED BY <1>1, <1>6, <2>1, OrderAppended DEF QueueCloses
<1>7. CASE QueueStill \/ QueueFinishes \/ QueueStops
  BY <1>2, <1>7 DEF QueueStill, QueueFinishes, QueueStops
<1>. QED BY <1>3, <1>4, <1>5, <1>6, <1>7, StepQueue, Zenon DEF QueueStep

(* Tasks are taken in the order in which they were accepted, whatever events are put
   before them, and after SIGQUIT none of them is left behind by the task that ends
   the dispatcher thread: what Dispatcher::shutdown pushes is the last that is ever
   pushed, because the dispatcher has stopped accepting tasks by then. *)
THEOREM TakenInTurn == Spec => []TasksInTurn
<1>. DEFINE Inv == TypeOK /\ PointersOK /\ InBody /\ KnownTerm /\ ClosedFirst
                     /\ LastIsFinal /\ Ordered(taskList, added)
<1>1. Init => Inv
  <2>. SUFFICES ASSUME Init PROVE Inv
    OBVIOUS
  <2>1. /\ taskList = <<>> /\ added = <<>> /\ current = Nobody
        /\ dispatcherState = "RUNNING" /\ dispatcherPc = "check"
    BY DEF Init, DispatcherInit
  <2>2. Elements(<<>>) = {} /\ DOMAIN <<>> = {}
    BY DEF Elements
  <2>3. InBody /\ KnownTerm /\ ClosedFirst /\ LastIsFinal
    BY <2>1, <2>2
    DEF InBody, KnownTerm, ClosedFirst, LastIsFinal, Ending, Stopping, Shutdowns, Nobody
  <2>4. InOrder(<<>>, <<>>, 0, 0)
    BY DEF InOrder
  <2>5. Ordered(taskList, added)
    BY <2>1, <2>4 DEF Ordered
  <2>. QED BY <2>3, <2>5, InitTypes
<1>2. Inv /\ [Next]_vars => Inv'
  <2>. SUFFICES ASSUME Inv, [Next]_vars PROVE Inv'
    OBVIOUS
  <2>. QED
    BY StepTypes, StepBody, StepTerm, StepClosed, StepLast, StepOrder
<1>3. Inv => TasksInTurn
  <2>. SUFFICES ASSUME Inv PROVE TasksInTurn
    OBVIOUS
  <2>1. FifoTasks
    BY RestOfOrder DEF FifoTasks, TypeOK, DispatcherTypeOK
  <2>2. QuitDrainsTasks
    BY DEF LastIsFinal, QuitDrainsTasks
  <2>. QED BY <2>1, <2>2 DEF TasksInTurn
<1>. QED BY <1>1, <1>2, <1>3, PTL DEF Spec

=============================================================================
