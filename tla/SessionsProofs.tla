------------------------------ MODULE SessionsProofs ------------------------------
(***************************************************************************)
(* What Sessions guarantees for any characters and protocols and a queue   *)
(* of any length: that a player obeys one client, and that the closed      *)
(* world is empty.                                                         *)
(***************************************************************************)
EXTENDS Sessions, SubsequenceProofs

Tasks == LoginTasks \cup StateTasks \cup {ShutdownTask}

(* A protocol whose login task has not run has no player and takes none over. *)
Unserved ==
  \A q \in Protocols :
    stage[q] \in {"none", "login"} => player[q] = Null /\ connecting[q] = Null

(* Nobody has one player and waits for another. *)
TakesOne == \A q \in Protocols : connecting[q] # Null => player[q] = Null

(* The login tasks ts are of different protocols, which wait for them. *)
Queued(ts, st) ==
  \A i \in 1 .. Len(ts) :
    ts[i].kind = "login" =>
      /\ st[ts[i].by] = "login"
      /\ \A j \in 1 .. Len(ts) : ts[j].kind = "login" /\ j # i => ts[j].by # ts[i].by

LEMMA Apart ==
  /\ Null \notin Characters /\ Null \notin Protocols
  /\ Gone \notin Characters /\ Gone \notin Protocols /\ Null # Gone
BY SessionsAssumption

-----------------------------------------------------------------------------
(* The queue. *)

LEMMA TaskKinds ==
  ASSUME NEW t \in Tasks
  PROVE  /\ t.kind = "login" => t \in LoginTasks
         /\ t.kind \in {"login", "state", "shutdown"}
         /\ t \in StateTasks => t.kind = "state"
         /\ t = ShutdownTask => t.kind = "shutdown"
BY DEF Tasks, LoginTasks, StateTasks, ShutdownTask

LEMMA QueuedAppendOther ==
  ASSUME NEW ts \in Seq(Tasks), NEW t \in Tasks, t.kind # "login", NEW st, Queued(ts, st)
  PROVE  Queued(Append(ts, t), st)
BY AppendProperties DEF Queued

LEMMA QueuedTail ==
  ASSUME NEW ts \in Seq(Tasks), ts # <<>>, NEW st, Queued(ts, st)
  PROVE  Queued(Tail(ts), st) /\ Tail(ts) \in Seq(Tasks)
<1>1. Len(Tail(ts)) = Len(ts) - 1 /\ Tail(ts) \in Seq(Tasks) /\ Len(ts) \in Nat
  BY HeadTailProperties
<1>2. \A i \in 1 .. Len(ts) - 1 : Tail(ts)[i] = ts[i + 1] /\ i + 1 \in 1 .. Len(ts)
  BY <1>1, HeadTailProperties
<1>. QED BY <1>1, <1>2 DEF Queued

LEMMA QueuedLogin ==
  ASSUME NEW ts \in Seq(Tasks), ts # <<>>, NEW q \in Protocols, NEW c \in Characters,
         Head(ts) = [kind |-> "login", by |-> q, name |-> c],
         NEW st \in [Protocols -> {"none", "login", "served", "released"}], Queued(ts, st)
  PROVE  st[q] = "login" /\ Queued(Tail(ts), [st EXCEPT ![q] = "served"])
<1>1. Len(Tail(ts)) = Len(ts) - 1 /\ Tail(ts) \in Seq(Tasks) /\ Len(ts) \in Nat /\ Len(ts) >= 1
  BY HeadTailProperties, EmptySeq
<1>2. \A i \in 1 .. Len(ts) - 1 : Tail(ts)[i] = ts[i + 1] /\ i + 1 \in 1 .. Len(ts) /\ i + 1 # 1
  BY <1>1, HeadTailProperties
<1>3. ts[1].kind = "login" /\ ts[1].by = q /\ 1 \in 1 .. Len(ts)
  BY <1>1, HeadTailProperties
<1>4. st[q] = "login"
  BY <1>3 DEF Queued
<1>5. \A i \in 1 .. Len(ts) - 1 : Tail(ts)[i].kind = "login" => Tail(ts)[i].by # q
  BY <1>2, <1>3 DEF Queued
<1>6. \A i \in 1 .. Len(ts) - 1 : Tail(ts)[i].kind = "login" => Tail(ts)[i].by \in Protocols
  BY <1>1, TaskKinds, ElementOfSeq DEF LoginTasks
<1>7. Queued(Tail(ts), st)
  BY QueuedTail
<1>. QED BY <1>1, <1>4, <1>5, <1>6, <1>7 DEF Queued

LEMMA QueuedPacket ==
  ASSUME NEW ts \in Seq(Tasks), NEW q \in Protocols, NEW c \in Characters,
         NEW st \in [Protocols -> {"none", "login", "served", "released"}], Queued(ts, st),
         st[q] = "none"
  PROVE  Queued(Append(ts, [kind |-> "login", by |-> q, name |-> c]), [st EXCEPT ![q] = "login"])
<1> DEFINE t == [kind |-> "login", by |-> q, name |-> c]
           us == Append(ts, t)
<1>1. t \in Tasks /\ t.kind = "login" /\ t.by = q
  BY DEF Tasks, LoginTasks
<1>2. \A i \in 1 .. Len(ts) : ts[i].kind = "login" => ts[i].by \in Protocols /\ ts[i].by # q
  BY TaskKinds, ElementOfSeq DEF LoginTasks, Queued
<1>3. /\ Len(us) = Len(ts) + 1 /\ Len(ts) \in Nat
      /\ us[Len(ts) + 1] = t
      /\ \A i \in 1 .. Len(ts) : us[i] = ts[i]
  BY <1>1, AppendProperties
<1>. HIDE DEF t, us
<1>4. Queued(us, [st EXCEPT ![q] = "login"])
  BY <1>1, <1>2, <1>3 DEF Queued
<1>. QED BY <1>4 DEF t, us

LEMMA QueuedRelease ==
  ASSUME NEW ts \in Seq(Tasks), NEW q \in Protocols, NEW x,
         NEW st \in [Protocols -> {"none", "login", "served", "released"}], Queued(ts, st),
         st[q] # "login"
  PROVE  Queued(ts, [st EXCEPT ![q] = x])
<1>1. \A i \in 1 .. Len(ts) : ts[i].kind = "login" => ts[i].by \in Protocols /\ ts[i].by # q
  BY TaskKinds, ElementOfSeq DEF LoginTasks, Queued
<1>. QED BY <1>1 DEF Queued

-----------------------------------------------------------------------------
(* The state of the world and of the queue does not matter for who obeys whom. *)

Obeys == /\ OneMaster /\ Unserved /\ TakesOne
         /\ online \subseteq Characters /\ open \subseteq Protocols
         /\ client \in [Characters -> Protocols \cup {Null}]
         /\ stage \in [Protocols -> {"none", "login", "served", "released"}]
         /\ player \in [Protocols -> Characters \cup {Null}]
         /\ connecting \in [Protocols -> Characters \cup {Gone, Null}]

WorldOK == /\ gameState \in GameStates /\ saveStep \in 0 .. 4
           /\ pc \in {"idle", "kicking", "ended"}

QueueOK == tasks \in Seq(Tasks) /\ Queued(tasks, stage)

LEMMA PartsOK == Obeys /\ WorldOK /\ QueueOK => SessionsOK
BY Zenon DEF Obeys, WorldOK, QueueOK, SessionsOK, Tasks

LEMMA RemoveObeys ==
  ASSUME Obeys, NEW c \in Characters, removeCreature(c), open' \subseteq open
  PROVE  Obeys'
<1>1. /\ online' \subseteq Characters /\ open' \subseteq Protocols
      /\ client' \in [Characters -> Protocols \cup {Null}]
      /\ stage' \in [Protocols -> {"none", "login", "served", "released"}]
      /\ player' \in [Protocols -> Characters \cup {Null}]
      /\ connecting' \in [Protocols -> Characters \cup {Gone, Null}]
  BY DEF Obeys, removeCreature
<1>2. OneMaster'
  BY Apart DEF Obeys, OneMaster, removeCreature
<1>3. Unserved' /\ TakesOne'
  BY Apart DEF Obeys, Unserved, TakesOne, removeCreature
<1>. QED BY <1>1, <1>2, <1>3 DEF Obeys

LEMMA KickObeys ==
  ASSUME Obeys, NEW c \in Characters, kickPlayer(c)
  PROVE  Obeys'
BY RemoveObeys DEF kickPlayer

LEMMA SameObeys ==
  ASSUME Obeys, UNCHANGED <<online, client, stage, player, connecting>>, open' \subseteq open
  PROVE  Obeys'
BY DEF Obeys, OneMaster, Unserved, TakesOne

LEMMA PacketObeys ==
  ASSUME Obeys, NEW q \in Protocols, stage[q] = "none",
         stage' = [stage EXCEPT ![q] = "login"], open' = open \cup {q},
         UNCHANGED <<online, client, player, connecting>>
  PROVE  Obeys'
<1>1. player[q] = Null /\ \A c \in Characters : client[c] # q
  BY Apart DEF Obeys, Unserved, OneMaster
<1>2. OneMaster'
  BY <1>1, Apart DEF Obeys, OneMaster
<1>3. Unserved' /\ TakesOne' /\ stage' \in [Protocols -> {"none", "login", "served", "released"}]
  BY DEF Obeys, Unserved, TakesOne
<1>. QED BY <1>2, <1>3 DEF Obeys

(* A protocol that has no player takes x over, or does not. *)
LEMMA TakesOverObeys ==
  ASSUME Obeys, NEW q \in Protocols, player[q] = Null,
         NEW x \in Characters \cup {Gone}, TakesOver(q, x), UNCHANGED online,
         stage[q] \in {"login", "served", "released"},
         \/ stage' = [stage EXCEPT ![q] = "served"] /\ connecting[q] = Null /\ UNCHANGED connecting
         \/ UNCHANGED stage /\ stage[q] # "login" /\ connecting' = [connecting EXCEPT ![q] = Null]
  PROVE  Obeys'
<1>1. \A c \in Characters : client[c] # q
  BY Apart DEF Obeys, OneMaster
<1>2. /\ stage' \in [Protocols -> {"none", "login", "served", "released"}]
      /\ stage'[q] \in {"served", "released"} /\ \A r \in Protocols \ {q} : stage'[r] = stage[r]
      /\ connecting' \in [Protocols -> Characters \cup {Gone, Null}]
      /\ connecting'[q] = Null /\ \A r \in Protocols \ {q} : connecting'[r] = connecting[r]
  BY DEF Obeys
<1>3. CASE x \notin online \/ client[x] # Null
  <2>1. open' = open \ {q} /\ UNCHANGED <<client, player>>
    BY <1>3 DEF TakesOver
  <2>. QED BY <1>1, <1>2, <2>1, Apart DEF Obeys, OneMaster, Unserved, TakesOne
<1>4. CASE x \in online /\ client[x] = Null
  <2>1. /\ client' = [client EXCEPT ![x] = q] /\ player' = [player EXCEPT ![q] = x]
        /\ UNCHANGED open /\ x \in Characters
    BY <1>4 DEF TakesOver, Obeys
  <2>2. OneMaster'
    BY <1>1, <1>2, <1>4, <2>1, Apart DEF Obeys, OneMaster
  <2>3. Unserved' /\ TakesOne'
    BY <1>2, <2>1, Apart DEF Obeys, Unserved, TakesOne
  <2>. QED BY <1>2, <2>1, <2>2, <2>3 DEF Obeys
<1>. QED BY <1>3, <1>4

(* What a login task may do for a protocol that has no player yet. *)
LEMMA LoginObeys ==
  ASSUME Obeys, NEW q \in Protocols, NEW c \in Characters, stage[q] = "login",
         stage' = [stage EXCEPT ![q] = "served"],
         \/ Refuse(q)
         \/ c \notin online /\ Enter(q, c)
         \/ Replace(q, c)
         \/ TakesOver(q, c) /\ UNCHANGED <<online, connecting>>
  PROVE  Obeys'
<1>1. player[q] = Null /\ connecting[q] = Null /\ \A x \in Characters : client[x] # q
  BY Apart DEF Obeys, Unserved, OneMaster
<1>2. stage' \in [Protocols -> {"none", "login", "served", "released"}]
      /\ stage'[q] = "served" /\ \A r \in Protocols \ {q} : stage'[r] = stage[r]
  BY DEF Obeys
<1>3. CASE Refuse(q)
  BY <1>1, <1>2, <1>3, Apart DEF Refuse, Obeys, OneMaster, Unserved, TakesOne
<1>4. CASE c \notin online /\ Enter(q, c)
  <2>1. OneMaster'
    BY <1>1, <1>2, <1>4, Apart DEF Enter, Obeys, OneMaster
  <2>2. Unserved' /\ TakesOne'
    BY <1>1, <1>2, <1>4, Apart DEF Enter, Obeys, Unserved, TakesOne
  <2>. QED BY <1>2, <1>4, <2>1, <2>2 DEF Enter, Obeys
<1>5. CASE ~Refuse(q) /\ Replace(q, c)
  <2>. /\ c \in online /\ client[c] # Null
       /\ open' = open \ {client[c]} /\ connecting' = [connecting EXCEPT ![q] = c]
       /\ UNCHANGED <<online, client, player>>
    BY <1>5 DEF Replace
  <2>1. OneMaster'
    BY <1>1, <1>2, Apart DEF Obeys, OneMaster
  <2>2. Unserved' /\ TakesOne'
    BY <1>1, <1>2, Apart DEF Obeys, Unserved, TakesOne
  <2>. QED BY <1>2, <2>1, <2>2 DEF Obeys
<1>6. CASE TakesOver(q, c) /\ UNCHANGED <<online, connecting>>
  BY <1>1, <1>6, TakesOverObeys
<1>. QED BY <1>3, <1>4, <1>5, <1>6

LEMMA ReleaseObeys ==
  ASSUME Obeys, NEW q \in Protocols, releaseProtocol(q)
  PROVE  Obeys'
<1>1. /\ client' = [c \in Characters |-> IF player[q] = c /\ client[c] = q THEN Null ELSE client[c]]
      /\ q \notin open /\ UNCHANGED <<online, open, connecting>>
      /\ stage[q] \in {"served", "released"}
  BY DEF releaseProtocol
<1>2. \A c \in Characters : client'[c] # q /\ client'[c] \in {client[c], Null}
  BY <1>1, Apart DEF Obeys, OneMaster
<1>3. CASE stage' = [stage EXCEPT ![q] = "released"] /\ UNCHANGED player
  <2>1. OneMaster'
    BY <1>1, <1>2, <1>3, Apart DEF Obeys, OneMaster
  <2>2. Unserved' /\ TakesOne'
    BY <1>1, <1>3, Apart DEF Obeys, Unserved, TakesOne
  <2>. QED BY <1>1, <1>3, <2>1, <2>2 DEF Obeys
<1>4. CASE /\ connecting[q] = Null /\ stage' = [stage EXCEPT ![q] = "none"]
           /\ player' = [player EXCEPT ![q] = Null]
  <2>1. OneMaster'
    BY <1>1, <1>2, <1>4, Apart DEF Obeys, OneMaster
  <2>2. Unserved' /\ TakesOne'
    BY <1>1, <1>4, Apart DEF Obeys, Unserved, TakesOne
  <2>. QED BY <1>1, <1>4, <2>1, <2>2 DEF Obeys
<1>. QED BY <1>3, <1>4 DEF releaseProtocol

-----------------------------------------------------------------------------
(* The steps. *)

SessionsInv == Obeys /\ WorldOK /\ QueueOK /\ ClosedIsEmpty

LEMMA TasksOfKinds ==
  /\ \A new \in GameStates : [kind |-> "state", new |-> new] \in Tasks
  /\ ShutdownTask \in Tasks
  /\ \A new : [kind |-> "state", new |-> new].kind = "state"
  /\ ShutdownTask.kind = "shutdown"
  /\ GameStates = {"NORMAL", "CLOSED", "CLOSING", "SHUTDOWN"}
BY DEF Tasks, StateTasks, ShutdownTask, GameStates

LEMMA RunsATask ==
  ASSUME QueueOK, NEW t, Runs(t), tasks' = Tail(tasks), UNCHANGED stage
  PROVE  QueueOK'
BY QueuedTail DEF QueueOK, Runs

LEMMA PostsATask ==
  ASSUME QueueOK, NEW t \in Tasks, t.kind # "login", tasks' = Append(tasks, t), UNCHANGED stage
  PROVE  QueueOK'
BY QueuedAppendOther, AppendProperties DEF QueueOK

LEMMA LeavingKeeps ==
  ASSUME SessionsInv, NEW c \in Characters, logout(c) \/ onDeath(c)
  PROVE  SessionsInv'
<1>1. Obeys'
  BY KickObeys, RemoveObeys DEF SessionsInv, logout, onDeath
<1>2. WorldOK' /\ QueueOK'
  BY DEF SessionsInv, WorldOK, QueueOK, logout, onDeath, kickPlayer, removeCreature, world
<1>3. ClosedIsEmpty'
  BY DEF SessionsInv, ClosedIsEmpty, logout, onDeath, kickPlayer, removeCreature, world
<1>. QED BY <1>1, <1>2, <1>3 DEF SessionsInv

LEMMA StatesKeep ==
  ASSUME SessionsInv, NEW new \in GameStates, PostState(new) \/ setGameState(new)
  PROVE  SessionsInv'
<1>1. Obeys'
  BY SameObeys DEF SessionsInv, PostState, setGameState, protocols
<1>2. CASE PostState(new)
  <2>1. QueueOK'
    BY <1>2, PostsATask, TasksOfKinds DEF SessionsInv, PostState, addTask, protocols
  <2>2. WorldOK' /\ ClosedIsEmpty'
    BY <1>2 DEF SessionsInv, WorldOK, ClosedIsEmpty, PostState, world
  <2>. QED BY <1>1, <2>1, <2>2 DEF SessionsInv
<1>3. CASE setGameState(new)
  <2>1. QueueOK'
    BY <1>3, RunsATask DEF SessionsInv, setGameState, protocols
  <2>2. WorldOK'
    BY <1>3 DEF SessionsInv, WorldOK, setGameState
  <2>3. ClosedIsEmpty'
    BY <1>3 DEF SessionsInv, ClosedIsEmpty, setGameState, Runs
  <2>. QED BY <1>1, <2>1, <2>2, <2>3 DEF SessionsInv
<1>. QED BY <1>2, <1>3

LEMMA ClosingKeeps ==
  ASSUME SessionsInv, signalHandler \/ Kick \/ Kicked \/ shutdown
  PROVE  SessionsInv'
<1>1. CASE signalHandler
  <2>1. Obeys' /\ QueueOK'
    BY <1>1, SameObeys DEF SessionsInv, QueueOK, signalHandler, protocols
  <2>2. WorldOK' /\ ClosedIsEmpty'
    BY <1>1, TasksOfKinds DEF SessionsInv, WorldOK, ClosedIsEmpty, signalHandler
  <2>. QED BY <2>1, <2>2 DEF SessionsInv
<1>2. CASE Kick
  <2>1. PICK c \in MustGo : kickPlayer(c)
    BY <1>2 DEF Kick
  <2>2. c \in Characters
    BY <2>1 DEF SessionsInv, Obeys, MustGo
  <2>3. Obeys'
    BY <2>1, <2>2, KickObeys DEF SessionsInv
  <2>4. QueueOK' /\ WorldOK'
    BY <1>2, <2>1 DEF SessionsInv, Kick, QueueOK, WorldOK, kickPlayer, removeCreature, world
  <2>5. ClosedIsEmpty'
    BY <1>2 DEF Kick, ClosedIsEmpty, world
  <2>. QED BY <2>3, <2>4, <2>5 DEF SessionsInv
<1>3. CASE Kicked
  <2>1. Obeys'
    BY <1>3, SameObeys DEF SessionsInv, Kicked, protocols
  <2>2. QueueOK'
    <3>1. UNCHANGED stage
      BY <1>3 DEF Kicked, protocols
    <3>2. CASE tasks' = Append(tasks, ShutdownTask)
      BY <3>1, <3>2, PostsATask, TasksOfKinds DEF SessionsInv
    <3>3. CASE tasks' = tasks
      BY <3>1, <3>3 DEF SessionsInv, QueueOK
    <3>. QED BY <1>3, <3>2, <3>3 DEF Kicked
  <2>3. WorldOK'
    BY <1>3 DEF SessionsInv, WorldOK, Kicked
  <2>4. ClosedIsEmpty'
    BY <1>3 DEF ClosedIsEmpty, Kicked, MustGo
  <2>. QED BY <2>1, <2>2, <2>3, <2>4 DEF SessionsInv
<1>4. CASE shutdown
  <2>1. Obeys'
    BY <1>4, SameObeys DEF SessionsInv, shutdown, protocols
  <2>2. QueueOK'
    BY <1>4 DEF shutdown, QueueOK, Queued
  <2>3. WorldOK' /\ ClosedIsEmpty'
    BY <1>4 DEF SessionsInv, WorldOK, ClosedIsEmpty, shutdown
  <2>. QED BY <2>1, <2>2, <2>3 DEF SessionsInv
<1>. QED BY <1>1, <1>2, <1>3, <1>4

LEMMA SavingKeeps ==
  ASSUME SessionsInv, prepareGlobalSave \/ globalSave
  PROVE  SessionsInv'
<1>1. Obeys'
  BY SameObeys DEF SessionsInv, prepareGlobalSave, globalSave, protocols
<1>2. UNCHANGED <<stage, online, pc>>
  BY DEF prepareGlobalSave, globalSave, protocols
<1>3. QueueOK'
  <2>1. CASE UNCHANGED tasks
    BY <1>2, <2>1 DEF SessionsInv, QueueOK
  <2>2. CASE tasks' = Append(tasks, [kind |-> "state", new |-> "SHUTDOWN"])
    BY <1>2, <2>2, PostsATask, TasksOfKinds DEF SessionsInv
  <2>3. CASE tasks' = tasks \o <<[kind |-> "state", new |-> "CLOSED"],
                                 [kind |-> "state", new |-> "NORMAL"]>>
    <3> DEFINE t == [kind |-> "state", new |-> "CLOSED"]
               u == [kind |-> "state", new |-> "NORMAL"]
    <3>1. t \in Tasks /\ u \in Tasks /\ t.kind # "login" /\ u.kind # "login"
      BY TasksOfKinds
    <3>2. tasks \in Seq(Tasks) /\ Queued(tasks, stage)
      BY DEF SessionsInv, QueueOK
    <3>. HIDE DEF t, u
    <3>3. Queued(Append(tasks, t), stage) /\ Append(tasks, t) \in Seq(Tasks)
      BY <3>1, <3>2, QueuedAppendOther, AppendProperties
    <3>4. /\ Queued(Append(Append(tasks, t), u), stage)
          /\ Append(Append(tasks, t), u) \in Seq(Tasks)
      BY <3>1, <3>3, QueuedAppendOther, AppendProperties
    <3>5. Append(Append(tasks, t), u) = tasks \o <<t, u>>
      BY <3>1, <3>2
    <3>6. tasks' = tasks \o <<t, u>>
      BY <2>3 DEF t, u
    <3>. QED BY <1>2, <3>4, <3>5, <3>6 DEF QueueOK
  <2>. QED BY <2>1, <2>2, <2>3 DEF prepareGlobalSave, globalSave
<1>4. WorldOK'
  BY TasksOfKinds DEF SessionsInv, WorldOK, prepareGlobalSave, globalSave
<1>5. ClosedIsEmpty'
  BY <1>2 DEF SessionsInv, ClosedIsEmpty, prepareGlobalSave, globalSave
<1>. QED BY <1>1, <1>3, <1>4, <1>5 DEF SessionsInv

LEMMA SessionsKeep ==
  ASSUME SessionsInv, NEW q \in Protocols, Disconnect(q) \/ Connect(q) \/ releaseProtocol(q)
  PROVE  SessionsInv'
<1>1. CASE Disconnect(q)
  <2>1. Obeys'
    BY <1>1, SameObeys DEF SessionsInv, Disconnect
  <2>2. WorldOK' /\ QueueOK' /\ ClosedIsEmpty'
    BY <1>1 DEF SessionsInv, WorldOK, QueueOK, ClosedIsEmpty, Disconnect, world
  <2>. QED BY <2>1, <2>2 DEF SessionsInv
<1>2. CASE Connect(q)
  <2>1. /\ connecting[q] \in Characters \cup {Gone} /\ player[q] = Null
        /\ stage[q] \in {"served", "released"}
    BY <1>2, Zenon DEF SessionsInv, Obeys, Connect, TakesOne, Unserved
  <2>2. Obeys'
    BY <1>2, <2>1, TakesOverObeys DEF SessionsInv, Connect
  <2>3. WorldOK' /\ QueueOK' /\ ClosedIsEmpty'
    BY <1>2 DEF SessionsInv, WorldOK, QueueOK, ClosedIsEmpty, Connect, world
  <2>. QED BY <2>2, <2>3 DEF SessionsInv
<1>3. CASE releaseProtocol(q)
  <2>1. Obeys'
    BY <1>3, ReleaseObeys DEF SessionsInv
  <2>2. QueueOK'
    <3>1. /\ stage[q] # "login" /\ UNCHANGED tasks
          /\ \E x : stage' = [stage EXCEPT ![q] = x]
      BY <1>3 DEF releaseProtocol
    <3>2. PICK x : stage' = [stage EXCEPT ![q] = x]
      BY <3>1
    <3>3. Queued(tasks, [stage EXCEPT ![q] = x])
      BY <3>1, QueuedRelease DEF SessionsInv, Obeys, QueueOK
    <3>. QED BY <3>1, <3>2, <3>3 DEF SessionsInv, QueueOK
  <2>3. WorldOK' /\ ClosedIsEmpty'
    BY <1>3 DEF SessionsInv, WorldOK, ClosedIsEmpty, releaseProtocol, world
  <2>. QED BY <2>1, <2>2, <2>3 DEF SessionsInv
<1>. QED BY <1>1, <1>2, <1>3

LEMMA LoginsKeep ==
  ASSUME SessionsInv, NEW q \in Protocols, NEW c \in Characters, parseFirstPacket(q, c) \/ login(q, c)
  PROVE  SessionsInv'
<1>1. CASE parseFirstPacket(q, c)
  <2>1. Obeys'
    BY <1>1, PacketObeys DEF SessionsInv, parseFirstPacket
  <2>2. QueueOK'
    <3>1. tasks \in Seq(Tasks) /\ [kind |-> "login", by |-> q, name |-> c] \in Tasks
      BY DEF SessionsInv, QueueOK, Tasks, LoginTasks
    <3>2. tasks' \in Seq(Tasks)
      BY <1>1, <3>1, AppendProperties DEF parseFirstPacket, addTask
    <3>. QED BY <1>1, <3>2, QueuedPacket DEF SessionsInv, Obeys, QueueOK, parseFirstPacket, addTask
  <2>3. WorldOK' /\ ClosedIsEmpty'
    BY <1>1 DEF SessionsInv, WorldOK, ClosedIsEmpty, parseFirstPacket, world
  <2>. QED BY <2>1, <2>2, <2>3 DEF SessionsInv
<1>2. CASE login(q, c)
  <2>1. /\ tasks # <<>> /\ Head(tasks) = [kind |-> "login", by |-> q, name |-> c]
        /\ tasks' = Tail(tasks) /\ stage' = [stage EXCEPT ![q] = "served"]
        /\ UNCHANGED <<gameState, saveStep, pc>>
    BY <1>2 DEF login, Runs, world
  <2>2. stage[q] = "login" /\ QueueOK'
    BY <2>1, QueuedLogin, QueuedTail DEF SessionsInv, Obeys, QueueOK
  <2>3. \/ Refuse(q)
        \/ c \notin online /\ ~Barred(c) /\ Enter(q, c)
        \/ Replace(q, c)
        \/ TakesOver(q, c) /\ UNCHANGED <<online, connecting>>
    BY <1>2, Zenon DEF login, NewPlayer
  <2>4. Obeys'
    BY <2>1, <2>2, <2>3, LoginObeys DEF SessionsInv
  <2>5. online' = online \/ (~Barred(c) /\ online' = online \cup {c})
    BY <2>3 DEF Refuse, Enter, Replace
  <2>6. ClosedIsEmpty' /\ WorldOK'
    BY <2>1, <2>5 DEF SessionsInv, ClosedIsEmpty, Barred, WorldOK
  <2>. QED BY <2>2, <2>4, <2>6 DEF SessionsInv
<1>. QED BY <1>1, <1>2

LEMMA StepKeeps ==
  ASSUME SessionsInv, [Next]_vars
  PROVE  SessionsInv'
<1>1. CASE TimePasses \/ UNCHANGED vars
  <2>1. UNCHANGED <<online, client, protocols, world, tasks>>
    BY <1>1 DEF TimePasses, vars
  <2>2. Obeys'
    BY <2>1, SameObeys DEF SessionsInv, Obeys, protocols
  <2>. QED BY <2>1, <2>2 DEF SessionsInv, WorldOK, QueueOK, ClosedIsEmpty, protocols, world
<1>. QED
  BY <1>1, LeavingKeeps, StatesKeep, ClosingKeeps, SavingKeeps, SessionsKeep, LoginsKeep, Zenon
  DEF Next

LEMMA InitKeeps ==
  ASSUME Init
  PROVE  SessionsInv
<1>1. Obeys
  BY Apart DEF Init, Obeys, OneMaster, Unserved, TakesOne
<1>2. WorldOK /\ QueueOK /\ ClosedIsEmpty
  BY TasksOfKinds DEF Init, WorldOK, QueueOK, Queued, ClosedIsEmpty
<1>. QED BY <1>1, <1>2 DEF SessionsInv

THEOREM SessionsInvariant == Spec => []SessionsInv
<1>1. Init => SessionsInv
  BY InitKeeps
<1>2. SessionsInv /\ [Next]_vars => SessionsInv'
  BY StepKeeps
<1>. QED BY <1>1, <1>2, PTL DEF Spec

-----------------------------------------------------------------------------
(* The waiting list. *)

(* The premium players are in front of the others. *)
PremiumFirst(list) ==
  \A i, j \in 1 .. Len(list) : i < j /\ list[j].who \in Premium => list[i].who \in Premium

ListOK == waitList \in Seq(Entries) /\ PremiumFirst(waitList) /\ IsFiniteSet(online)

LEMMA CleanupProperties ==
  ASSUME waitList \in Seq(Entries), PremiumFirst(waitList)
  PROVE  /\ cleanup \in Seq(Entries) /\ PremiumFirst(cleanup)
         /\ \A j \in 1 .. Len(cleanup) : \E i \in 1 .. Len(waitList) : cleanup[j] = waitList[i]
         /\ \A i \in 1 .. Len(waitList) :
              ~waitList[i].late =>
                \E j \in 1 .. Len(cleanup) :
                  /\ cleanup[j] = waitList[i] /\ j <= i
                  /\ \A k \in 1 .. Len(waitList) : waitList[k].late /\ k < i => j < i
<1>. DEFINE K == {i \in DOMAIN waitList : ~waitList[i].late}
            n == Cardinality(K)
<1>1. DOMAIN waitList = 1 .. Len(waitList) /\ Len(waitList) \in Nat /\ K \in SUBSET DOMAIN waitList
  OBVIOUS
<1>2. cleanup = Kept(waitList, K)
  BY DEF cleanup
<1>3. \A k \in K : k \in 1 .. Len(waitList) /\ k \in Nat \ {0} /\ ~waitList[k].late
  BY <1>1
<1>4. \A i \in 1 .. Len(waitList) : ~waitList[i].late => i \in K
  BY <1>1
<1>. HIDE DEF K
<1>. DEFINE f == Ascending(K)
<1>5. /\ cleanup \in Seq(Entries) /\ Len(cleanup) = n /\ n \in Nat
      /\ f \in [1 .. n -> K] /\ \A i \in 1 .. n : cleanup[i] = waitList[f[i]]
  <2>1. waitList \in Seq(Entries)
    OBVIOUS
  <2>. QED BY <1>1, <1>2, <2>1, KeptProperties
<1>6. /\ \A i \in 1 .. n : i <= f[i]
      /\ \A i, j \in 1 .. n : i < j => f[i] < f[j]
      /\ \A k \in K : \E i \in 1 .. n : f[i] = k
  BY <1>1, <1>5, AscendingProperties DEF Rising
<1>. HIDE DEF n, f
<1>7. \A i \in 1 .. n : f[i] \in K /\ f[i] \in 1 .. Len(waitList) /\ cleanup[i] = waitList[f[i]]
  BY <1>3, <1>5, <1>6
<1>8. PremiumFirst(cleanup) /\ \A j \in 1 .. Len(cleanup) : \E i \in 1 .. Len(waitList) : cleanup[j] = waitList[i]
  <2>1. ASSUME NEW i \in 1 .. n, NEW j \in 1 .. n, i < j, cleanup[j].who \in Premium
        PROVE  cleanup[i].who \in Premium
    <3>1. f[i] < f[j]
      BY <1>6, <2>1
    <3>2. /\ f[i] \in 1 .. Len(waitList) /\ f[j] \in 1 .. Len(waitList)
          /\ cleanup[i] = waitList[f[i]] /\ cleanup[j] = waitList[f[j]]
      BY <1>7
    <3>. QED BY <2>1, <3>1, <3>2 DEF PremiumFirst
  <2>2. PremiumFirst(cleanup)
    BY <1>5, <2>1 DEF PremiumFirst
  <2>. QED BY <1>5, <1>7, <2>2
<1>9. ASSUME NEW i \in 1 .. Len(waitList), ~waitList[i].late
      PROVE  \E j \in 1 .. Len(cleanup) :
               /\ cleanup[j] = waitList[i] /\ j <= i
               /\ \A k \in 1 .. Len(waitList) : waitList[k].late /\ k < i => j < i
  <2>1. PICK j \in 1 .. n : f[j] = i
    BY <1>4, <1>6, <1>9
  <2>2. ASSUME NEW k \in 1 .. Len(waitList), waitList[k].late, k < i
        PROVE  j < i
    <3>1. \A m \in 1 .. n : f[m] # k
      BY <1>3, <1>7, <2>2
    <3>2. f \in [1 .. n -> Nat \ {0}] /\ Rising(f)
      BY <1>3, <1>5, <1>6 DEF Rising
    <3>3. k \in Nat \ {0} /\ f[j] > k
      BY <2>1, <2>2
    <3>. QED BY <1>5, <2>1, <3>1, <3>2, <3>3, KeptPast
  <2>. QED BY <1>5, <1>6, <2>1, <2>2
<1>. QED BY <1>5, <1>8, <1>9

LEMMA BehindProperties ==
  ASSUME NEW list \in Seq(Entries), NEW c
  PROVE  /\ Behind(list, c) \in 1 .. Len(list) + 1
         /\ c \notin Premium => Behind(list, c) = Len(list) + 1
         /\ c \in Premium =>
              /\ \A j \in 1 .. Behind(list, c) - 1 : list[j].who \in Premium
              /\ Behind(list, c) \in 1 .. Len(list) => list[Behind(list, c)].who \notin Premium
<1>1. Len(list) \in Nat /\ DOMAIN list = 1 .. Len(list)
  OBVIOUS
<1>2. CASE c \notin Premium
  BY <1>1, <1>2 DEF Behind
<1>3. CASE c \in Premium
  <2>. DEFINE T == {i \in 1 .. Len(list) + 1 : i \in 1 .. Len(list) => list[i].who \notin Premium}
              P(i) == /\ i \in DOMAIN list => list[i].who \notin Premium
                      /\ \A j \in 1 .. i - 1 : list[j].who \in Premium
  <2>1. Len(list) + 1 \in T /\ T \in SUBSET Nat
    BY <1>1
  <2>2. PICK n \in T : \A m \in T : n <= m
    BY <2>1, LeastNumber
  <2>3. \A j \in 1 .. n - 1 : list[j].who \in Premium
    <3>1. ASSUME NEW j \in 1 .. n - 1, list[j].who \notin Premium
          PROVE  FALSE
      <4>1. n \in 1 .. Len(list) + 1 /\ j \in 1 .. Len(list) + 1 /\ ~(n <= j)
        BY <1>1
      <4>2. j \in T
        BY <3>1, <4>1
      <4>. QED BY <2>2, <4>1, <4>2
    <3>. QED BY <3>1
  <2>4. n \in 1 .. Len(list) + 1 /\ P(n)
    BY <1>1, <2>3
  <2>5. Behind(list, c) = CHOOSE i \in 1 .. Len(list) + 1 : P(i)
    BY <1>3 DEF Behind
  <2>. HIDE DEF P
  <2>6. Behind(list, c) \in 1 .. Len(list) + 1 /\ P(Behind(list, c))
    BY <2>4, <2>5, Zenon
  <2>. QED BY <1>1, <1>3, <2>6 DEF P
<1>. QED BY <1>2, <1>3

LEMMA RemovedFirst ==
  ASSUME NEW list \in Seq(Entries), PremiumFirst(list), NEW i \in 1 .. Len(list)
  PROVE  RemoveAt(list, i) \in Seq(Entries) /\ PremiumFirst(RemoveAt(list, i))
<1>. DEFINE new == RemoveAt(list, i)
<1>1. /\ new \in Seq(Entries) /\ Len(new) = Len(list) - 1 /\ Len(list) \in Nat
      /\ \A j \in 1 .. Len(list) - 1 : new[j] = IF j < i THEN list[j] ELSE list[j + 1]
  <2>1. Len(list) \in Nat
    OBVIOUS
  <2>. QED BY <2>1, RemoveAtProperties, Zenon
<1>. HIDE DEF new
<1>2. ASSUME NEW j \in 1 .. Len(new), NEW k \in 1 .. Len(new), j < k, new[k].who \in Premium
      PROVE  new[j].who \in Premium
  <2>. DEFINE from(x) == IF x < i THEN x ELSE x + 1
  <2>1. \A x \in 1 .. Len(list) - 1 : new[x] = list[from(x)]
    BY <1>1
  <2>2. from(j) \in 1 .. Len(list) /\ from(k) \in 1 .. Len(list) /\ from(j) < from(k)
    BY <1>1, <1>2
  <2>3. new[j] = list[from(j)] /\ new[k] = list[from(k)]
    <3>1. j \in 1 .. Len(list) - 1 /\ k \in 1 .. Len(list) - 1
      BY <1>1
    <3>. QED BY <2>1, <3>1
  <2>. HIDE DEF from
  <2>. QED BY <1>2, <2>2, <2>3 DEF PremiumFirst
<1>3. PremiumFirst(new)
  BY <1>2 DEF PremiumFirst
<1>. QED BY <1>1, <1>3 DEF new

LEMMA InsertedFirst ==
  ASSUME NEW list \in Seq(Entries), PremiumFirst(list), NEW e \in Entries
  PROVE  /\ InsertAt(list, Behind(list, e.who), e) \in Seq(Entries)
         /\ PremiumFirst(InsertAt(list, Behind(list, e.who), e))
<1>. DEFINE p == Behind(list, e.who)
            new == InsertAt(list, p, e)
<1>1. /\ p \in 1 .. Len(list) + 1
      /\ e.who \notin Premium => p = Len(list) + 1
      /\ e.who \in Premium => \A j \in 1 .. p - 1 : list[j].who \in Premium
      /\ e.who \in Premium => (p \in 1 .. Len(list) => list[p].who \notin Premium)
  BY BehindProperties, Zenon
<1>. HIDE DEF p
<1>2. /\ new \in Seq(Entries) /\ Len(new) = Len(list) + 1 /\ Len(list) \in Nat
      /\ new[p] = e
      /\ \A j \in 1 .. p - 1 : new[j] = list[j]
      /\ \A j \in p .. Len(list) : new[j + 1] = list[j]
  BY <1>1, InsertAtProperties
<1>. HIDE DEF new
<1>3. \A j \in 1 .. Len(new) : j > p => j - 1 \in p .. Len(list) /\ new[j] = list[j - 1]
  <2>1. ASSUME NEW j \in 1 .. Len(new), j > p
        PROVE  j - 1 \in p .. Len(list) /\ new[j] = list[j - 1]
    <3>1. j - 1 \in p .. Len(list) /\ (j - 1) + 1 = j
      BY <1>1, <1>2, <2>1
    <3>. QED BY <1>2, <3>1
  <2>. QED BY <2>1
<1>4. \A j \in 1 .. Len(new) : j < p => j \in 1 .. p - 1 /\ new[j] = list[j]
  BY <1>1, <1>2
<1>5. e.who \in Premium => \A j \in p .. Len(list) : list[j].who \notin Premium
  BY <1>1, <1>2 DEF PremiumFirst
<1>6. ASSUME NEW j \in 1 .. Len(new), NEW k \in 1 .. Len(new), j < k, new[k].who \in Premium
      PROVE  new[j].who \in Premium
  <2>1. CASE e.who \in Premium
    <3>1. ~(k > p)
      BY <1>3, <1>5, <1>6, <2>1
    <3>2. j < p
      BY <1>1, <1>6, <3>1
    <3>. QED BY <1>1, <1>4, <2>1, <3>2
  <2>2. CASE e.who \notin Premium
    <3>1. p = Len(list) + 1 /\ k # p
      BY <1>1, <1>2, <1>6, <2>2
    <3>2. k < p /\ j < p
      BY <1>1, <1>2, <1>6, <3>1
    <3>3. new[k] = list[k] /\ new[j] = list[j] /\ j \in 1 .. Len(list) /\ k \in 1 .. Len(list)
      BY <1>2, <1>4, <3>1, <3>2
    <3>. QED BY <1>6, <3>3 DEF PremiumFirst
  <2>. QED BY <2>1, <2>2
<1>7. PremiumFirst(new)
  BY <1>6 DEF PremiumFirst
<1>. QED BY <1>2, <1>7 DEF new, p

-----------------------------------------------------------------------------
(* The steps, for the waiting list. *)

(* A new Player object for c, for which the waiting list is asked. *)
AsksList(c) ==
  /\ c \notin online
  /\ tasks # <<>> /\ Head(tasks).kind = "login" /\ Head(tasks).name = c /\ tasks' = Tail(tasks)
  /\ \/ Wait(c, Cardinality(online)) /\ UNCHANGED online
     \/ LetIn(c, Cardinality(online)) /\ (UNCHANGED online \/ online' = online \cup {c})

LEMMA ListSteps ==
  ASSUME [Next]_vars
  PROVE  \/ UNCHANGED waitList /\ online' \subseteq online
         \/ UNCHANGED online /\ \E i \in DOMAIN waitList : Late(i)
         \/ \E c \in Characters : AsksList(c)
<1>1. CASE \E c \in Characters : logout(c) \/ onDeath(c)
  BY <1>1 DEF logout, onDeath, kickPlayer, removeCreature
<1>2. CASE \E new \in GameStates : PostState(new) \/ setGameState(new)
  BY <1>2 DEF PostState, setGameState
<1>3. CASE signalHandler \/ Kicked \/ shutdown \/ prepareGlobalSave \/ globalSave \/ UNCHANGED vars
  BY <1>3 DEF signalHandler, Kicked, shutdown, prepareGlobalSave, globalSave, vars
<1>4. CASE Kick
  BY <1>4 DEF Kick, kickPlayer, removeCreature
<1>5. CASE TimePasses
  BY <1>5 DEF TimePasses
<1>6. CASE \E q \in Protocols : Disconnect(q) \/ Connect(q) \/ releaseProtocol(q)
  BY <1>6 DEF Disconnect, Connect, releaseProtocol
<1>7. CASE \E q \in Protocols, c \in Characters : parseFirstPacket(q, c)
  BY <1>7 DEF parseFirstPacket
<1>8. ASSUME NEW q \in Protocols, NEW c \in Characters, login(q, c)
      PROVE  UNCHANGED <<waitList, online>> \/ AsksList(c)
  <2>1. /\ tasks # <<>> /\ Head(tasks).kind = "login" /\ Head(tasks).name = c
        /\ tasks' = Tail(tasks)
    BY <1>8 DEF login, Runs
  <2>2. CASE NewPlayer(q, c)
    BY <2>1, <2>2 DEF NewPlayer, AsksList, Refuse, Enter
  <2>3. CASE ~NewPlayer(q, c)
    BY <1>8, <2>3 DEF login, Replace, Refuse
  <2>. QED BY <2>2, <2>3
<1>. QED BY <1>1, <1>2, <1>3, <1>4, <1>5, <1>6, <1>7, <1>8, Zenon DEF Next

LEMMA LateEntry ==
  ASSUME waitList \in Seq(Entries), NEW i \in DOMAIN waitList, Late(i)
  PROVE  /\ waitList' \in Seq(Entries) /\ Len(waitList') = Len(waitList)
         /\ \A j \in 1 .. Len(waitList) : waitList'[j].who = waitList[j].who
<1>1. waitList' = [waitList EXCEPT ![i].late = TRUE]
  BY DEF Late
<1>2. /\ DOMAIN waitList = 1 .. Len(waitList) /\ Len(waitList) \in Nat
      /\ \A j \in 1 .. Len(waitList) : waitList[j] \in Entries
  OBVIOUS
<1>3. waitList' = [waitList EXCEPT ![i] = [waitList[i] EXCEPT !.late = TRUE]]
  BY <1>1
<1>4. [waitList[i] EXCEPT !.late = TRUE] \in Entries
      /\ [waitList[i] EXCEPT !.late = TRUE].who = waitList[i].who
  BY <1>2 DEF Entries
<1>5. waitList' \in [1 .. Len(waitList) -> Entries]
  BY <1>2, <1>3, <1>4
<1>6. waitList' \in Seq(Entries) /\ Len(waitList') = Len(waitList)
  BY <1>2, <1>5
<1>7. \A j \in 1 .. Len(waitList) : waitList'[j].who = waitList[j].who
  BY <1>2, <1>3, <1>4
<1>. QED BY <1>6, <1>7

LEMMA AskedList ==
  ASSUME waitList \in Seq(Entries), PremiumFirst(waitList), NEW c \in Characters, AsksList(c)
  PROVE  waitList' \in Seq(Entries) /\ PremiumFirst(waitList')
<1>1. cleanup \in Seq(Entries) /\ PremiumFirst(cleanup)
  BY CleanupProperties
<1>2. \A slot \in Slots(cleanup, c) : slot \in 1 .. Len(cleanup)
  BY <1>1 DEF Slots
<1>3. CASE Wait(c, Cardinality(online))
  <2>. DEFINE e == [who |-> c, late |-> FALSE]
  <2>1. waitList' = cleanup \/ waitList' = InsertAt(cleanup, Behind(cleanup, c), e)
    BY <1>3 DEF Wait
  <2>2. e \in Entries /\ e.who = c
    BY DEF Entries
  <2>. HIDE DEF e
  <2>. QED BY <1>1, <2>1, <2>2, InsertedFirst
<1>4. CASE LetIn(c, Cardinality(online))
  <2>1. UNCHANGED waitList \/ \E slot \in Slots(cleanup, c) : waitList' = RemoveAt(cleanup, slot)
    BY <1>4 DEF LetIn
  <2>. QED BY <1>1, <1>2, <2>1, RemovedFirst
<1>. QED BY <1>3, <1>4 DEF AsksList

LEMMA ListKept ==
  ASSUME ListOK, [Next]_vars
  PROVE  ListOK'
<1>1. IsFiniteSet(online')
  <2>1. ASSUME NEW c PROVE IsFiniteSet(online \cup {c})
    BY FS_AddElement DEF ListOK
  <2>2. online' \subseteq online => IsFiniteSet(online')
    BY FS_Subset DEF ListOK
  <2>. QED BY <2>1, <2>2, ListSteps DEF AsksList
<1>2. CASE UNCHANGED waitList
  BY <1>1, <1>2 DEF ListOK
<1>3. CASE \E i \in DOMAIN waitList : Late(i)
  <2>1. /\ waitList' \in Seq(Entries) /\ Len(waitList') = Len(waitList)
        /\ \A j \in 1 .. Len(waitList) : waitList'[j].who = waitList[j].who
    BY <1>3, LateEntry DEF ListOK
  <2>2. PremiumFirst(waitList')
    BY <2>1 DEF ListOK, PremiumFirst
  <2>. QED BY <1>1, <2>1, <2>2 DEF ListOK
<1>4. CASE \E c \in Characters : AsksList(c)
  BY <1>1, <1>4, AskedList DEF ListOK
<1>. QED BY <1>2, <1>3, <1>4, ListSteps

(* The list is one, and the premium players are in front. *)
THEOREM ListInvariant == Spec => []ListOK
<1>1. Init => ListOK
  BY FS_EmptySet DEF Init, WaitingListInit, ListOK, PremiumFirst
<1>2. ListOK /\ [Next]_vars => ListOK'
  BY ListKept
<1>. QED BY <1>1, <1>2, PTL DEF Spec

-----------------------------------------------------------------------------
(* Who waits keeps the place. *)

(* There is a free place for c, whose entry is at j. *)
HasPlace(list, c, j, players) ==
  j \in 1 .. Len(list) /\ list[j].who = c /\ players + j <= MAX_PLAYERS

LEMMA RemovedPlace ==
  ASSUME NEW list \in Seq(Entries), NEW c, NEW j, NEW players \in Nat, HasPlace(list, c, j, players),
         NEW slot \in 1 .. Len(list), slot # j, players + slot <= MAX_PLAYERS,
         NEW more \in {players, players + 1}
  PROVE  \E k : HasPlace(RemoveAt(list, slot), c, k, more)
<1>1. /\ Len(RemoveAt(list, slot)) = Len(list) - 1 /\ Len(list) \in Nat /\ MAX_PLAYERS \in Nat
      /\ \A k \in 1 .. Len(list) - 1 :
           RemoveAt(list, slot)[k] = IF k < slot THEN list[k] ELSE list[k + 1]
  <2>1. Len(list) \in Nat
    OBVIOUS
  <2>. QED BY <2>1, RemoveAtProperties, WaitingListAssumption
<1>2. j \in 1 .. Len(list) /\ list[j].who = c /\ players + j <= MAX_PLAYERS
  BY DEF HasPlace
<1>3. CASE j < slot
  <2>1. j \in 1 .. Len(list) - 1 /\ more + j <= MAX_PLAYERS
    BY <1>1, <1>2, <1>3
  <2>. QED BY <1>1, <1>2, <1>3, <2>1 DEF HasPlace
<1>4. CASE ~(j < slot)
  <2>1. /\ j - 1 \in 1 .. Len(list) - 1 /\ more + (j - 1) <= MAX_PLAYERS
        /\ ~(j - 1 < slot) /\ (j - 1) + 1 = j
    BY <1>1, <1>2, <1>4
  <2>. QED BY <1>1, <1>2, <2>1 DEF HasPlace
<1>. QED BY <1>3, <1>4

LEMMA InsertedPlace ==
  ASSUME NEW list \in Seq(Entries), NEW c, NEW j, NEW players \in Nat, HasPlace(list, c, j, players),
         NEW p \in 1 .. Len(list) + 1, NEW e \in Entries,
         p > j \/ players + j + 1 <= MAX_PLAYERS
  PROVE  \E k : HasPlace(InsertAt(list, p, e), c, k, players)
<1>1. /\ Len(InsertAt(list, p, e)) = Len(list) + 1 /\ Len(list) \in Nat
      /\ \A k \in 1 .. p - 1 : InsertAt(list, p, e)[k] = list[k]
      /\ \A k \in p .. Len(list) : InsertAt(list, p, e)[k + 1] = list[k]
  BY InsertAtProperties
<1>2. j \in 1 .. Len(list) /\ list[j].who = c /\ players + j <= MAX_PLAYERS
  BY DEF HasPlace
<1>3. CASE p > j
  <2>1. j \in 1 .. p - 1 /\ j \in 1 .. Len(list) + 1
    BY <1>1, <1>2, <1>3
  <2>. QED BY <1>1, <1>2, <2>1 DEF HasPlace
<1>4. CASE ~(p > j)
  <2>1. j \in p .. Len(list) /\ j + 1 \in 1 .. Len(list) + 1 /\ players + (j + 1) <= MAX_PLAYERS
    BY <1>1, <1>2, <1>4
  <2>. QED BY <1>1, <1>2, <2>1 DEF HasPlace
<1>. QED BY <1>3, <1>4

(* c, who waits at i, when another one asks, who need not skip the list and does not
   overtake. *)
LEMMA PlaceKept ==
  ASSUME ListOK, NEW i \in 1 .. Len(waitList), ~waitList[i].late,
         Cardinality(online) + i <= MAX_PLAYERS,
         NEW x \in Characters, AsksList(x), x # waitList[i].who,
         online' = online \cup {x} => x \notin Privileged /\ ~(PREMIUM_SKIP_WAIT /\ x \in Premium),
         \A k \in 1 .. Len(waitList') :
           waitList'[k].who = x /\ x \in Premium => \E l \in 1 .. Len(waitList) : waitList[l].who = x
  PROVE  \E k : HasPlace(waitList', waitList[i].who, k, Cardinality(online'))
<1>. DEFINE c == waitList[i].who
            players == Cardinality(online)
<1>1. /\ waitList \in Seq(Entries) /\ PremiumFirst(waitList) /\ Len(waitList) \in Nat
      /\ players \in Nat /\ MAX_PLAYERS \in Nat
  BY FS_CardinalityType, WaitingListAssumption DEF ListOK
<1>2. /\ cleanup \in Seq(Entries) /\ PremiumFirst(cleanup)
      /\ \A k \in 1 .. Len(waitList) :
            ~waitList[k].late => \E l \in 1 .. Len(cleanup) : cleanup[l] = waitList[k]
  BY <1>1, CleanupProperties
<1>3. PICK j \in 1 .. Len(cleanup) :
        /\ cleanup[j] = waitList[i] /\ j <= i
        /\ \A k \in 1 .. Len(waitList) : waitList[k].late /\ k < i => j < i
  BY <1>1, CleanupProperties
<1>4. Len(cleanup) \in Nat /\ DOMAIN cleanup = 1 .. Len(cleanup) /\ j \in Nat /\ i \in Nat
  BY <1>1, <1>2
<1>5. HasPlace(cleanup, c, j, players)
  BY <1>1, <1>3, <1>4 DEF HasPlace
<1>6. CASE Wait(x, players) /\ UNCHANGED online
  <2>1. CASE waitList' = cleanup
    BY <1>5, <1>6, <2>1
  <2>2. CASE waitList' # cleanup
    <3>. DEFINE e == [who |-> x, late |-> FALSE]
                p == Behind(cleanup, x)
    <3>1. waitList' = InsertAt(cleanup, p, e) /\ Slots(cleanup, x) = {}
      BY <1>6, <2>2 DEF Wait
    <3>2. e \in Entries /\ e.who = x
      BY DEF Entries
    <3>. HIDE DEF e
    <3>3. /\ p \in 1 .. Len(cleanup) + 1
          /\ x \notin Premium => p = Len(cleanup) + 1
          /\ x \in Premium => (p \in 1 .. Len(cleanup) => cleanup[p].who \notin Premium)
      BY <1>2, BehindProperties
    <3>. HIDE DEF p
    <3>4. Len(waitList') = Len(cleanup) + 1 /\ waitList'[p] = e
      BY <1>2, <3>1, <3>2, <3>3, InsertAtProperties
    <3>5. ASSUME ~(p > j)
          PROVE  players + j + 1 <= MAX_PLAYERS
      <4>1. p \in 1 .. Len(cleanup) /\ x \in Premium /\ cleanup[p].who \notin Premium
        BY <1>3, <1>4, <3>3, <3>5
      <4>2. cleanup[j].who \notin Premium
        BY <1>2, <1>3, <1>4, <3>5, <4>1 DEF PremiumFirst
      <4>3. PICK l \in 1 .. Len(waitList) : waitList[l].who = x
        BY <1>4, <3>2, <3>3, <3>4, <4>1
      <4>4. waitList[l].late
        <5>1. ASSUME ~waitList[l].late PROVE FALSE
          <6>1. \E m \in 1 .. Len(cleanup) : cleanup[m].who = x
            BY <1>2, <4>3, <5>1
          <6>. QED BY <1>4, <3>1, <6>1 DEF Slots
        <5>. QED BY <5>1
      <4>5. waitList[i].who \notin Premium /\ waitList[l].who \in Premium
        BY <1>3, <4>1, <4>2, <4>3
      <4>6. ~(i < l) /\ i # l
        BY <1>1, <4>5 DEF PremiumFirst
      <4>7. l < i
        BY <1>4, <4>6
      <4>8. j < i
        BY <1>3, <4>4, <4>7
      <4>. QED BY <1>1, <1>4, <4>8
    <3>6. \E k : HasPlace(InsertAt(cleanup, p, e), c, k, players)
      BY <1>1, <1>2, <1>5, <3>2, <3>3, <3>5, InsertedPlace
    <3>. QED BY <1>6, <3>1, <3>6
  <2>. QED BY <2>1, <2>2
<1>7. CASE LetIn(x, players) /\ (UNCHANGED online \/ online' = online \cup {x})
  <2>1. CASE NeedNotWait(x, players)
    <3>1. UNCHANGED waitList
      BY <1>7, <2>1 DEF LetIn
    <3>2. UNCHANGED online
      <4>1. waitList # <<>>
        BY <1>4
      <4>. QED BY <1>7, <2>1, <4>1 DEF NeedNotWait
    <3>. QED BY <1>1, <3>1, <3>2 DEF HasPlace
  <2>2. CASE ~NeedNotWait(x, players)
    <3>1. PICK slot \in Slots(cleanup, x) :
            players + slot <= MAX_PLAYERS /\ waitList' = RemoveAt(cleanup, slot)
      BY <1>7, <2>2 DEF LetIn
    <3>2. slot \in 1 .. Len(cleanup) /\ slot # j
      BY <1>3, <1>4 DEF Slots
    <3>3. Cardinality(online') \in {players, players + 1}
      BY <1>7, FS_AddElement DEF ListOK, AsksList
    <3>. DEFINE more == Cardinality(online')
    <3>. HIDE DEF c, players, more
    <3>4. \E k : HasPlace(RemoveAt(cleanup, slot), c, k, more)
      BY <1>1, <1>2, <1>5, <3>1, <3>2, <3>3, RemovedPlace DEF more, players
    <3>. QED BY <3>1, <3>4 DEF c, more
  <2>. QED BY <2>1, <2>2
<1>. QED BY <1>6, <1>7 DEF AsksList

LEMMA PlaceInStep ==
  ASSUME SessionsInv, ListOK, Next, NEW i \in 1 .. Len(waitList), ~waitList[i].late,
         Cardinality(online) + i <= MAX_PLAYERS,
         \A x \in online' \ online : x \notin Privileged /\ ~(PREMIUM_SKIP_WAIT /\ x \in Premium),
         \A x \in Premium : \A k \in 1 .. Len(waitList') :
           waitList'[k].who = x => \E l \in 1 .. Len(waitList) : waitList[l].who = x
  PROVE  \/ /\ tasks # <<>> /\ Head(tasks).kind = "login" /\ Head(tasks).name = waitList[i].who
            /\ tasks' # tasks
         \/ \E k : HasPlace(waitList', waitList[i].who, k, Cardinality(online'))
<1>1. /\ Cardinality(online) \in Nat /\ MAX_PLAYERS \in Nat
      /\ i \in Nat /\ waitList \in Seq(Entries) /\ tasks \in Seq(Tasks)
  BY FS_CardinalityType, WaitingListAssumption DEF ListOK, SessionsInv, QueueOK
<1>2. CASE UNCHANGED waitList /\ online' \subseteq online
  <2>1. Cardinality(online') \in Nat /\ Cardinality(online') <= Cardinality(online)
    BY <1>2, FS_Subset, FS_CardinalityType DEF ListOK
  <2>2. Cardinality(online') + i <= MAX_PLAYERS
    BY <1>1, <2>1
  <2>3. HasPlace(waitList', waitList[i].who, i, Cardinality(online'))
    BY <1>2, <2>2 DEF HasPlace
  <2>. QED BY <2>3
<1>3. CASE UNCHANGED online /\ \E j \in DOMAIN waitList : Late(j)
  <2>1. /\ Len(waitList') = Len(waitList)
        /\ \A j \in 1 .. Len(waitList) : waitList'[j].who = waitList[j].who
    BY <1>1, <1>3, LateEntry
  <2>. QED BY <1>1, <1>3, <2>1 DEF HasPlace
<1>4. ASSUME NEW x \in Characters, AsksList(x)
      PROVE  \/ /\ tasks # <<>> /\ Head(tasks).kind = "login" /\ Head(tasks).name = waitList[i].who
                /\ tasks' # tasks
             \/ \E k : HasPlace(waitList', waitList[i].who, k, Cardinality(online'))
  <2>1. /\ tasks # <<>> /\ Head(tasks).kind = "login" /\ Head(tasks).name = x /\ tasks' = Tail(tasks)
        /\ x \notin online
    BY <1>4 DEF AsksList
  <2>2. tasks' # tasks
    <3>1. Len(Tail(tasks)) = Len(tasks) - 1 /\ Len(tasks) \in Nat
      BY <1>1, <2>1, HeadTailProperties
    <3>2. Len(Tail(tasks)) # Len(tasks)
      BY <3>1
    <3>. QED BY <2>1, <3>2, Zenon
  <2>3. CASE x # waitList[i].who
    <3>1. online' = online \cup {x} => x \notin Privileged /\ ~(PREMIUM_SKIP_WAIT /\ x \in Premium)
      BY <2>1
    <3>. QED BY <1>4, <2>3, <3>1, PlaceKept
  <2>. QED BY <2>1, <2>2, <2>3
<1>. QED BY <1>2, <1>3, <1>4, ListSteps

(* Who waits keeps the place that is free for it, or asks for it. *)
THEOREM PlacesAreKept == Spec => PlacesKept
<1>1. ASSUME SessionsInv, ListOK, [Next]_vars
      PROVE  [\A i \in DOMAIN waitList :
       LET c == waitList[i].who
           Listed(list) == {list[j].who : j \in DOMAIN list}
           asks == tasks # <<>> /\ Head(tasks).kind = "login" /\ Head(tasks).name = c
           Skipping == Privileged \cup IF PREMIUM_SKIP_WAIT THEN Premium ELSE {}
           overtaken == (Listed(waitList') \ Listed(waitList)) \cap Premium # {}
       IN  /\ ~waitList[i].late /\ Cardinality(online) + i <= MAX_PLAYERS
           /\ (online' \ online) \cap Skipping = {}
           /\ ~overtaken
           => \/ asks /\ tasks' # tasks
              \/ \E j \in DOMAIN waitList' :
                   waitList'[j].who = c /\ Cardinality(online') + j <= MAX_PLAYERS]_vars
  <2>1. CASE UNCHANGED vars
    BY <2>1
  <2>2. CASE Next
    <3>1. /\ DOMAIN waitList = 1 .. Len(waitList) /\ DOMAIN waitList' = 1 .. Len(waitList')
      <4>1. waitList' \in Seq(Entries)
        BY <1>1, ListKept DEF ListOK
      <4>. QED BY <1>1, <4>1 DEF ListOK
    <3>. DEFINE Listed(list) == {list[j].who : j \in DOMAIN list}
                Skipping == Privileged \cup IF PREMIUM_SKIP_WAIT THEN Premium ELSE {}
    <3>2. ASSUME NEW i \in DOMAIN waitList,
                 ~waitList[i].late, Cardinality(online) + i <= MAX_PLAYERS,
                 (online' \ online) \cap Skipping = {},
                 (Listed(waitList') \ Listed(waitList)) \cap Premium = {}
          PROVE  \/ /\ tasks # <<>> /\ Head(tasks).kind = "login" /\ Head(tasks).name = waitList[i].who
                    /\ tasks' # tasks
                 \/ \E j \in DOMAIN waitList' :
                      waitList'[j].who = waitList[i].who /\ Cardinality(online') + j <= MAX_PLAYERS
      <4>1. \A x \in online' \ online : x \notin Privileged /\ ~(PREMIUM_SKIP_WAIT /\ x \in Premium)
        BY <3>2
      <4>2. ASSUME NEW x \in Premium, NEW k \in 1 .. Len(waitList'), waitList'[k].who = x
            PROVE  \E l \in 1 .. Len(waitList) : waitList[l].who = x
        <5>1. x \in Listed(waitList')
          BY <3>1, <4>2
        <5>2. x \in Listed(waitList)
          BY <3>2, <5>1
        <5>. QED BY <3>1, <5>2
      <4>. QED BY <1>1, <2>2, <3>1, <3>2, <4>1, <4>2, PlaceInStep DEF HasPlace
    <3>. QED BY <3>2, Zenon
  <2>. QED BY <1>1, <2>1, <2>2
<1>. QED BY <1>1, SessionsInvariant, ListInvariant, PTL DEF Spec, PlacesKept

(* Type correctness. *)
THEOREM TypesCorrect == Spec => []TypeOK
<1>1. SessionsInv /\ ListOK => TypeOK
  BY PartsOK DEF SessionsInv, ListOK, TypeOK, WaitingListOK
<1>. QED BY <1>1, SessionsInvariant, ListInvariant, PTL

(* A player obeys one client, however many replace each other, and no player has a client
   that was deleted. *)
THEOREM ObeysOneMaster == Spec => []OneMaster
<1>1. SessionsInv => OneMaster
  BY DEF SessionsInv, Obeys
<1>. QED BY <1>1, SessionsInvariant, PTL

(* Nobody is in the closed world who may not be. *)
THEOREM ClosedStaysEmpty == Spec => []ClosedIsEmpty
<1>1. SessionsInv => ClosedIsEmpty
  BY DEF SessionsInv
<1>. QED BY <1>1, SessionsInvariant, PTL
=============================================================================
