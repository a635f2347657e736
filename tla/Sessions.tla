---------------------------------- MODULE Sessions ----------------------------------
(***************************************************************************)
(* Who plays whom, and when the world is open.  A client's ProtocolGame    *)
(* logs in to a character: it makes a Player object, or takes over the one *)
(* that is in the game (protocolgame.cpp).  Whether it may depends on the  *)
(* state of the game (setGameState, the global save: game.cpp) and on the  *)
(* waiting list.  The network thread and the signals post tasks, the       *)
(* dispatcher thread runs them in order; kicking everybody out is a loop   *)
(* inside one task.  What becomes of the connection of a ProtocolGame is   *)
(* the matter of the module Connection; here it is open or not.            *)
(***************************************************************************)
EXTENDS WaitingList, FiniteSets

CONSTANTS Protocols,  \* places in the memory for ProtocolGame objects
          Null,
          Gone,       \* a Player object that is not in the game any more
          MaxTasks    \* bound: the tasks in the queue

ASSUME SessionsAssumption ==
  /\ {Null, Gone} \cap (Characters \cup Protocols) = {} /\ Null # Gone
  /\ MaxTasks \in Nat

VARIABLES
  online,      \* Player::autoList: the characters in the game
  client,      \* Player::client
  stage,       \* of a ProtocolGame: no object, waits for its login task, was served, is released
  open,        \* the protocols whose connection is open
  player,      \* ProtocolGame::player; Null also for a Player that is not in the game
  connecting,  \* eventConnect: the Player object that it will take over
  gameState,
  saveStep,    \* how many of globalSaveMessage are set; 4: its last event has run
  tasks,       \* what waits for the dispatcher thread: logins and changes of the state
  pc           \* kicking: inside setGameState; ended: Game::shutdown has run

protocols == <<stage, open, player, connecting>>
world == <<gameState, saveStep, pc>>
vars == <<waitList, online, client, protocols, world, tasks>>

GameStates == {"NORMAL", "CLOSED", "CLOSING", "SHUTDOWN"}

LoginTasks == [kind : {"login"}, by : Protocols, name : Characters]
StateTasks == [kind : {"state"}, new : GameStates]
ShutdownTask == [kind |-> "shutdown"]

SessionsOK ==
  /\ online \subseteq Characters
  /\ client \in [Characters -> Protocols \cup {Null}]
  /\ stage \in [Protocols -> {"none", "login", "served", "released"}]
  /\ open \subseteq Protocols
  /\ player \in [Protocols -> Characters \cup {Null}]
  /\ connecting \in [Protocols -> Characters \cup {Gone, Null}]
  /\ gameState \in GameStates /\ saveStep \in 0 .. 4
  /\ tasks \in Seq(LoginTasks \cup StateTasks \cup {ShutdownTask})
  /\ pc \in {"idle", "kicking", "ended"}

TypeOK == WaitingListOK /\ SessionsOK

Init ==
  /\ WaitingListInit
  /\ online = {}
  /\ client = [c \in Characters |-> Null]
  /\ stage = [q \in Protocols |-> "none"]
  /\ open = {}
  /\ player = [q \in Protocols |-> Null]
  /\ connecting = [q \in Protocols |-> Null]
  /\ gameState \in {"NORMAL", "CLOSED"}
  /\ saveStep \in 0 .. 2  \* 1, 2: the server was started minutes before a save
  /\ tasks = <<>> /\ pc = "idle"

-----------------------------------------------------------------------------
(* Leaving the game. *)

(* removeCreature: the Player object of c is not in the game any more. *)
removeCreature(c) ==
  /\ online' = online \ {c}
  /\ client' = [client EXCEPT ![c] = Null]
  /\ player' = [q \in Protocols |-> IF player[q] = c THEN Null ELSE player[q]]
  /\ connecting' = [q \in Protocols |-> IF connecting[q] = c THEN Gone ELSE connecting[q]]
  /\ UNCHANGED <<waitList, stage>>

(* ProtocolGame::logout if it has a client; the scripts agree. *)
kickPlayer(c) ==
  /\ c \in online
  /\ open' = open \ {client[c]}
  /\ removeCreature(c)

(* The player wants it, has been silent for too long or is kicked. *)
logout(c) == pc = "idle" /\ kickPlayer(c) /\ UNCHANGED <<world, tasks>>

(* The client of a dead player stays. *)
onDeath(c) ==
  /\ pc = "idle" /\ c \in online
  /\ removeCreature(c)
  /\ UNCHANGED <<open, world, tasks>>

-----------------------------------------------------------------------------
(* The state of the game. *)

(* The queue, until the dispatcher is stopped. *)
addTask(t) ==
  /\ pc # "ended" /\ (gameState = "SHUTDOWN" => pc = "kicking")
  /\ Len(tasks) < MaxTasks
  /\ tasks' = Append(tasks, t)

Runs(t) == pc = "idle" /\ tasks # <<>> /\ Head(tasks) = t

(* Talkactions, scripts and signals. *)
PostState(new) ==
  /\ addTask([kind |-> "state", new |-> new])
  /\ UNCHANGED <<waitList, online, client, protocols, world>>

setGameState(new) ==
  /\ Runs([kind |-> "state", new |-> new])
  /\ tasks' = Tail(tasks)
  /\ IF gameState \in {"SHUTDOWN", new} THEN UNCHANGED <<gameState, pc>>
     ELSE /\ gameState' = new
          /\ pc' = IF new \in {"CLOSED", "SHUTDOWN"} THEN "kicking" ELSE "idle"
  /\ UNCHANGED <<waitList, online, client, protocols, saveStep>>

(* SIGUSR2 opens the world in whatever thread it interrupts. *)
signalHandler ==
  /\ pc # "ended" /\ gameState # "SHUTDOWN"
  /\ gameState' = "NORMAL"
  /\ UNCHANGED <<waitList, online, client, protocols, saveStep, tasks, pc>>

MustGo == IF gameState = "SHUTDOWN" THEN online ELSE online \ Privileged

(* One round of its loop.  One in which the scripts refuse changes nothing: there is then
   another, for ever. *)
Kick ==
  /\ pc = "kicking"
  /\ \E c \in MustGo : kickPlayer(c)
  /\ UNCHANGED <<world, tasks>>

(* The world is saved.  At a shutdown the last task is posted, and no more are accepted. *)
Kicked ==
  /\ pc = "kicking" /\ MustGo = {}
  /\ pc' = "idle"
  /\ tasks' = IF gameState = "SHUTDOWN" THEN Append(tasks, ShutdownTask) ELSE tasks
  /\ UNCHANGED <<waitList, online, client, protocols, gameState, saveStep>>

shutdown ==
  /\ Runs(ShutdownTask)
  /\ pc' = "ended" /\ tasks' = <<>>
  /\ UNCHANGED <<waitList, online, client, protocols, gameState, saveStep>>

(* Mutation of prepareGlobalSave: its last call schedules itself once more. *)
prepareGlobalSaveOn ==
  /\ pc = "idle" /\ gameState # "SHUTDOWN" /\ saveStep <= 4
  /\ saveStep' = saveStep + 1
  /\ gameState' = IF saveStep = 0 THEN "CLOSING" ELSE gameState
  /\ UNCHANGED <<waitList, online, client, protocols, tasks, pc>>

(* The chain of events that ends in the save: three warnings, the first of which closes
   the doors; ... *)
prepareGlobalSave ==
  /\ pc = "idle" /\ gameState # "SHUTDOWN" /\ saveStep < 3
  /\ saveStep' = saveStep + 1
  /\ gameState' = IF saveStep = 0 THEN "CLOSING" ELSE gameState
  /\ UNCHANGED <<waitList, online, client, protocols, tasks, pc>>

(* ... and the server goes down, or is closed and opened again. *)
globalSave ==
  /\ pc = "idle" /\ gameState # "SHUTDOWN" /\ saveStep = 3
  /\ Len(tasks) + 2 <= MaxTasks
  /\ \/ /\ gameState' = "CLOSING"
        /\ tasks' = Append(tasks, [kind |-> "state", new |-> "SHUTDOWN"])
        /\ saveStep' = 4
     \/ /\ tasks' = tasks \o <<[kind |-> "state", new |-> "CLOSED"],
                               [kind |-> "state", new |-> "NORMAL"]>>
        /\ saveStep' = 0
        /\ UNCHANGED gameState
  /\ UNCHANGED <<waitList, online, client, protocols, pc>>

-----------------------------------------------------------------------------
(* Sessions. *)

(* The first packet, in the network thread, which asks for the state a moment before: it
   may be SHUTDOWN by now, as long as the players are being kicked. *)
parseFirstPacket(q, c) ==
  /\ stage[q] = "none"
  /\ addTask([kind |-> "login", by |-> q, name |-> c])
  /\ stage' = [stage EXCEPT ![q] = "login"]
  /\ open' = open \cup {q}
  /\ UNCHANGED <<waitList, online, client, player, connecting, world>>

(* The connection breaks. *)
Disconnect(q) ==
  /\ q \in open
  /\ open' = open \ {q}
  /\ UNCHANGED <<waitList, online, client, stage, player, connecting, world, tasks>>

(* Mutation of TakesOver: connect() does not look whether there is a client by now. *)
TakesOverAnyhow(q, c) ==
  IF c \notin online
  THEN open' = open \ {q} /\ UNCHANGED <<client, player>>
  ELSE /\ client' = [client EXCEPT ![c] = q]
       /\ player' = [player EXCEPT ![q] = c]
       /\ UNCHANGED open

(* connect() *)
TakesOver(q, c) ==
  IF c \notin online \/ client[c] # Null
  THEN open' = open \ {q} /\ UNCHANGED <<client, player>>
  ELSE /\ client' = [client EXCEPT ![c] = q]
       /\ player' = [player EXCEPT ![q] = c]
       /\ UNCHANGED open

Refuse(q) ==
  /\ open' = open \ {q}
  /\ UNCHANGED <<online, client, player, connecting>>

(* The other client is thrown out, or the new one if replaceKickOnLogin is off. *)
Replace(q, c) ==
  /\ c \in online /\ client[c] # Null
  /\ UNCHANGED waitList
  /\ \/ /\ open' = open \ {client[c]}
        /\ connecting' = [connecting EXCEPT ![q] = c]
        /\ UNCHANGED <<online, client, player>>
     \/ Refuse(q)

Enter(q, c) ==
  /\ online' = online \cup {c}
  /\ client' = [client EXCEPT ![c] = q]
  /\ player' = [player EXCEPT ![q] = c]
  /\ UNCHANGED <<open, connecting>>

(* Mutation of Barred: the closed world is open for logins that were posted before. *)
BarredWhenClosing(c) == c \notin Privileged /\ gameState = "CLOSING"

Barred(c) == c \notin Privileged /\ gameState \in {"CLOSING", "CLOSED"}

(* A new Player object: banned or namelocked players and the like are refused, and so is
   who is let in but finds no place in the world or is thrown out by the login scripts. *)
NewPlayer(q, c) ==
  /\ c \notin online
  /\ \/ Refuse(q) /\ UNCHANGED waitList
     \/ ~Barred(c) /\ Wait(c, Cardinality(online)) /\ Refuse(q)
     \/ ~Barred(c) /\ LetIn(c, Cardinality(online)) /\ (Enter(q, c) \/ Refuse(q))

login(q, c) ==
  /\ Runs([kind |-> "login", by |-> q, name |-> c])
  /\ tasks' = Tail(tasks)
  /\ stage' = [stage EXCEPT ![q] = "served"]
  /\ \/ NewPlayer(q, c)
     \/ Replace(q, c)
     \/ /\ c \in online /\ client[c] = Null
        /\ TakesOver(q, c)
        /\ UNCHANGED <<waitList, online, connecting>>
  /\ UNCHANGED world

(* The event, a second later. *)
Connect(q) ==
  /\ pc = "idle" /\ connecting[q] # Null
  /\ TakesOver(q, connecting[q])
  /\ connecting' = [connecting EXCEPT ![q] = Null]
  /\ UNCHANGED <<waitList, online, stage, world, tasks>>

(* releaseProtocol: the task of the close, and again as long as the protocol is in use (by
   its event, or by messages); in the end it is deleted. *)
releaseProtocol(q) ==
  /\ pc = "idle" /\ q \notin open /\ stage[q] \in {"served", "released"}
  /\ client' = [c \in Characters |-> IF player[q] = c /\ client[c] = q THEN Null
                                                                    ELSE client[c]]
  /\ \/ stage' = [stage EXCEPT ![q] = "released"] /\ UNCHANGED player
     \/ /\ connecting[q] = Null
        /\ stage' = [stage EXCEPT ![q] = "none"]
        /\ player' = [player EXCEPT ![q] = Null]
  /\ UNCHANGED <<waitList, online, open, connecting, world, tasks>>

TimePasses ==
  /\ \E i \in DOMAIN waitList : Late(i)
  /\ UNCHANGED <<online, client, protocols, world, tasks>>

Next ==
  \/ \E q \in Protocols : \/ \E c \in Characters : parseFirstPacket(q, c) \/ login(q, c)
                          \/ Disconnect(q) \/ Connect(q) \/ releaseProtocol(q)
  \/ \E c \in Characters : logout(c) \/ onDeath(c)
  \/ \E new \in GameStates : PostState(new) \/ setGameState(new)
  \/ signalHandler \/ Kick \/ Kicked \/ shutdown \/ prepareGlobalSave \/ globalSave \/ TimePasses

Spec == Init /\ [][Next]_vars

-----------------------------------------------------------------------------
(* A player obeys one client: no two open connections have it, whoever took it over from
   whom and in which order the old client is released, the event of the new one comes and a
   third one logs in; and Player::client, a bare pointer, is a ProtocolGame that has not
   been deleted and knows the player. *)
OneMaster ==
  \A c \in Characters, q \in Protocols :
    /\ client[c] = q => c \in online /\ player[q] = c /\ stage[q] \in {"served", "released"}
    /\ player[q] = c /\ q \in open => client[c] = q
    /\ player[q] = c => c \in online

(* While the world is closed nobody is in it who may not be, whatever login was under way
   when it was closed, by an operator or by the global save. *)
ClosedIsEmpty == gameState = "CLOSED" /\ pc = "idle" => online \subseteq Privileged

(* A free place is kept for who waits for it: as long as its entry is not late, nobody takes
   the place but who may always log in (or need not wait, as a premium player) and premium
   players who go in front; it loses its entry only by asking.  (The slots in front of it
   are counted as taken, so whoever was let in from one of them changes nothing.) *)
PlacesKept ==
  [][\A i \in DOMAIN waitList :
       LET c == waitList[i].who
           Listed(list) == {list[j].who : j \in DOMAIN list}
           asks == tasks # <<>> /\ Head(tasks).kind = "login" /\ Head(tasks).name = c
           Skipping == Privileged \cup IF PREMIUM_SKIP_WAIT THEN Premium ELSE {}
           overtaken == (Listed(waitList') \ Listed(waitList)) \cap Premium # {}
       IN  /\ ~waitList[i].late /\ Cardinality(online) + i <= MAX_PLAYERS
           /\ (online' \ online) \cap Skipping = {}
           /\ ~overtaken
           => \/ asks /\ tasks' # tasks
              \/ \E j \in DOMAIN waitList' :
                   waitList'[j].who = c /\ Cardinality(online') + j <= MAX_PLAYERS]_vars
=============================================================================
