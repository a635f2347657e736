------------------------------- MODULE Connection -------------------------------
(***************************************************************************)
(* One accepted connection (connection.cpp) with its protocol object       *)
(* (protocol.cpp, the session part of protocolgame.cpp) and the output     *)
(* messages that refer to both (outputmessage.cpp).  The network thread    *)
(* runs the handlers of the socket and its timers, the dispatcher thread   *)
(* runs the tasks; each object is deleted by hand when its m_refCount is   *)
(* 0, and a task or a handler finds its objects by bare pointers.          *)
(*                                                                         *)
(* A handler that holds m_connectionLock is one step, unless it waits for  *)
(* the lock of the message pool in the middle: parsePacket when it answers *)
(* (ioPc).  The dispatcher thread has a place inside a task only where     *)
(* another thread can come between (dispatcherPc).  The asynchronous calls *)
(* never throw, as asio's report their errors to the handlers.             *)
(***************************************************************************)
EXTENDS Integers, Sequences, FiniteSets

CONSTANTS Msgs,           \* OutputMessages; bound: how many are in use at a time
          AccountManager, \* the account manager is enabled
          BanUnknownBytes \* unknown bytes are banished (autoBanishUnknownBytes)

Nobody == "none"

ASSUME ConnectionAssumption ==
  /\ IsFiniteSet(Msgs)
  /\ Msgs \cap {Nobody, "onConnect", "login", "logout", "close"} = {}
  /\ AccountManager \in BOOLEAN /\ BanUnknownBytes \in BOOLEAN

VARIABLES
  connectionState, pendingRead, pendingWrite, readError, writeError, receivedFirst,
  socket,        \* m_socket
  release,       \* how far releaseConnection has come
  managed,       \* it is in the set of the ConnectionManager
  kind,          \* "game": the server sends first; "other": the client does
  protocol,      \* the Protocol object
  linked,        \* its m_connection is set
  client,        \* a player of the game has it as client
  connecting,    \* ProtocolGame::connect is scheduled
  connRefs, protoRefs,  \* m_refCount; below 0 the code has wrapped around
  torn,          \* history: an update of a counter was lost in a race
  allocated,     \* the messages in use
  outputBuffer,  \* m_outputBuffer
  autoSend,      \* autoSendOutputMessages
  toAdd,         \* toAddQueue
  writing,       \* the messages of the writes under way
  reading,       \* the read under way
  readTimer, writeTimer,  \* the timer is set
  ready,         \* the handlers of timers that went off and the posted one
  ioPc,          \* where the network thread is in parsePacket
  tasks,         \* the tasks for these objects in the dispatcher's list
  dispatcherPc,  \* where the dispatcher thread is in a task for these objects
  freeing        \* the message it frees

stateVars == <<connectionState, readError, writeError, receivedFirst, socket,
               pendingRead, pendingWrite>>
lifeVars == <<release, managed, kind, protocol, linked, client, connecting>>
refVars == <<connRefs, protoRefs, torn, allocated>>
poolVars == <<outputBuffer, autoSend, toAdd>>
writeVars == <<writing, writeTimer>>
readVars == <<reading, readTimer>>
dispatcherVars == <<dispatcherPc, freeing>>

ioVars == <<writeVars, readVars, ready, ioPc>>
vars == <<stateVars, lifeVars, refVars, poolVars, ioVars, tasks, dispatcherVars>>

ConnectionState == {"OPEN", "REQUEST_CLOSE", "CLOSING", "CLOSED"}

Elements(s) == {s[i] : i \in DOMAIN s}

TypeOK ==
  /\ connectionState \in ConnectionState
  /\ pendingRead \in {0, 1} /\ pendingWrite \in {0, 1}
  /\ readError \in BOOLEAN /\ writeError \in BOOLEAN /\ receivedFirst \in BOOLEAN
  /\ socket \in {"open", "closed", "deleted"}
  /\ release \in {"no", "event", "posted", "done"}
  /\ managed \in BOOLEAN
  /\ kind \in {"game", "other"}
  /\ protocol \in {"none", "live", "releasing", "deleted"}
  /\ linked \in BOOLEAN /\ client \in BOOLEAN /\ connecting \in BOOLEAN
  /\ connRefs \in Int /\ protoRefs \in Int /\ torn \in BOOLEAN
  /\ allocated \subseteq Msgs
  /\ outputBuffer \in Msgs \cup {Nobody}
  /\ autoSend \in Seq(Msgs) /\ toAdd \in Seq(Msgs)
  /\ writing \subseteq Msgs
  /\ reading \in {"header", "body", Nobody}
  /\ readTimer \in BOOLEAN /\ writeTimer \in BOOLEAN
  /\ ready \in Seq({"readTimeout", "writeTimeout", "stop"})
  /\ ioPc \in {"idle", "reply", "write", "close", "rest"}
  /\ tasks \in Seq(Msgs \cup {"onConnect", "login", "logout", "close"})
  /\ dispatcherPc \in {"idle", "unref", "refuse", "disconnect", "addQueued", "sendAll"}
  /\ freeing \in Msgs \cup {Nobody}

(* onAccept: createConnection, and accept with the protocol when the service sends
   first, without one when it does not. *)
Init ==
  /\ connectionState = "OPEN"
  /\ pendingRead = 1 /\ pendingWrite = 0
  /\ readError = FALSE /\ writeError = FALSE /\ receivedFirst = FALSE
  /\ socket = "open"
  /\ release = "no" /\ managed = TRUE
  /\ kind \in {"game", "other"}
  /\ protocol = IF kind = "game" THEN "live" ELSE "none"
  /\ linked = (kind = "game")
  /\ client = FALSE /\ connecting = FALSE
  /\ connRefs = 0 /\ protoRefs = 0 /\ torn = FALSE
  /\ allocated = {}
  /\ outputBuffer = Nobody /\ autoSend = <<>> /\ toAdd = <<>>
  /\ writing = {} /\ writeTimer = FALSE
  /\ reading = "header" /\ readTimer = TRUE
  /\ ready = <<>>
  /\ ioPc = "idle"
  /\ tasks = IF kind = "game" THEN <<"onConnect">> ELSE <<>>
  /\ dispatcherPc = "idle" /\ freeing = Nobody

-----------------------------------------------------------------------------
(* The two locks, by who holds them while waiting for something. *)

ConnectionLockFree == ioPc = "idle"
PoolLockFree == dispatcherPc \notin {"addQueued", "sendAll"}

(* The Connection object exists as long as a shared_ptr to it does. *)
Alive == managed \/ linked \/ allocated # {} \/ reading # Nobody

-----------------------------------------------------------------------------
(* Operations of both threads. *)

(* Connection::close, after the tasks posted so far in the step. *)
Close(posted) ==
  IF connectionState = "OPEN"
  THEN connectionState' = "REQUEST_CLOSE" /\ tasks' = posted \o <<"close">>
  ELSE connectionState' = connectionState /\ tasks' = posted

CloseSocket ==
  IF socket = "open"
  THEN socket' = "closed" /\ pendingRead' = 0 /\ pendingWrite' = 0
  ELSE UNCHANGED <<socket, pendingRead, pendingWrite>>

(* Mutation of Count: the connection does not count the message. *)
CountsProtocolOnly(racing) ==
  protoRefs' = protoRefs + 1 /\ connRefs' = connRefs /\ torn' = torn

(* getOutputMessage counts a message in both objects.  When the network thread does
   it while the dispatcher thread counts one out, without a lock in common, either
   update may be lost: the one that the caller makes here, or the other (bound: in
   one step of a behaviour). *)
Count(racing) ==
  \E p, c \in IF racing /\ ~torn THEN 0..2 ELSE {1} :
    /\ protoRefs' = protoRefs + p
    /\ connRefs' = connRefs + c
    /\ torn' = (torn \/ p # 1 \/ c # 1)

Allocate(m, racing) ==
  /\ linked
  /\ m \notin allocated
  /\ allocated' = allocated \cup {m}
  /\ Count(racing)

(* onSendMessage: the message is complete. *)
NotBuffered(m) == outputBuffer' = IF outputBuffer = m THEN Nobody ELSE outputBuffer

CanSend == connectionState = "OPEN" /\ ~writeError

(* Mutation of Send: a write does not wait for the one before. *)
SendAtOnce(m, posted) ==
  /\ NotBuffered(m)
  /\ toAdd' = toAdd
  /\ \/ /\ CanSend
        /\ pendingWrite' = pendingWrite + 1
        /\ writing' = writing \cup {m}
        /\ writeTimer' = TRUE
        /\ tasks' = posted
     \/ /\ ~CanSend
        /\ tasks' = Append(posted, m)
        /\ UNCHANGED <<pendingWrite, writing, writeTimer>>

(* Connection::send, after the tasks posted so far: the message is written, or waits in
   toAddQueue behind a write, or is given up and its release posted. *)
Send(m, posted) ==
  \/ /\ CanSend
     /\ pendingWrite = 0
     /\ NotBuffered(m)
     /\ pendingWrite' = 1
     /\ writing' = writing \cup {m}
     /\ writeTimer' = TRUE
     /\ toAdd' = toAdd
     /\ tasks' = posted
  \/ /\ CanSend
     /\ pendingWrite # 0
     /\ toAdd' = Append(toAdd, m)
     /\ tasks' = posted
     /\ UNCHANGED <<pendingWrite, writing, writeTimer, outputBuffer>>
  \/ /\ ~CanSend
     /\ NotBuffered(m)
     /\ tasks' = Append(posted, m)
     /\ UNCHANGED <<pendingWrite, writing, writeTimer, toAdd>>

(* There is no message to be had: no connection, or the bound is reached. *)
NoMessage == ~linked \/ allocated = Msgs

(* getOutputMessage without autosend, and send. *)
SendNew(racing, posted) ==
  /\ PoolLockFree
  /\ \/ \E m \in Msgs : Allocate(m, racing) /\ Send(m, posted)
     \/ /\ NoMessage
        /\ tasks' = posted
        /\ UNCHANGED <<refVars, pendingWrite, writing, writeTimer, toAdd, outputBuffer>>
  /\ UNCHANGED <<connectionState, readError, writeError, receivedFirst, socket,
                 pendingRead, lifeVars, autoSend, ready, readVars, freeing>>

(* getOutputBuffer: the buffer is used further, or there is none or it is full and a
   message takes its place, held by the autosend list too. *)
Buffer(racing) ==
  \/ outputBuffer # Nobody /\ UNCHANGED <<refVars, poolVars>>
  \/ NoMessage /\ UNCHANGED <<refVars, poolVars>>
  \/ \E m \in Msgs :
       /\ Allocate(m, racing)
       /\ outputBuffer' = m
       /\ autoSend' = Append(autoSend, m)
       /\ toAdd' = toAdd

-----------------------------------------------------------------------------
(* The network thread: the socket. *)

(* parseHeader or parsePacket with an error.  An aborted operation is not closed by
   handleReadError but is right after it. *)
ReadFails ==
  /\ ConnectionLockFree
  /\ reading # Nobody
  /\ readError' = TRUE
  /\ Close(tasks)
  /\ reading' = Nobody /\ readTimer' = FALSE
  /\ UNCHANGED <<writeError, receivedFirst, socket, pendingRead, pendingWrite, lifeVars,
                 refVars, poolVars, writeVars, ready, ioPc, dispatcherVars>>

(* parseHeader: the body is read next, or the connection is closed already or has
   sent too many packets. *)
ParseHeader(tooMany) ==
  /\ ConnectionLockFree
  /\ reading = "header"
  /\ IF connectionState # "OPEN" \/ readError \/ tooMany
     THEN Close(tasks) /\ reading' = Nobody /\ readTimer' = FALSE
     ELSE reading' = "body" /\ readTimer' = TRUE /\ UNCHANGED <<connectionState, tasks>>
  /\ UNCHANGED <<readError, writeError, receivedFirst, socket, pendingRead, pendingWrite,
                 lifeVars, refVars, poolVars, writeVars, ready, ioPc, dispatcherVars>>

(* parsePacket when the connection is closed, or no service speaks the protocol. *)
ParsePacketCloses ==
  /\ ConnectionLockFree
  /\ reading = "body"
  /\ connectionState # "OPEN" \/ readError \/ protocol = "none"
  /\ Close(tasks)
  /\ reading' = Nobody /\ readTimer' = FALSE
  /\ receivedFirst' = (receivedFirst \/ (connectionState = "OPEN" /\ ~readError))
  /\ UNCHANGED <<readError, writeError, socket, pendingRead, pendingWrite,
                 lifeVars, refVars, poolVars, writeVars, ready, ioPc, dispatcherVars>>

(* What the protocol may do with a packet: nothing, post a task, or something that
   needs the next steps.  A task that refers to the protocol is posted with a bare
   pointer to it. *)
FirstPacket == {"post", "reply", "close"}

(* Mutation of LaterPacket: the walk of every player may be cancelled at once. *)
EachPacketWrites == {"rest", "post", "close", "write"}

LaterPacket ==
  {"rest", "post", "close"}
  \cup (IF AccountManager \/ BanUnknownBytes THEN {"write"} ELSE {})

PostTo(answer) ==
  IF answer = "post"
  THEN /\ tasks' = Append(tasks, IF receivedFirst THEN "logout" ELSE "login")
       /\ ioPc' = "rest"
  ELSE tasks' = tasks /\ ioPc' = answer

(* parsePacket up to the answer.  Only a game protocol that has a player reads
   more than the first packet (bound: one logout is queued at a time). *)
ParsePacket(answer) ==
  /\ ConnectionLockFree
  /\ reading = "body"
  /\ connectionState = "OPEN" /\ ~readError
  /\ \/ /\ ~receivedFirst
        /\ answer \in FirstPacket
        /\ protocol' = "live" /\ linked' = TRUE
     \/ /\ receivedFirst
        /\ answer \in (IF client THEN LaterPacket ELSE {"rest"})
        /\ answer = "post" => "logout" \notin Elements(tasks)
        /\ UNCHANGED <<protocol, linked>>
  /\ PostTo(answer)
  /\ receivedFirst' = TRUE
  /\ reading' = Nobody /\ readTimer' = FALSE
  /\ UNCHANGED <<connectionState, readError, writeError, socket, pendingRead,
                 pendingWrite, release, managed, kind, client, connecting, refVars,
                 poolVars, writeVars, ready, dispatcherVars>>

(* disconnectClient: a message, then close(); the pool may be out of reach. *)
PacketReplies ==
  /\ ioPc = "reply"
  /\ SendNew(dispatcherPc = "unref", tasks)
  /\ ioPc' = "close"
  /\ UNCHANGED dispatcherPc

(* sendCancelWalk for a player of the account manager; or the message and the magic
   effect of the ban for an unknown byte. *)
PacketWrites ==
  /\ ioPc = "write"
  /\ PoolLockFree
  /\ Buffer(dispatcherPc = "unref")
  /\ ioPc' = "rest"
  /\ UNCHANGED <<stateVars, lifeVars, writeVars, readVars, ready, tasks, dispatcherVars>>

(* The magic effect of a ban also goes to the clients of the players nearby, from the
   same thread, which holds the lock of another connection then. *)
NeighbourWrites ==
  /\ BanUnknownBytes
  /\ ConnectionLockFree
  /\ client
  /\ PoolLockFree
  /\ Buffer(dispatcherPc = "unref")
  /\ UNCHANGED <<stateVars, lifeVars, writeVars, readVars, ready, ioPc, tasks,
                 dispatcherVars>>

PacketCloses ==
  /\ ioPc = "close"
  /\ Close(tasks)
  /\ ioPc' = "rest"
  /\ UNCHANGED <<readError, writeError, receivedFirst, socket, pendingRead, pendingWrite,
                 lifeVars, refVars, poolVars, writeVars, readVars, ready, dispatcherVars>>

(* The rest of parsePacket reads the next header, also when it has just closed. *)
PacketEnds ==
  /\ ioPc = "rest"
  /\ reading' = "header" /\ readTimer' = TRUE
  /\ ioPc' = "idle"
  /\ UNCHANGED <<stateVars, lifeVars, refVars, poolVars, writeVars, ready, tasks,
                 dispatcherVars>>

(* close(), and then the release of the message. *)
CloseThenRelease(m) ==
  /\ connectionState' = IF connectionState = "OPEN" THEN "REQUEST_CLOSE" ELSE connectionState
  /\ tasks' = Append(IF connectionState = "OPEN" THEN tasks \o <<"close">> ELSE tasks, m)

(* onWriteOperation.  The handler's own copy of the message goes when the handler is
   done, after what it has posted (in the same step here: until then the message is
   where it was, and the network thread does nothing else). *)
WriteEnds(m, error) ==
  /\ ConnectionLockFree
  /\ m \in writing
  /\ writing' = writing \ {m} /\ writeTimer' = FALSE
  /\ writeError' = (writeError \/ error)
  /\ IF connectionState # "OPEN" \/ writeError \/ error
     THEN CloseSocket /\ CloseThenRelease(m)
     ELSE /\ pendingWrite' = pendingWrite - 1
          /\ tasks' = Append(tasks, m)
          /\ UNCHANGED <<socket, pendingRead, connectionState>>
  /\ UNCHANGED <<readError, receivedFirst, lifeVars, refVars, poolVars, ready,
                 readVars, ioPc, dispatcherVars>>

-----------------------------------------------------------------------------
(* The network thread: timers and the end. *)

(* A timer goes off (bound: not again before its handler has run).  Cancelling a
   timer does not take back a handler that has still to run.  The one thread of the
   io_service runs these handlers in the order they became ready. *)
ReadTimerGoesOff ==
  /\ readTimer /\ "readTimeout" \notin Elements(ready)
  /\ readTimer' = FALSE
  /\ ready' = Append(ready, "readTimeout")
  /\ UNCHANGED <<stateVars, lifeVars, refVars, poolVars, writeVars, reading, ioPc, tasks,
                 dispatcherVars>>

WriteTimerGoesOff ==
  /\ writeTimer /\ "writeTimeout" \notin Elements(ready)
  /\ writeTimer' = FALSE
  /\ ready' = Append(ready, "writeTimeout")
  /\ UNCHANGED <<stateVars, lifeVars, refVars, poolVars, writing, readVars, ioPc, tasks,
                 dispatcherVars>>

Runs(handler) ==
  /\ ConnectionLockFree
  /\ ready # <<>>
  /\ Head(ready) = handler
  /\ ready' = Tail(ready)

(* Mutation of TimesOut: the socket is closed and the connection is not. *)
TimesOutOpen(waiting) ==
  /\ IF Alive /\ waiting THEN CloseSocket ELSE UNCHANGED <<socket, pendingRead, pendingWrite>>
  /\ UNCHANGED <<connectionState, tasks>>

(* onReadTimeout and onWriteTimeout, when there is something to time out. *)
TimesOut(waiting) ==
  IF Alive /\ waiting
  THEN CloseSocket /\ Close(tasks)
  ELSE UNCHANGED <<socket, pendingRead, pendingWrite, connectionState, tasks>>

ReadTimeout ==
  /\ Runs("readTimeout")
  /\ TimesOut(pendingRead > 0 \/ readError)
  /\ UNCHANGED <<readError, writeError, receivedFirst, lifeVars, refVars, poolVars,
                 writeVars, readVars, ioPc, dispatcherVars>>

WriteTimeout ==
  /\ Runs("writeTimeout")
  /\ TimesOut(pendingWrite > 0 \/ writeError)
  /\ UNCHANGED <<readError, writeError, receivedFirst, lifeVars, refVars, poolVars,
                 writeVars, readVars, ioPc, dispatcherVars>>

(* onStopOperation. *)
StopOperation ==
  /\ Runs("stop")
  /\ release' = "done"
  /\ managed' = FALSE
  /\ socket' = "deleted"
  /\ readTimer' = FALSE /\ writeTimer' = FALSE
  /\ UNCHANGED <<connectionState, readError, writeError, receivedFirst, pendingRead,
                 pendingWrite, kind, protocol, linked, client, connecting, refVars,
                 poolVars, writing, reading, ioPc, tasks, dispatcherVars>>

NetworkThread ==
  \/ ReadFails
  \/ \E tooMany \in BOOLEAN : ParseHeader(tooMany)
  \/ ParsePacketCloses
  \/ \E answer \in FirstPacket \cup LaterPacket : ParsePacket(answer)
  \/ PacketReplies \/ PacketWrites \/ NeighbourWrites \/ PacketCloses \/ PacketEnds
  \/ \E m \in Msgs, error \in BOOLEAN : WriteEnds(m, error)
  \/ ReadTimerGoesOff \/ WriteTimerGoesOff
  \/ ReadTimeout \/ WriteTimeout
  \/ StopOperation

-----------------------------------------------------------------------------
(* The dispatcher thread.  Its tasks for these objects are taken in order; the events
   of the scheduler and the tasks of the rest of the game come in between. *)

DispatcherIdle == dispatcherPc = "idle"

Takes(task) ==
  /\ DispatcherIdle
  /\ tasks # <<>>
  /\ Head(tasks) = task

Finish == dispatcherPc' = "addQueued"

(* Mutations of ReleaseProtocol: it does not ask whether messages refer to it, or does
   not try again. *)
DeletesAtOnce == protocol' = "deleted"
KeepsProtocol == protocol' = IF protoRefs # 0 THEN "live" ELSE "deleted"

(* Protocol::releaseProtocol tries again after 50 ms while messages refer to it. *)
ReleaseProtocol ==
  protocol' = IF protoRefs # 0 THEN "releasing" ELSE "deleted"

(* Mutations of ReleaseConnection: it does not ask whether messages refer to it, or does
   not try again. *)
PostsAtOnce == release' = "posted" /\ ready' = Append(ready, "stop")
GivesUp ==
  IF connRefs # 0
  THEN UNCHANGED <<release, ready>>
  ELSE release' = "posted" /\ ready' = Append(ready, "stop")

(* Connection::releaseConnection, which does the same, or deleteConnectionTask. *)
ReleaseConnection ==
  IF connRefs # 0
  THEN release' = "event" /\ ready' = ready
  ELSE release' = "posted" /\ ready' = Append(ready, "stop")

CloseConnectionTask ==
  /\ Takes("close")
  /\ ConnectionLockFree
  /\ tasks' = Tail(tasks)
  /\ IF protocol = "none"
     THEN UNCHANGED <<protocol, linked, client>>
     ELSE ReleaseProtocol /\ linked' = FALSE /\ client' = FALSE
  /\ IF pendingWrite = 0 \/ writeError
     THEN CloseSocket /\ ReleaseConnection /\ connectionState' = "CLOSED"
     ELSE connectionState' = "CLOSING" /\ UNCHANGED <<socket, pendingRead, pendingWrite, release, ready>>
  /\ Finish
  /\ UNCHANGED <<readError, writeError, receivedFirst, managed, kind, connecting,
                 refVars, poolVars, writeVars, readVars, ioPc, freeing>>

ReleaseConnectionEvent ==
  /\ DispatcherIdle
  /\ release = "event"
  /\ ReleaseConnection
  /\ Finish
  /\ UNCHANGED <<stateVars, managed, kind, protocol, linked, client, connecting, refVars,
                 poolVars, writeVars, readVars, ioPc, tasks, freeing>>

(* Mutation of ReleaseProtocolEvent: the event calls Protocol's function instead. *)
ReleaseBaseProtocol ==
  /\ DispatcherIdle
  /\ protocol = "releasing"
  /\ ReleaseProtocol
  /\ Finish
  /\ UNCHANGED <<stateVars, release, managed, kind, linked, client, connecting, refVars,
                 poolVars, ioVars, tasks, freeing>>

(* The event calls ProtocolGame::releaseProtocol again, with what it does to the
   player. *)
ReleaseProtocolEvent ==
  /\ DispatcherIdle
  /\ protocol = "releasing"
  /\ ReleaseProtocol
  /\ client' = FALSE
  /\ Finish
  /\ UNCHANGED <<stateVars, release, managed, kind, linked, connecting, refVars,
                 poolVars, ioVars, tasks, freeing>>

(* internalReleaseMessage, between whose reads and writes of the counters the network
   thread may come. *)
FreeMessageBegins(m) ==
  /\ Takes(m)
  /\ tasks' = Tail(tasks)
  /\ freeing' = m
  /\ dispatcherPc' = "unref"
  /\ UNCHANGED <<stateVars, lifeVars, refVars, poolVars, ioVars>>

FreeMessageEnds ==
  /\ dispatcherPc = "unref"
  /\ protoRefs' = protoRefs - 1
  /\ connRefs' = connRefs - 1
  /\ allocated' = allocated \ {freeing}
  /\ freeing' = Nobody
  /\ Finish
  /\ UNCHANGED <<stateVars, lifeVars, torn, poolVars, ioVars, tasks>>

(* The challenge of ProtocolGame::onConnect. *)
OnConnectTask ==
  /\ Takes("onConnect")
  /\ ConnectionLockFree
  /\ SendNew(FALSE, Tail(tasks))
  /\ Finish
  /\ UNCHANGED ioPc

(* ProtocolGame::login: the player is placed, or taken over at once; or a player that
   has another client is disconnected and taken over a second later; or the client is
   refused.  The task of another protocol answers and closes. *)
LoginTask ==
  /\ Takes("login")
  /\ tasks' = Tail(tasks)
  /\ \/ kind = "game" /\ client' = TRUE /\ Finish /\ UNCHANGED <<connecting, protoRefs>>
     \/ /\ kind = "game"
        /\ connecting' = TRUE
        /\ protoRefs' = protoRefs + 1
        /\ client' = client
        /\ Finish
     \/ dispatcherPc' = "refuse" /\ UNCHANGED <<client, connecting, protoRefs>>
  /\ UNCHANGED <<stateVars, release, managed, kind, protocol, linked, connRefs, torn,
                 allocated, poolVars, ioVars, freeing>>

(* ProtocolGame::connect, whatever has become of the connection since. *)
ConnectEvent ==
  /\ DispatcherIdle
  /\ connecting
  /\ connecting' = FALSE
  /\ protoRefs' = protoRefs - 1
  /\ \/ client' = TRUE /\ Finish
     \/ client' = client /\ dispatcherPc' = "refuse"
  /\ UNCHANGED <<stateVars, release, managed, kind, protocol, linked, connRefs, torn,
                 allocated, poolVars, ioVars, tasks, freeing>>

(* disconnectClient: its message, then close(). *)
DispatcherRefuses ==
  /\ dispatcherPc = "refuse"
  /\ ConnectionLockFree
  /\ SendNew(FALSE, tasks)
  /\ dispatcherPc' = "disconnect"
  /\ UNCHANGED ioPc

DispatcherCloses ==
  /\ dispatcherPc = "disconnect"
  /\ IF linked
     THEN ConnectionLockFree /\ Close(tasks)
     ELSE UNCHANGED <<connectionState, tasks>>
  /\ Finish
  /\ UNCHANGED <<readError, writeError, receivedFirst, socket, pendingRead, pendingWrite,
                 lifeVars, refVars, poolVars, ioVars, freeing>>

(* ProtocolGame::logout, which the game may refuse. *)
LogoutTask ==
  /\ Takes("logout")
  /\ tasks' = Tail(tasks)
  /\ Finish \/ dispatcherPc' = "disconnect"
  /\ UNCHANGED <<stateVars, lifeVars, refVars, poolVars, ioVars, freeing>>

(* A task of the game that writes to its clients, kicks the player, or has nothing to
   do with this one. *)
GameWrites ==
  /\ DispatcherIdle
  /\ client
  /\ Buffer(FALSE)
  /\ Finish
  /\ UNCHANGED <<stateVars, lifeVars, ioVars, tasks, freeing>>

GameKicks ==
  /\ DispatcherIdle
  /\ client
  /\ dispatcherPc' = "disconnect"
  /\ UNCHANGED <<stateVars, lifeVars, refVars, poolVars, ioVars, tasks,
                 freeing>>

GameRuns ==
  /\ DispatcherIdle
  /\ Finish
  /\ UNCHANGED <<stateVars, lifeVars, refVars, poolVars, ioVars, tasks,
                 freeing>>

(* Mutation of AddQueued: the queue is not emptied. *)
AddQueuedKeeps(m) ==
  /\ toAdd # <<>> /\ Head(toAdd) = m
  /\ autoSend' = Append(autoSend, m)
  /\ UNCHANGED <<toAdd, outputBuffer, tasks>>

(* sendAll, after every task, with the lock of the pool.  First toAddQueue is moved
   to the front of the list, or to its end when the message is young; a message of
   more than 10 seconds is given up. *)
AddQueued(m) ==
  /\ toAdd # <<>> /\ Head(toAdd) = m
  /\ toAdd' = Tail(toAdd)
  /\ \/ /\ autoSend' \in {<<m>> \o autoSend, Append(autoSend, m)}
        /\ UNCHANGED <<outputBuffer, tasks>>
     \/ /\ NotBuffered(m)
        /\ tasks' = Append(tasks, m)
        /\ UNCHANGED autoSend

SendAllAdds ==
  /\ dispatcherPc = "addQueued"
  /\ \/ toAdd = <<>> /\ dispatcherPc' = "sendAll" /\ UNCHANGED <<poolVars, tasks>>
     \/ \E m \in Msgs : AddQueued(m) /\ UNCHANGED dispatcherPc
  /\ UNCHANGED <<stateVars, lifeVars, refVars, ioVars, freeing>>

(* Then the messages of the list are sent up to the first that is not 10 ms old. *)
SendAllSends ==
  /\ dispatcherPc = "sendAll"
  /\ ConnectionLockFree
  /\ autoSend # <<>>
  /\ Send(Head(autoSend), tasks)
  /\ autoSend' = Tail(autoSend)
  /\ UNCHANGED <<connectionState, readError, writeError, receivedFirst, socket,
                 pendingRead, lifeVars, refVars, readVars, ready, ioPc, dispatcherVars>>

SendAllEnds ==
  /\ dispatcherPc = "sendAll"
  /\ dispatcherPc' = "idle"
  /\ UNCHANGED <<stateVars, lifeVars, refVars, poolVars, ioVars, tasks,
                 freeing>>

DispatcherTask ==
  \/ OnConnectTask \/ LoginTask \/ LogoutTask \/ CloseConnectionTask
  \/ \E m \in Msgs : FreeMessageBegins(m)

DispatcherThread ==
  \/ DispatcherTask
  \/ FreeMessageEnds
  \/ ReleaseConnectionEvent \/ ReleaseProtocolEvent \/ ConnectEvent
  \/ DispatcherRefuses \/ DispatcherCloses
  \/ GameWrites \/ GameKicks \/ GameRuns
  \/ SendAllAdds \/ SendAllSends \/ SendAllEnds

Next == NetworkThread \/ DispatcherThread

Spec == Init /\ [][Next]_vars

(* Fairness.  The network thread runs every handler that is ready: a read or write
   ends at the latest when its socket is closed, a timer that is set goes off, and
   the handlers run as soon as they have the locks.  (A client need not send or
   receive anything.)  The dispatcher thread goes on with what it has begun, takes
   its tasks in order and the events when they are due, and other tasks of the game
   go on coming, with sendAll behind each; so a queued message gets old and is sent. *)
Fairness ==
  /\ WF_vars(ReadFails /\ socket # "open")
  /\ WF_vars(\E m \in Msgs : WriteEnds(m, TRUE) /\ socket # "open")
  /\ WF_vars(PacketReplies) /\ WF_vars(PacketWrites)
  /\ WF_vars(PacketCloses) /\ WF_vars(PacketEnds)
  /\ WF_vars(ReadTimerGoesOff) /\ WF_vars(WriteTimerGoesOff)
  /\ SF_vars(ReadTimeout) /\ SF_vars(WriteTimeout)
  /\ SF_vars(StopOperation)
  /\ WF_vars(DispatcherThread)
  /\ SF_vars(DispatcherTask)
  /\ SF_vars(ReleaseConnectionEvent) /\ SF_vars(ReleaseProtocolEvent)
  /\ SF_vars(ConnectEvent)
  /\ SF_vars(SendAllSends)

FairSpec == Spec /\ Fairness

-----------------------------------------------------------------------------
(* Every message in use has one place: it is queued to be sent, being written, on its
   way back to the pool, or just being put back there.  So none is sent twice or
   freed twice, and none is forgotten, which would keep the objects for ever. *)
Places(m) ==
  {<<"autoSend", i>> : i \in {k \in DOMAIN autoSend : autoSend[k] = m}}
  \cup {<<"toAdd", i>> : i \in {k \in DOMAIN toAdd : toAdd[k] = m}}
  \cup {<<"tasks", i>> : i \in {k \in DOMAIN tasks : tasks[k] = m}}
  \cup {<<o, 0>> : o \in {"writing" : x \in writing \cap {m}}
                        \cup {"freeing" : x \in {freeing} \cap {m}}}

OnePlace ==
  \A m \in Msgs : Cardinality(Places(m)) = IF m \in allocated THEN 1 ELSE 0

(* The protocol's buffer is a message that still waits to be sent: what is written to
   it is not lost, and the buffer never keeps a message from its release. *)
BufferIsQueued ==
  outputBuffer # Nobody => outputBuffer \in Elements(autoSend) \cup Elements(toAdd)

(* No message is lost, doubled or forgotten, nor is what is written to the buffer. *)
MessagesPlaced == OnePlace /\ BufferIsQueued

(* Both counters say how many messages refer to the object, and the protocol's also
   whether connect() is to come, unless an update was lost. *)
Counted ==
  ~torn =>
    /\ connRefs = Cardinality(allocated)
    /\ protoRefs = Cardinality(allocated) + (IF connecting THEN 1 ELSE 0)

(* Nothing that finds the protocol by a bare pointer is left when it is deleted: no
   task, no message, no player and no event. *)
UsesProtocol ==
  \/ Elements(tasks) \cap (Msgs \cup {"onConnect", "login", "logout"}) # {}
  \/ allocated # {} \/ freeing # Nobody
  \/ client \/ connecting \/ linked
  \/ dispatcherPc \in {"refuse", "disconnect"} \/ ioPc # "idle"

DeletedIsForgotten == protocol = "deleted" /\ ~torn => ~UsesProtocol

(* The handlers that use the socket find it: when it is deleted no write is under way,
   and a timer whose handler comes late finds nothing to time out. *)
HandlersFindSocket ==
  socket = "deleted" /\ ~torn =>
    /\ writing = {}
    /\ "readTimeout" \in Elements(ready) /\ Alive => ~(pendingRead > 0 \/ readError)
    /\ "writeTimeout" \in Elements(ready) /\ Alive => ~(pendingWrite > 0 \/ writeError)

(* asio allows one composed write on a socket at a time, and pendingWrite, which
   closeSocket resets under a write, is what keeps it so. *)
OneWrite ==
  /\ Cardinality(writing) <= 1
  /\ CanSend => pendingWrite = Cardinality(writing)

(* The manager keeps the connection for the tasks, events and handlers that hold it by
   `this' only, of which there is one at a time. *)
BarePointers ==
  /\ "close" \in Elements(tasks) \/ release \in {"event", "posted"} => managed
  /\ Cardinality({i \in DOMAIN tasks : tasks[i] = "close"})
       = IF connectionState = "REQUEST_CLOSE" THEN 1 ELSE 0

(* What is found by a bare pointer is there: the protocol and the connection. *)
PointersLive == DeletedIsForgotten /\ BarePointers

(* sendAll, which holds the lock of the pool, does not wait for a connection whose
   parsePacket waits for that lock.  The code takes the two locks in both orders.  What
   keeps the threads apart is that, with both options off, the first packet alone is
   answered at once, and nothing is in the list then; the account manager, and the ban
   for unknown bytes with any player, answer later ones. *)
LocksDoNotCross ==
  ~AccountManager /\ ~BanUnknownBytes =>
    ~(ioPc \in {"reply", "write"} /\ dispatcherPc = "sendAll" /\ autoSend # <<>>)

(* As long as no update of a counter is lost, the objects do what SharedObjects asks. *)
Shared ==
  INSTANCE SharedObjects WITH
    open <- connectionState = "OPEN",
    inUse <- allocated,
    protocol <- IF protocol = "releasing" THEN "live" ELSE protocol,
    socketThere <- socket # "deleted"

SharedSpec == Shared!Init /\ [][Shared!Next \/ torn']_(Shared!vars)

-----------------------------------------------------------------------------
(* A protocol whose connection was asked to close is deleted in the end. *)
ProtocolIsDeleted ==
  connectionState = "REQUEST_CLOSE" ~> (protocol \in {"none", "deleted"} \/ torn)

(* A closed connection leaves the manager in the end. *)
ClosedIsReleased == connectionState = "CLOSED" ~> (~managed \/ torn)

(* closeConnectionTask: "will be closed by onWriteOperation/handleWriteTimeout/
   handleReadTimeout instead" (connection.cpp:111). *)
ClosingIsClosed == connectionState = "CLOSING" ~> connectionState = "CLOSED"

=============================================================================
