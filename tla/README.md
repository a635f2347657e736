# A TLA+ model of the Darghos server (TFS 0.4)

The Forgotten Server 0.4, in the fork kept here, is a game server written in
C++ (`src/src/src`, about 83 000 lines) with a data pack of Lua scripts and XML
(`src/data`). This directory models the parts of it whose correctness depends on
an order of events that no test of the repository produces: the queues every
call goes through, the life of a client's connection, who plays whom while the
world is opened and closed, trades, parties, the clockwork that makes items
decay and the one that makes creatures think and die. TLC checks the models on
small instances; the TLA+ proof system TLAPS proves every safety property that the runs
find to hold for every size. Liveness stays with TLC.

The build that is modelled is the one `src/src/src/CMakeLists.txt` makes:
`__DARGHOS_CUSTOM__`, `__WAR_SYSTEM__`, `__USE_MYSQL__` and
`__TFS_NEWEST_REVS_FIXIES__` are defined, `__DARGHOS_PVP_SYSTEM__` (the
Battleground) and `__LOGIN_SERVER__` are not, and `-DNDEBUG` removes every
assertion.

## 1. Inventory

### 1.1 Threads and what they share

| thread | runs | shares |
|---|---|---|
| main | the loader, then `io_service::run`: every handler of the sockets and their timers (Boost.Asio), one at a time; at the end it joins the other two | `m_connectionLock` of each connection, `outputPoolLock`, `m_connectionManagerLock` |
| dispatcher | the tasks of `Dispatcher::taskList`, one at a time; after each of them `OutputMessagePool::sendAll`. All of Game, all scripts and all SQL run here | `taskLock`, `outputPoolLock`, `m_connectionLock` |
| scheduler | waits for the first event of a heap and hands it to the dispatcher | `eventLock`, `taskLock` |
| signals | `SIGTERM`, `SIGQUIT`, ... post tasks from whatever thread they interrupt | `taskLock` |

The network thread parses a packet and posts a task for it; the dispatcher
thread runs the task and writes its answers to the output buffers of the
clients; `sendAll` starts the writes, whose handlers run on the network thread
again. Everything else (decay, creatures, conditions, raids, saves, the wait for
a connection that is still in use) is an event of the scheduler. Game code
therefore never runs in two threads at once. What can go wrong is (a) at the
edges between the threads, where objects are reference-counted by hand and found
through bare pointers, (b) between two tasks, when state that the first left
behind is no longer true, and (c) inside one task, when it calls scripts which
change what the task is working on.

### 1.2 Components

`PROJECT.json` lists all of them with their files. The ones with logic of their
own:

| component (code) | state | operations | correct when |
|---|---|---|---|
| **Dispatcher** (`dispatcher.cpp`) | `taskList`, `m_threadState`, a lock and a condition variable | `addTask`, `dispatcherThread`, `flush`, `stop`, `shutdown` | a task has one owner and runs at most once; order is kept; the thread is never asleep with work to do; it ends when told to |
| **Scheduler** (`scheduler.cpp`) | heap of events, set of live ids, `lastEventId` | `addEvent`, `stopEvent`, `schedulerThread`, `stop`, `shutdown` | no event early, none forgotten, none after `stopEvent` returned true |
| **Lifecycle** (`otserv.cpp`, `game.cpp`) | `gameState`, the services' death timer | loader, signals, `setGameState`, `shutdown`, main's joins | quitting runs what was queued (saves, logouts) and ends every thread |
| **Connection**, **Protocol**, **OutputMessagePool** (`connection.cpp`, `protocol*.cpp`, `outputmessage.cpp`) | state, pending counters, error flags, timers, `m_refCount` on both objects, three lists of messages | accept, read, write, time out, close, release; allocate, buffer, send, free a message | nothing is deleted while something can find it; everything is deleted in the end; one write at a time; no message lost or freed twice |
| **Sessions** (`protocolgame.cpp`, `waitlist.cpp`, part of `player.cpp`) | who is client of which player, waiting list with time-outs | login, take over, wait, connect, logout, kick | one client per player; places are not lost |
| **Game state, global save** (`game.cpp`) | `gameState`, the chain of save events | `setGameState`, `prepareGlobalSave`, `globalSave` | nobody is in a closed world who may not be |
| **Trade** (`game.cpp`, `player.cpp`) | four trade states, partner and item of each player, `tradeItems` | request, counter offer, accept, refuse, close, the sale of a house; everything that moves an offered item | trades are between two; what was shown is what changes hands |
| **Decay and cleanup** (`game.cpp`, `item.cpp`) | 16 buckets, `toDecayItems`, `releaseThings`, duration and mark of each item, `refCount` | `startDecay`, `checkDecay`, `internalDecayItem`, `transformItem`, `cleanup` | items decay in time, none twice, none never; references balance |
| **Creature checks** (`game.cpp`, `creature.cpp`) | ten vectors, summons, references | add, remove, `checkCreatures`, convince, die | each creature is listed once while it is checked; none is deleted while listed, and each in the end |
| **Party** (`party.cpp`, `chat.cpp`) | leader, members, invitations on both sides, points, channels | invite, join, revoke, pass leadership, leave, disband | both sides agree |
| **Conditions** (`condition.cpp`) | list per creature | add, replace, tick, end | ends in time; end runs once. Section 12 |
| **Houses, beds**; **chat, guilds**; **raids, spawns** | owners, channels, timers | | section 12 |
| movement of things, combat, monsters, scripts, persistence, protocols' payload | the map, formulas, data | | section 12 |

The hazards in `PROJECT.json` name, line by line, where these go wrong; a hazard
without a property says why.

## 2. Plan

The order is by how much of the server stands on a part.

1. **Tasks** (`Dispatcher`, `Scheduler`, `TaskSystem`, `AlarmService`,
   `TaskSystemProofs`): done, checked, and every safety property proved.
2. **Connection** (`Connection`, `SharedObjects`, `ConnectionProofs`): done,
   checked, and every safety property proved, the refinement included.
3. **Decay** (`Decay`, `DecayProofs`): done, checked, and every safety property
   proved for any number of buckets.
4. **Party** (`Party`, `PartyProofs`): done, checked and proved; one finding.
5. **Trade** (`Trade`, `TradeProofs`): done, checked, and every safety property proved,
   for bags in bags to any depth.
6. **Creature checks** (`Creatures`, `CreaturesProofs`): done, checked and proved.
7. **Sessions** (`WaitingList`, `Sessions`, `SessionsProofs`): done, checked and proved,
   the waiting list included.

`Subsequences` says what a loop leaves of a list from which it erases entries
(`WaitingList::cleanup`, the walk of `checkCreatures`), and `SubsequenceProofs` what 6 and
7 need to know of it.

`Dispatcher` and `Scheduler` are composed by `TaskSystem`, which implements
`AlarmService`; `Connection` implements `SharedObjects`. The modules of the game
(3 to 7) stand on what `TaskSystem` shows: tasks run one at a time, and those
that are not events run in the order they were posted.

All modules are written to be proved about: parameters are constants with named
assumptions, invariants are conjunctions of named parts, and no operator is
RECURSIVE.

## 3. Tasks: `Dispatcher`, `Scheduler`, `TaskSystem`

`Dispatcher.tla` and `Scheduler.tla` follow `dispatcher.cpp` and `scheduler.cpp`
statement by statement where a lock is taken, released or waited on; between two
such places a thread takes one step. `TaskSystem.tla` composes them with main, the
signal handlers and the bodies of the tasks that stop the server.

| model | code |
|---|---|
| `taskList`, `dispatcherState`, `taskSignal` | `m_taskList`, `m_threadState`, a notification on `m_taskSignal` that has not been consumed |
| `dispatcherPc`: `check`, `lock`, `waiting`, `woken`, ... | `Dispatcher::dispatcherThread`, dispatcher.cpp:28-82; `waiting` is `wait(taskLockUnique)` with the lock released |
| `eventList`, `eventIds`, `lastEventId`, `cycle` | the heap, the set of live ids, the id counter (here modulo `EventIdMax`, 2^32 in the code) and the due time of an event |
| `schedulerPc`, `deadline`, `popped` | `Scheduler::schedulerThread`; the time `timed_wait` was given; the task between the heap and `addTask(task, true)` |
| `fate` | history: what has become of an event |
| `freed` | history: the tasks deleted without being run, and those that have run |
| `adding`, `"reading"` of `dispatcherPc` and `mainPc` | `addEvent`, called by a task or by the network thread (`ServicePort::onAccept`, `open`), reads `task->getEventId()` after it released the lock |
| `mainPc`, `quitting`, `servicesStopped` | main after the loader; `gameState` is SHUTDOWN; the timer that stops the `io_service` |
| `dispatcherPc = "kicking"` | the loop of `setGameState(SHUTDOWN)` that kicks the players, between the change of the state and the task of `Game::shutdown` |

Waits may wake spuriously. `stopEvent` may be called for any event at any time with
the id the caller was given. A task with an expiration may be dropped when it is taken.
While the players are kicked the game goes on calling `addTask`, `addEvent` and
`stopEvent`.

`addEvent` is two steps on both threads. On the dispatcher's, the task whose id it reads is
still there (`ReturnReadsLiveTask`, proved). On the network's it need not be: between
scheduler.cpp:99 and 105 `Scheduler::shutdown` may delete every task of the heap, or the
scheduler may hand over an event that is already due, and the dispatcher run it. The
model has these reads of a deleted task; the property says that there are no others.

**Runs.** `tasks_safety` has two events, a task that can expire, one signal and
two units of time: enough for an event to be pushed on top of one that is waited
for, for both to be due together, and for each of them to be in flight during each step of
the shutdown. There is an id for each event (`EventIdMax = 2`): that an id is used again
after 2^32 events is not reached, and would refute `StoppedNeverRuns` and `AlarmSpec`. It checks
single ownership (`TasksOwned`), timing, order (`TasksInTurn`), the absence of lost
wake-ups on the dispatcher's side, and that `TaskSystem` implements `AlarmService`, which is all the rest of
the server relies on: an event fires at most once, not before its time, not after
it was stopped, and is lost only once the scheduler no longer accepts events.
`tasks_liveness` has one event and two signals, so that SIGTERM can be followed
by SIGQUIT and the reverse, and checks that the dispatcher thread ends after a
quit, once the players are kicked, and that no event stays in the heap for ever. `tasks_timeout` shows a
disagreement of code and comment (section 11).

Deadlock is not checked in these runs: the program ends.

**Fairness.** Each thread is scheduled weakly fairly, and time passes. That a task
returns belongs to the fairness of the dispatcher thread; no task of the server
waits for another one. The exception is the loop that kicks the players before the
shutdown, which a logout script may keep going for ever (section 11): its end is not fair,
and `QuitStopsDispatcher` speaks of what comes after it. Nothing is assumed about calls,
signals or spurious wake-ups.

**What is not claimed.** That the *scheduler* thread ends: `shutdown` sets the state
before it takes `eventLock` and notifies without it, so a thread that read the old
state and has not begun to wait misses the notification, waits for ever, and
main's join with it; and `SIGTERM` then `SIGQUIT` lets `stop()` set the state back
from TERMINATED to CLOSING. Both are behaviours of the model; nothing in the
repository promises the contrary, so they are hazards, not findings.

## 4. Connection: `Connection`, `SharedObjects`

`Connection.tla` is the life of one accepted connection with the two objects around
it: the `Protocol` and the `OutputMessage`s that refer to both. The objects are
deleted by hand when their `m_refCount` is 0; tasks and handlers find them through
bare pointers, so deleting one a step too early is undefined behaviour and one
lost count keeps it for ever.

| model | code |
|---|---|
| `connectionState`, `pendingRead`, `pendingWrite`, `readError`, `writeError`, `receivedFirst` | the members of `Connection` |
| `socket`: `open`, `closed`, `deleted` | `m_socket`, `closeSocket`, `onStopOperation` |
| `release`, `managed` | how far `releaseConnection` has come; membership of `ConnectionManager::m_connections` |
| `kind` | whether the service sends first (`ProtocolGame`, whose protocol exists from `accept`) or the client (`makeProtocol` on the first packet) |
| `protocol`, `linked`, `client`, `connecting` | the `Protocol` object, its `m_connection`, a player whose `client` it is, `eventConnect` |
| `connRefs`, `protoRefs`, `torn` | the two `m_refCount`s; history: an update was lost in a race |
| `outputBuffer`, `autoSend`, `toAdd`, `writing`, messages in `tasks` | `m_outputBuffer`, `m_autoSendOutputMessages`, `m_toAddQueue`, the writes under way, messages on their way to `internalReleaseMessage` |
| `reading`, `readTimer`, `writeTimer`, `ready` | the outstanding read, the two timers, handlers that are queued |
| `ioPc`, `dispatcherPc` | where the network thread is inside `parsePacket`, and the dispatcher thread inside a task, at the places where the other thread can come between |
| `tasks` | the tasks for these objects in the dispatcher's list, in order (what `TaskSystem` shows of that list) |

A handler that holds `m_connectionLock` throughout is one step. Handlers and
timers are asio's: a timer that went off before it was cancelled still calls its
handler, `closeSocket` aborts the operations under way, whose handlers then come
with an error, and handlers run in the order they became ready, on one thread.
`HandlersFindSocket` depends on that order and on `main` being the only thread in
`io_service::run`.

What the game does with a player (which packets it answers, whom it kicks, whether
a login is refused or takes over a player a second later) is a choice, made by the
tasks in which the code makes it. Bytes, checksums and encryption are left out.

In two configurations the network thread itself writes to clients while it parses a packet
and holds `m_connectionLock`: to the player of the account manager (`sendCancelWalk`), and,
with `autoBanishUnknownBytes`, to whoever sends a byte that is no command
(protocolgame.cpp:1293-1321), who gets a text or, with everybody around him, a magic effect
(`NeighbourWrites` is the effect that somebody else's packet makes for this client). The
constants `AccountManager` and `BanUnknownBytes` say which are on; where `config.lua` is
silent the first is on and the second off (configmanager.cpp:153, 243). A third cause,
`onPerformAction`, is compiled only with `__DARGHOS_CUSTOM_SPELLS__`, which is not defined.

**Counters without a lock.** `getOutputMessage` increments the two counters on
whatever thread calls it, `internalReleaseMessage` decrements them on the
dispatcher thread, and no lock is common to both. The model lets either update be
lost when they overlap, and records it in `torn`; the properties about deleting say
what holds as long as that has not happened. That the race exists is a hazard in
the list, and the model shows how it is reached.

**Runs.** `connection_safety` has both kinds of service and two messages in use at
a time, with the account manager and `autoBanishUnknownBytes` enabled (then the network
thread writes to the buffer as well): one message can be in a write while the other is queued behind it,
buffered, being freed or lost. A third would only repeat these roles, as the lists are
moved one message at a time. It checks that each message has one place, that the
buffer is a queued message, the counters, what may be deleted when, that writes do
not overlap, that the manager's set keeps what `this` pointers need, and that the
module implements `SharedObjects`, the abstract statement of who outlives whom.
`connection_liveness` (one message, both options off) checks that a protocol whose
connection was asked to close is deleted, that a closed connection leaves the
manager, and that `sendAll` and `parsePacket` do not take the two locks crosswise.
With either option on they do (a hazard in the list): the threads may then wait for each
other for ever, and the liveness properties do not hold. These hold, like the
counters, only while no update is lost. `connection_closing` is a finding (section 11).

Deadlock is not checked: a connection that was released has nothing left to do.

**Fairness.** The client need not send or receive anything, so neither a successful
read nor a successful write is fair. What asio guarantees is: an operation ends when
its socket is closed, a timer that is set goes off, a handler that is ready runs. The
handlers that wait for a lock need strong fairness, because the dispatcher thread
takes and releases it again and again. On the dispatcher's side: it goes on with
what it has begun, takes its tasks in order, and other tasks of the game go on
coming (decay alone is one a second) with `sendAll` behind each, which is how a
message in the list gets old enough to be sent.

## 5. Decay: `Decay`

`checkDecay` runs once a second and walks one of 16 buckets. An item whose time is
not over stays in its bucket for another turn or goes to the one that comes round in
time; one whose time is over becomes another item or vanishes. `startDecay` puts an
item on a list which `cleanup()` later distributes to the buckets.

| model | code |
|---|---|
| `decayItems`, `toDecayItems`, `releaseThings` | the lists, as the number of times each item is in them (their order does not matter) |
| `lastBucket`, `left` | `lastBucket`; the entries of the bucket that the loop has still to visit |
| `place`, `id`, `duration`, `decaying` | where the item is, its type, `ATTR_DURATION`, `ATTR_DECAYING` |
| `refs` | `refCount` |
| `pc`, `restart` | inside `checkDecay`, at a place where scripts run; the result of `transformItem` for which `internalDecayItem` will call `startDecay` |
| `watched`, `due` | history: the items nobody interfered with since they were listed, and the calls of `checkDecay` they have left |

Time is counted in calls of `checkDecay` and durations in its interval. The data
pack gives all durations in whole seconds, so the rounding in `checkDecay` and
`cleanup`, which would matter otherwise, is exact; a hazard in the list says so.
Scripts, which `transformItem` and `internalRemoveItem` call while they work, may
create, list, transform and remove any item before the caller goes on; so may the
rest of the game between two calls. An item that is transformed in place while it is
listed is listed a second time, which is how it gets into two buckets.

`transformItem` and `internalRemoveItem` may refuse: a thing that is not in its
parent, a door (`canTransform`), a depot or a bed without a house (`canRemove`).
Nothing changes then, which is a stuttering step of `GameTransforms` and
`GameRemoves`. In `internalDecayItem`, where a refusal would leave a marked item in
no list (game.cpp:5051), it is not modelled, since what decays lies in its parent
and no type of `items.xml` with a `decayTo` or a `duration` is a door, a bed or a
depot. Two orders are abstracted: an item that is transformed in place calls scripts
before its id changes as well (game.cpp:2316), which the model has before or after
the whole step; and the scripts are taken to make nobody walk at once, so that no
`cleanup()` runs inside `checkDecay`.

`DecayAssumption` says of the types what the code relies on (`DecaysWell`): a type that
decays into another one does not stop the time, and the other one has a duration of its
own or does not decay. Of the 976 types that decay in `items.xml` two do not: 2057
decays into 2041, which stops the time, and 8273 into 8274, which has a `decayTo` but no
duration. Such an item keeps its mark in no list; the list of hazards has it.

**Runs.** `decay` has a ring of three buckets and types with durations below, at and
above one and two turns, in place and not, with `stopTime`, and with
`alwaysOnTop`, because each of these goes through different code. Two item objects
are enough: items meet only where one takes the place of another, in scripts, and in
`cleanup`; `Room` keeps a free object for each item in the world. An item is in the
lists at most twice through calls of the game (`MaxEntries`), which is one more than
the code expects.

**Fairness.** `Restart` and `CheckDecay`: the scheduler calls `checkDecay` again and
again (`TaskSystem` shows that it does not lose the event), and once begun it goes
on. Creating or transforming items is not fair. Deadlock is checked.

## 6. Parties: `Party`

Everything runs on the dispatcher thread, one command per action; what is hard is that
players, parties and channels refer to each other by bare pointers in both directions,
that a `Party` deletes itself, and that its place in the memory is used again.

| model | code |
|---|---|
| `online` | the players that are not removed; one that comes back is a new object at the same place |
| `group`: `party`, `invitations` of players; `leader`, `members`, `invited` of parties | `Player::party`, `invitePartyList`; `Party::leader`, `memberList`, `inviteList`. A party without a leader is no object |
| `sharing` | `sharedExpActive`, `sharedExpEnabled`, the keys of `pointMap` |
| `channel` | `Chat::m_partyChannels`, found by the address of the party, with the users of each |

The functions of `party.cpp` are operators on the value of `group`, in the order of its
statements (`Leave` hands over the lead, erases the member, and then disbands); an action
is a command of `game.cpp` with its guards. Levels, distances and times, which decide
whether experience may be shared, are a choice (`CanEnable`). Three constants say what
the outside does: whose `PARTY_LEAVE` script may refuse (`Refused`: players in a dungeon),
who of them may die there (`Killed`), and whose client asks to invite the player himself
(`SelfInviters`: `playerInviteToParty`, game.cpp:5332, does not compare the two). What a
deleted `Party` answers to a player who asks it is undefined; it is taken to answer no.

**Runs.** `party` has three players and two places for parties, which is as many as three
players can have: a leader with a member and a guest, two parties with invitations
across, each way for the last one to go, and a place used again while its old channel is
still there. It checks that the pointers agree in both directions and name only players
of the game (`PartiesAgree`), that no party is left with its leader alone (`NoneAlone`),
that whoever gets a share of the experience has points, whatever came between
(`SharersEarned`), and that no channel keeps a user who left the game
(`ChannelUsersLive`). One of the players may invite himself (`SelfInviters`), one may open the channel of
his party (`Talkers`; the channel treats all alike). `PartiesAgree` excepts what the first can do:
he is a guest of his own party, and when he leaves it his `invitePartyList` keeps
the party, which may be deleted (section 11); everything else holds for him, too. `Killed` is empty;
with it the pointers dangle, which is the finding of `party_dungeon`. Deadlock is
checked.

## 7. Trades: `Trade`

A trade is a state, a partner and an item in two `Player` objects and an entry in
`Game::tradeItems`. It stands for minutes while both go on walking and moving things, and
each way of moving, adding, removing or changing a thing has a callback of its own that
has to notice that it concerns an offer.

| model | code |
|---|---|
| `trade`: `state`, `partner`, `item` | `tradeState`, `tradePartner`, `tradeItem` of each player |
| `offered` | `Game::tradeItems`: who offers the item |
| `pos` | the tile of a player, in a row of tiles: 1 apart is next to each other, 2 is the distance at which an offer ends, 3 the one at which a trade does |
| `place`, `amount` | what an item lies in (a player's inventory, a bag, a tile), and the pieces of a stack |
| `parented` | whether a player's `transferContainer`, in which house deeds lie, has its owner as parent |

`playerRequestTrade`, `playerAcceptTrade`, `internalMoveItem` and the others are the
functions of `game.cpp` with the callbacks of `player.cpp`, `container.cpp` and
`tile.cpp` they lead to: `IsTold` says which players hear of a change of which container,
and `checkTradeState` what they do about it. The exchange is one action, with the partial
success of its two moves: weight and room are a choice, so either move may be refused, or
move a part of a stack. `houseSell` is the sale of a house (`talkaction.cpp`): a deed in
the `transferContainer`, offered without an `__addThing` that anybody hears of.

**Run.** `trade` has up to three players, two bags, a stack and a deed on four tiles,
which is just enough for two players to be too far apart for an offer, for a trade, and
for neither; players stand on three of the tiles, between which there is each distance.
`Few`, a constraint, keeps the combinations the module needs apart: two
players with three things, of which two may be bags in each other with something inside,
or with a bag, a stack and a deed; three players with two things, so that a third can
walk in with a counter offer, an item of somebody else, or take the partner. It checks
`TradesPaired`: the fields of the two players, their states and `tradeItems` agree, no
offer is inside another, and each is in reach of its owner; and `OffersUntouched`: while
an offer stands, nothing in it, around it or of it changes its place or its number of
pieces. There is one deed, so that a refused sale that takes an earlier deed out of its
`transferContainer` is left to the proof (`TradesAlwaysPaired`). Deadlock is checked.

## 8. Creatures: `Creatures`

`checkCreatures` runs twenty times a second and walks one of ten vectors, while thinking,
dying and the scripts behind them place, remove, hurt, summon and convince other
creatures, in the same vector too. `refCount` keeps the objects: one reference each for
`autoList`, the vector, the master, and whoever holds it otherwise; `releaseThings` gives
references up later.

| model | code |
|---|---|
| `life`, `healthy`, `master` | whether there is an object, in the game or removed; `getHealth() > 0`; `Creature::master` with the other end, `summons` |
| `refs`, `pending`, `held` | `refCount`; entries of `releaseThings`; references of target lists, spawns, clients |
| `checked`, `vector`, `toAdd`, `vectors` | `Creature::checked`, `checkVector`, the two kinds of lists |
| `index`, `at` | `checkCreatureLastIndex`; the iterator of the walk, 0 when there is none |

The walk takes one creature at a time and the other actions come between: more than the
code does in some places (a script that runs in `onThink` does not come back to the walk
before it is done, but it may do several of these things), and nothing it can do is left
out. `cleanup()` is among them: a creature that begins to walk while it thinks makes its first
step at once (`addEventWalk`, creature.cpp:341), and that ends with a cleanup. The damage that
`destroySummons` does wakes the summons up before it hurts them (`Monster::changeHealth`);
in the model that is `setIdle`, a step of its own. `Counts` is `unRef` with the destructor of `Creature`, which releases summons.

**Run.** `creatures` has two creatures, either of which may be the other's summon, and two
vectors, so that a creature may be in the vector that is walked, before or behind the
iterator, or in the other one, and may wait in `toAdd`. A reference from outside is held
at most once for each (`MaxHeld`). It checks that each creature is listed once or not at
all, as `checkVector` says, that the walk meets no deleted object and calls nobody who
left the game, and that `refCount` is the number of references (`EntriesCounted`); and
that whoever left the game is deleted in the end (`RemovedIsDeleted`). Deadlock is
checked.

**Fairness.** The scheduler calls `checkCreatures` every 50 ms and the walk ends,
since each of its steps goes on or shortens the vector; whoever holds a removed creature
lets it go (`onCreatureDisappear` takes it out of the target lists, the spawn gives it up
in its next round). Dying, thinking, placing and removing are not fair.

## 9. Sessions: `WaitingList`, `Sessions`

A client logs in to a character. If it is not in the game a new `Player` object is made,
unless the world is closed or full; if it is, the client takes the player over, at once
when it has no client, and else a second after the other client was disconnected. In
between the old `ProtocolGame` may be released or not, a third client may have come, the
player may have died or been kicked, or may be in the game again as another object.

| model | code |
|---|---|
| `online`, `client` | `Player::autoList`; `Player::client` of each of them |
| `stage`, `open`, `player`, `connecting` | of a `ProtocolGame`: where it is between its first packet and its deletion, whether its connection is open, its `player`, and the player of `eventConnect` (`Gone`: that object has left the game; ids are not used again) |
| `waitList` | `WaitingList::waitList`, each entry late or not |
| `gameState`, `saveStep` | `Game::gameState`; `globalSaveMessage`, with which `prepareGlobalSave` counts its calls |
| `tasks` | logins and changes of the state that wait in the dispatcher's queue, in order (what `TaskSystem` shows of it) |
| `pc` | `kicking`: in one of the loops of `setGameState`, between two rounds; `ended`: after `Game::shutdown` |

`login` is the whole task, with its refusals; bans, passwords, scripts, the room on
the map and `replaceKickOnLogin`, without which the second client is refused, are a choice. `PostState` is a talkaction, a script or a signal that posts a
`setGameState`; `signalHandler` is SIGUSR2, which calls it from wherever it interrupts.
`Kick` is one round of the loop; a round in which the logout scripts refuse leaves
everything as it is. SIGTERM, which stops the threads without kicking anybody, is in
`TaskSystem`. MAINTAIN is a state only inside `saveGameState`, unless a script sets it,
and INIT and STARTUP come before the first login.

**Run.** `sessions` has three characters, of whom one is premium and one may always log in,
two places in the world, and two clients at a time: one to play while the other replaces it; and
with protocols deleted and created again, any number one after another. A third client
comes in the place of the first as soon as that is deleted, which is before the second of
the replacement is over. Two places and three characters give a waiting list of two with
a place free for the first, for both or for none. Two tasks are queued at most
(`MaxTasks`), enough for a login before and behind a change of the state and for the two
tasks of the global save. It checks that a player obeys one client and none that is
deleted (`OneMaster`), that nobody is in the closed world who may not be
(`ClosedIsEmpty`), and that a place that is free for somebody in the list stays free
until he asks, his entry expires, or somebody overtakes him who may: who is privileged, a
premium player that takes a place in front of him, or, with `PREMIUM_SKIP_WAIT`, one that
need not wait at all (`PlacesKept`). Deadlock is not checked: the server ends.

No liveness is claimed here: that the kicking ends depends on the logout scripts, and one
of the data pack's refuses (section 11).

## 10. What is proved

`TaskSystemProofs.tla` proves about `TaskSystem`, for any sets of tasks and events,
any clock bound and any set of signals:

* `TypeCorrect`: types. `TypeOK` is not inductive: a thread that is about to use a
  local variable must find a task in it, which `PointersOK` adds.
* `NeverEarly` and `NeverOversleeps`: `NoEarlyFire` and `NoOversleep`. The inductive
  invariant `TimerInv` adds what makes the time-out branch right: at its deadline the
  thread will find an event that is due, or a heap that the shutdown has emptied
  (`DeadlineMet`); an event that is in the heap or on its way is never given a new
  time (`OldEvents`); and a scheduler whose heap is being emptied does not accept
  events again while the dispatcher thread is at it (`StoppedForGood`).
* `StoppedStaysStopped`: `StoppedNeverRuns`, and `KeepsItsPromise`: every step of
  `TaskSystem` is a step of `AlarmService` or leaves it alone. Both assume
  `IdsSuffice`, that there are as many ids as events: with fewer, an id is given out
  twice and `stopEvent` recalls the wrong event, which TLC finds at once. In the code
  this takes 2^32 events. The argument is that ids are given out in order (`IdInv`:
  `lastEventId` is the number of events that have one, and no two have the same), so
  that an id in `eventIds` stands for exactly one event.
* `NoneStranded`: `NoStrandedTask`. `addTask` notifies only when the list was empty, so
  the notification of the first task has to outlast every step of the other threads
  until the waiting thread takes it.
* `OwnedAndReadAlive`: `TasksOwned`, under `IdsSuffice`. The queues hand raw pointers on.
  `OwnInv` says that the five places a task can be in (the list, the heap, the two
  threads' local variables, and the deleted) have no task in common (`Apart`), that the
  list holds none twice (`Distinct`), and that a task is in one of them from the moment
  it was handed over (`Accounted`); `OneOwner` goes from there to the count that
  `SingleOwner` speaks of. `addEvent` reads the id of its task after it released the lock;
  `ReadingInv` says why the task is still there when a task of the game reads it: while the dispatcher thread reads, the
  scheduler accepts events, and the dispatcher has not been told to stop (`Ending`),
  because every path to that passes the stop of the scheduler first, which never
  restarts (`SchedulerNeverRestarts`, `StepEnding`). So the event is still armed or has
  fired, and a fired one is not refused. About the network thread, which may read a
  deleted task, `ServiceInv` says when: as long as the scheduler accepts events, what it
  has just added can only be deleted after it was due.
* `TakenInTurn`: `TasksInTurn`, both halves. The list is always some events, pushed in
  front, and then an end of the sequence in which tasks were accepted (`Ordered`). That
  SIGQUIT leaves no task behind takes a chain of facts about the shutdown: only the tasks
  for it run its steps (`InBody`), the game's shutdown runs when the dispatcher has been
  told to stop, or in the task that is about to tell it (`ClosedFirst`), and without a
  SIGTERM nothing that counts is queued behind the task that ends the thread
  (`LastIsFinal`).

These proofs use the constants' assumptions (`JobsAssumption`, `SchedulerAssumption`,
`SignalsAssumption`) and nothing else. `QuietStep` collects the actions that leave
heap and clock alone, so that each invariant has to be shown only for the others.

`ConnectionProofs.tla` proves about `Connection`, for any number of messages in use, with
and without the account manager and `autoBanishUnknownBytes`:

* `TypesCorrect` and `WritesOneAtATime` (`OneWrite`). `pendingWrite` is decremented by
  `onWriteOperation` and reset by `closeSocket`; it does not leave 0..1 because, as long
  as the connection can send at all, it says whether a write is under way (`WriteInv`).
* `MessagesHavePlaces` (`MessagesPlaced`). `QueueInv` says that a message in use is in
  exactly one of five places and that none of the lists holds one twice; it also says that
  no task is queued twice and that none which needs the protocol is queued behind the
  one that closes the connection (`GoodTasks`), which the later layers need.
* `CountersCount` (`Counted`), from the places (what is freed was allocated) and from the
  fact that no login is queued while `connect` is scheduled (`LoginInv`).
* `PointersStayLive` (`PointersLive`). `PhaseInv` relates the stages of closing: the
  protocol is given up, and the connection released, only by `closeConnectionTask` and
  what comes after it, when no task for the protocol is left. So when the counter is 0
  nothing refers to the protocol, and nothing comes back (`EndInv`).
* `HandlersFindTheSocket` (`HandlersFindSocket`). `ReadInv` and `WriteEndInv`: a closed
  socket has no read pending, the handler that deletes it is posted when no message is
  left, and no handler of the write timer becomes ready behind it.
* `LocksApart` (`LocksDoNotCross`, which speaks of both options off). `EarlyInv`: up to the
  answer to the first packet no player has the protocol as its client, so the list that
  `sendAll` walks is empty.
* `ConnectionShares` (`SharedSpec`): the refinement of `SharedObjects`, step by step.

All of them rest on one invariant, `Inv`, whose parts may use each other in the state
before a step. What is said about deleting holds until an update of a counter is lost
(`torn`), as in the runs. `ConnectionAssumption` is the only assumption.

`DecayProofs.tla` proves about `Decay`, for any items, any number of buckets and any
types that decay well:

* `TypeCorrect`: types. What makes `TypeOK` inductive is `WalkOK`: what the loop of
  `checkDecay` has still to visit is in its bucket, so no entry is taken out that is not
  there.
* `NothingForgotten`: `NoneForgotten`. It is inductive with the types: the mark is set
  together with an entry, and an entry is taken out only of an item that loses its mark,
  leaves the world or gets an entry elsewhere. This is where `DecaysWell` is needed.
* `EveryReferenceCounted`: `RefsCounted`. The entries of an item in all buckets are
  counted as a set of pairs (`Entries`), which a step changes by one element at most,
  or, in `cleanup`, by as many as `toDecayItems` held. `CountOK` adds that this set is
  finite and that a free object has no references.

* `DecaysInTime`: `InTime`, the one that depends on the arithmetic of the ring. The
  inductive invariant `OnSchedule` says where each watched item is: either on
  `toDecayItems`, once, with all of its calls left (one less if the current call had
  begun before), or in one bucket, once. Then the calls that are left (`EndsIn`) are
  those until the bucket is walked, by the way round the ring (`Distance`), plus what
  the duration exceeds a turn by; `due` is that number or one less. `Steps` and
  `NextBucket` are the facts about remainders that this needs; that a watched item is
  never deleted follows from `RefsCounted`.

`DecayAssumption` is the only assumption. `MaxEntries` and `Room`, which bound the
model, are not used: the theorems hold without these bounds.

`PartyProofs.tla` proves about `Party`, for any players and any number of parties:

* `TypeCorrect` and `UsersLive` (`ChannelUsersLive`), without further conditions.
* `PointersAgree` (`PartiesAgree`), `NoLeaderAlone` (`NoneAlone`) and `ShareIsEarned`
  (`SharersEarned`), if `Killed` is empty: with a killed player the finding of section 11
  is a counterexample. Any of the players may invite themselves, which `PartiesAgree`
  excepts where the code does not hold it. The invariant is their conjunction with one more part, `NoneShared`, that
  a place without a party has no shares, because the next party finds them there. The
  functions of `Party` work on the value of `group`; a lemma for each of them
  (`LeaveAgrees`, `HandOverAgrees`, ...) says that its result agrees again, so that the steps
  are short. Lists without repetitions that lose one element (`WithoutElements`) are
  where the library's facts about sequences come in.

`TradeProofs.tla` proves about `Trade`, for any players, items, bags and tiles:

* `TypeCorrect`, and the first half of `TradesPaired`: the inductive invariant `TradeInv` adds
  `DeedsKept`, that a deed lies with the player who offers it, as `internalCloseTrade`
  decides by that what becomes of it. The proof turns on one lemma: the set of players
  whose trades end (`Both`) is closed under partnership, whoever was told what, so that
  no partner is left behind.
* `TradesAlwaysPaired` (`TradesPaired`) and `OffersLeftAlone` (`OffersUntouched`), for bags in
  bags to any depth. `OfferInv` adds two facts about containers: of any containers one
  takes, one is in none of them (`NoCycle`), and what contains something is somewhere
  itself (`Rooted`). `NoCycle` stands for the induction that the prover lacks: it gives the
  outermost container of an item (`TopIsThere`), and `AboveWithin`, that the containers
  around an item are within every set that one does not leave upwards, gives everything
  else about them (`AboveUnfolds`, `OneInTheOther`, `SameAbove`, ...). Then `OwnerIsTold` is
  the heart of the matter: the item, what is in it and what it is in have one position,
  which is within reach of its owner, so that the owner hears of every change there
  (`MovesAreTold`, `PutsAreTold`, `ChangesAreTold`) and the offer ends. In the exchange the
  offers of *other* players count too, since it moves things into bags
  (`DestinationIsFree`). `StepKeeps` says what is the same in all actions.

`SubsequenceProofs.tla` proves about `Subsequences` and the library's operations on sequences
what the two modules below need, for lists of any length: what `Kept` keeps, and in which
order (`KeptProperties`), and how often an entry is in a list from which one was removed, to
which one was added, or of which some were kept (`RemoveAtOnce`, `AppendOnce`, `KeptOnce`,
`CountOnce`). The induction behind them is on sets of numbers (`LeastNumber`,
`SetInduction`), as the library's induction over a predicate is out of reach.

`CreaturesProofs.tla` proves about `Creatures`, for any creatures, any number of vectors and
vectors of any length:

* `TypesCorrect` (`TypeOK`) and `EntriesAreCounted` (`EntriesCounted`). The invariant says
  which references an object has (`References`), that there is an object exactly as long as
  it has one (`Alive`), that masters are objects and have no masters (`Masters`), so that
  the release of the summons in the destructor goes one level deep, and that a creature is
  in one list, once, if `checkVector` says so and in none otherwise (`ListsOK`), in the part
  of the vector that the walk has passed as well as in the rest.

`SessionsProofs.tla` proves about `Sessions`, for any characters and protocols, and a queue
and a waiting list of any length:

* `TypesCorrect` (`TypeOK`), `ObeysOneMaster` (`OneMaster`) and `ClosedStaysEmpty`
  (`ClosedIsEmpty`). The invariant adds that a protocol whose login has not run has no
  player (`Unserved`), that nobody has one player and waits for another (`TakesOne`), and
  that the login tasks in the queue belong to different protocols, which wait for them
  (`Queued`): otherwise a second login task would give a protocol a second player.
* `PlacesAreKept` (`PlacesKept`). `ListOK` says that
  premium players stand in front of the others. A cleanup only moves entries forward, a new
  entry comes in behind unless it is a premium player's, and who is let in from the list had a place
  himself: either he stood in front, and the list becomes one shorter as the world becomes
  one fuller, or behind, and then the place was his by the same count.

Only model-checked: the liveness properties (`QuitStopsDispatcher`, `EventsLeave`,
`ProtocolIsDeleted`, `ClosedIsReleased`, `DecayingEnds`, `RemovedIsDeleted`), since fairness
and ENABLED are out of the prover's reach, and the findings of section 11, which are
counterexamples.

## 11. Where the code disagrees with itself

* **A closing connection stays for ever** (`connection_closing`, `ClosingIsClosed`).
  `closeConnectionTask` leaves a connection with a write pending in
  `CONNECTION_STATE_CLOSING` and says that the handlers will close it
  (connection.cpp:111). They call `close()`, which returns at once in that state
  (connection.cpp:77). The connection is never released.
* **A timeout with no event** (`tasks_timeout`, `TimeoutFindsAnEvent`). After a
  timeout "there has to be an event we have to execute" (scheduler.cpp:46). Between
  the deadline and the thread's reacquiring `eventLock`, `Scheduler::shutdown` may
  have emptied the heap, and the thread takes the top of an empty one.
* **Left behind in a party** (`party_dungeon`, `NoneLeftBehind`). The dungeon scripts do
  not let a player leave his party (dungeons.lua:644) and rely on "You must leave from the
  Dungeon to log out" (logout.lua:4). Who *dies* there is not asked:
  `Player::onCreatureDisappear` ignores what `leave()` returns, the object is deleted, and
  the party keeps a pointer to it.

Noted in reading, not the subject of a run:

* `cleanup()` says that its caller holds `decayMutex` (game.cpp:6676); of its four callers
  one does. All of them run on the dispatcher thread, so it is the comment that is wrong.
* `2025-11-28-DECAY-INVESTIGATION.md` says that decay runs on the scheduler thread. It does
  not: the scheduler only hands events over.
* A player whose logout script refuses even a forced logout (logout.lua, in a dungeon) is
  kicked again and again by `setGameState` (game.cpp:254, 275): closing the world or
  shutting it down does not end.
* A login that was queued before the shutdown is run after the kicks: `login` refuses only
  in CLOSING and CLOSED (protocolgame.cpp:189). The player enters and is not saved.
* `Scheduler::addEvent` returns `task->getEventId()` after it has unlocked (scheduler.cpp:105).
  On the network thread the task may be deleted by then, at the latest when
  `Scheduler::shutdown` comes in between (section 3).
* `playerInviteToParty` lets a player invite himself (game.cpp:5332). When he leaves his party
  the invitation is erased on the party's side only (party.cpp:111); the party is deleted, his
  `invitePartyList` keeps it, and `clearPartyInvitations` (player.cpp:5703) uses it. Without the
  exception in `PartiesAgree` TLC shows this after an invitation and a leave.
* `isConnecting` stays TRUE when `connect` fails because the old client has not been
  released yet; the player, who has no client then, is never logged out for his silence
  (player.cpp:1973).
* `Game::start` returns when the hours or the minutes until the global save are 0
  (game.cpp:203): a server that is started less than an hour but more than five minutes
  before it, or whole hours before it, never schedules it.

## 12. What is not modelled

About three quarters of the code is not a matter of states and steps that a model could
say more about than the code: the Lua bindings (12 000 lines, one function per call of a
script), the parsing and formatting of packets, loaders of file formats and XML, SQL
statements, formulas of combat, spells and weapons, and a vendored XML parser. Nor are
these modelled:

* the movement of things and creatures (`queryAdd`, stack positions, the map's sectors):
  sequential code over the whole map, whose state cannot be enumerated without
  abstracting from what is hard in it; `Trade` has what it does to trades;
* conditions: a list for each creature, whose entries act on it and end by themselves;
  what they do is formulas;
* the choice of targets and paths by monsters and NPCs; `Creatures` has the references that
  their lists hold, and `held` stands for all of them;
* raids, spawns and global events: each is one event that posts the next, which
  `TaskSystem` covers;
* owners, rents and access lists of houses, beds, guilds, channels other than those of
  parties: records that one command changes;
* opening and reopening of the service ports; limits per address;
* the Battleground, which is not compiled; admin and HTTP protocols, which are not
  registered; what the data pack's scripts do, unless a property depends on it.
