---------------------------- MODULE ConnectionProofs ----------------------------
(***************************************************************************)
(* What Connection guarantees for every number of messages.  The           *)
(* invariant is built in layers, each of which may rest on all of them in  *)
(* the state before a step: types and writes, the places of the messages,  *)
(* the tasks and the stages of closing, the counters, the end of the       *)
(* protocol, the end of the socket, and what holds before the first        *)
(* packet.                                                                 *)
(***************************************************************************)
EXTENDS Connection, SequenceTheorems, FiniteSetTheorems, TLAPS

-----------------------------------------------------------------------------
(* Sequences: their elements, that none is there twice, and that nothing of B comes
   after a. *)

Once(s) == \A i, j \in DOMAIN s : s[i] = s[j] => i = j

Closes(s, a, B) == \A i, j \in DOMAIN s : i < j /\ s[i] = a => s[j] \notin B

LEMMA Appended ==
  ASSUME NEW S, NEW s \in Seq(S), NEW x \in S
  PROVE  /\ Append(s, x) \in Seq(S)
         /\ Append(s, x) # <<>>
         /\ Elements(Append(s, x)) = Elements(s) \cup {x}
         /\ Once(s) /\ x \notin Elements(s) => Once(Append(s, x))
<1>. DEFINE r == Append(s, x)
            n == Len(s)
<1>1. DOMAIN s = 1..n /\ n \in Nat
  BY LenProperties
<1>2. /\ r \in Seq(S) /\ r # <<>> /\ Len(r) = n + 1 /\ r[n + 1] = x
      /\ \A i \in 1..n : r[i] = s[i]
  BY <1>1, AppendProperties
<1>3. DOMAIN r = 1..n + 1
  BY <1>2, LenProperties
<1>. HIDE DEF r, n
<1>4. \A i \in 1..n + 1 : i = n + 1 \/ i \in 1..n
  BY <1>1
<1>5. Elements(r) = Elements(s) \cup {x}
  <2>1. n + 1 \in 1..n + 1 /\ 1..n \subseteq 1..n + 1
    BY <1>1
  <2>. QED BY <2>1, <1>1, <1>2, <1>3, <1>4 DEF Elements
<1>6. ASSUME Once(s), x \notin Elements(s) PROVE Once(r)
  <2>1. SUFFICES ASSUME NEW i \in 1..n + 1, NEW j \in 1..n + 1, r[i] = r[j] PROVE i = j
    BY <1>3 DEF Once
  <2>2. \A y, z \in 1..n : s[y] = s[z] => y = z
    BY <1>6, <1>1 DEF Once
  <2>3. \A y \in 1..n : s[y] # x
    BY <1>6, <1>1 DEF Elements
  <2>. QED BY <2>1, <2>2, <2>3, <1>2, <1>4
<1>. QED BY <1>2, <1>5, <1>6 DEF r

LEMMA AppendedCloses ==
  ASSUME NEW S, NEW s \in Seq(S), NEW x \in S, NEW a, NEW B, Closes(s, a, B),
         a \in Elements(s) => x \notin B
  PROVE  Closes(Append(s, x), a, B)
<1>. DEFINE r == Append(s, x)
            n == Len(s)
<1>1. DOMAIN s = 1..n /\ n \in Nat
  BY LenProperties
<1>2. /\ r \in Seq(S) /\ Len(r) = n + 1 /\ r[n + 1] = x
      /\ \A i \in 1..n : r[i] = s[i]
  BY <1>1, AppendProperties
<1>3. DOMAIN r = 1..n + 1
  BY <1>2, LenProperties
<1>. HIDE DEF r, n
<1>4. SUFFICES ASSUME NEW i \in 1..n + 1, NEW j \in 1..n + 1, i < j, r[i] = a
               PROVE  r[j] \notin B
  BY <1>3 DEF Closes, r
<1>5. i \in 1..n /\ s[i] = a
  BY <1>1, <1>2, <1>4
<1>6. CASE j = n + 1
  BY <1>1, <1>2, <1>5, <1>6 DEF Elements
<1>7. CASE j # n + 1
  <2>1. j \in 1..n
    BY <1>1, <1>7
  <2>. QED BY <2>1, <1>1, <1>2, <1>4, <1>5 DEF Closes
<1>. QED BY <1>6, <1>7

LEMMA Prepended ==
  ASSUME NEW S, NEW s \in Seq(S), NEW x \in S, Once(s), x \notin Elements(s)
  PROVE  /\ <<x>> \o s \in Seq(S)
         /\ Elements(<<x>> \o s) = Elements(s) \cup {x}
         /\ Once(<<x>> \o s)
<1>. DEFINE r == <<x>> \o s
            n == Len(s)
<1>1. DOMAIN s = 1..n /\ n \in Nat
  BY LenProperties
<1>2. <<x>> \in Seq(S) /\ Len(<<x>>) = 1 /\ <<x>>[1] = x
  OBVIOUS
<1>3. r \in Seq(S) /\ Len(r) = n + 1 /\ r[1] = x
  BY <1>2, <1>1, ConcatProperties
<1>4. DOMAIN r = 1..n + 1
  BY <1>3, LenProperties
<1>5. ASSUME NEW i \in 1..n + 1, i # 1 PROVE i - 1 \in 1..n /\ r[i] = s[i - 1]
  BY <1>1, <1>2, <1>5, ConcatProperties
<1>. HIDE DEF r, n
<1>6. Elements(r) \subseteq Elements(s) \cup {x}
  <2>1. ASSUME NEW i \in 1..n + 1 PROVE r[i] \in Elements(s) \cup {x}
    BY <1>1, <1>3, <1>5 DEF Elements
  <2>. QED BY <2>1, <1>4 DEF Elements
<1>7. Elements(s) \cup {x} \subseteq Elements(r)
  <2>1. x \in Elements(r)
    <3>1. 1 \in 1..n + 1
      BY <1>1
    <3>. QED BY <3>1, <1>3, <1>4 DEF Elements
  <2>2. ASSUME NEW i \in 1..n PROVE s[i] \in Elements(r)
    <3>1. i + 1 \in 1..n + 1 /\ i + 1 # 1 /\ (i + 1) - 1 = i
      BY <1>1
    <3>. QED BY <3>1, <1>4, <1>5 DEF Elements
  <2>. QED BY <2>1, <2>2, <1>1 DEF Elements
<1>8. Once(r)
  <2>1. SUFFICES ASSUME NEW i \in 1..n + 1, NEW j \in 1..n + 1, r[i] = r[j] PROVE i = j
    BY <1>4 DEF Once
  <2>2. \A y, z \in 1..n : s[y] = s[z] => y = z
    BY <1>1 DEF Once
  <2>3. \A y \in 1..n : s[y] # x
    BY <1>1 DEF Elements
  <2>4. CASE i = 1 \/ j = 1
    BY <2>1, <2>3, <2>4, <1>3, <1>5
  <2>5. CASE i # 1 /\ j # 1
    <3>1. i - 1 = j - 1
      BY <2>1, <2>2, <2>5, <1>5
    <3>. QED BY <3>1
  <2>. QED BY <2>4, <2>5
<1>. QED BY <1>3, <1>6, <1>7, <1>8 DEF r

LEMMA Taken ==
  ASSUME NEW S, NEW s \in Seq(S), s # <<>>
  PROVE  /\ Head(s) \in S /\ Tail(s) \in Seq(S)
         /\ Elements(s) = Elements(Tail(s)) \cup {Head(s)}
         /\ Once(s) => Once(Tail(s)) /\ Head(s) \notin Elements(Tail(s))
<1>. DEFINE r == Tail(s)
            n == Len(s)
<1>1. DOMAIN s = 1..n /\ n \in Nat /\ n # 0
  BY LenProperties, EmptySeq
<1>2. /\ Head(s) \in S /\ Head(s) = s[1]
      /\ r \in Seq(S) /\ Len(r) = n - 1 /\ \A i \in 1..n - 1 : r[i] = s[i + 1]
  BY <1>1, HeadTailProperties
<1>3. DOMAIN r = 1..n - 1
  BY <1>2, LenProperties
<1>. HIDE DEF r, n
<1>4. /\ 1 \in 1..n
      /\ \A i \in 1..n - 1 : i + 1 \in 1..n /\ i + 1 # 1
      /\ \A i \in 1..n : i # 1 => i - 1 \in 1..n - 1 /\ (i - 1) + 1 = i
  BY <1>1
<1>5. Elements(r) \cup {Head(s)} \subseteq Elements(s)
  BY <1>1, <1>2, <1>3, <1>4 DEF Elements
<1>6. Elements(s) \subseteq Elements(r) \cup {Head(s)}
  <2>1. ASSUME NEW i \in 1..n PROVE s[i] \in Elements(r) \cup {Head(s)}
    <3>1. CASE i = 1
      BY <3>1, <1>2
    <3>2. CASE i # 1
      <4>1. i - 1 \in 1..n - 1 /\ r[i - 1] = s[i]
        BY <3>2, <1>2, <1>4
      <4>. QED BY <4>1, <1>3 DEF Elements
    <3>. QED BY <3>1, <3>2
  <2>. QED BY <2>1, <1>1 DEF Elements
<1>7. ASSUME Once(s) PROVE Once(r) /\ Head(s) \notin Elements(r)
  <2>1. \A i, j \in 1..n : s[i] = s[j] => i = j
    BY <1>7, <1>1 DEF Once
  <2>2. ASSUME NEW i \in 1..n - 1, NEW j \in 1..n - 1, r[i] = r[j] PROVE i = j
    <3>1. i + 1 = j + 1
      BY <2>1, <2>2, <1>2, <1>4
    <3>. QED BY <3>1
  <2>3. \A i \in 1..n - 1 : r[i] # Head(s)
    BY <2>1, <1>2, <1>4
  <2>. QED BY <2>2, <2>3, <1>3 DEF Once, Elements
<1>. QED BY <1>2, <1>5, <1>6, <1>7 DEF r

LEMMA TakenCloses ==
  ASSUME NEW S, NEW s \in Seq(S), s # <<>>, NEW a, NEW B, Closes(s, a, B)
  PROVE  /\ Closes(Tail(s), a, B)
         /\ Head(s) = a => Elements(Tail(s)) \cap B = {}
<1>. DEFINE r == Tail(s)
            n == Len(s)
<1>1. DOMAIN s = 1..n /\ n \in Nat /\ n # 0
  BY LenProperties, EmptySeq
<1>2. /\ Head(s) = s[1]
      /\ r \in Seq(S) /\ Len(r) = n - 1 /\ \A i \in 1..n - 1 : r[i] = s[i + 1]
  BY <1>1, HeadTailProperties
<1>3. DOMAIN r = 1..n - 1
  BY <1>2, LenProperties
<1>. HIDE DEF r, n
<1>4. 1 \in 1..n /\ \A i \in 1..n - 1 : i + 1 \in 1..n /\ 1 < i + 1
  BY <1>1
<1>5. \A i, j \in 1..n : i < j /\ s[i] = a => s[j] \notin B
  BY <1>1 DEF Closes
<1>6. ASSUME NEW i \in 1..n - 1, NEW j \in 1..n - 1, i < j, r[i] = a PROVE r[j] \notin B
  <2>1. i + 1 < j + 1
    BY <1>6
  <2>. QED BY <2>1, <1>2, <1>4, <1>5, <1>6
<1>7. ASSUME Head(s) = a, NEW i \in 1..n - 1 PROVE r[i] \notin B
  BY <1>2, <1>4, <1>5, <1>7
<1>. QED BY <1>3, <1>6, <1>7 DEF Closes, Elements, r

LEMMA EmptyElements == Elements(<<>>) = {} /\ Once(<<>>)
  BY DEF Elements, Once

-----------------------------------------------------------------------------
(* Types and writes.  pendingWrite does not leave 0..1 only because it says whether a
   write is under way as long as the connection can send at all. *)

TaskNames == Msgs \cup {"onConnect", "login", "logout", "close"}

WriteInv ==
  /\ \A m, n \in writing : m = n
  /\ CanSend => (pendingWrite = 1 <=> writing # {})

FreeInv == dispatcherPc = "unref" <=> freeing # Nobody

TypeInv == TypeOK /\ WriteInv /\ FreeInv

(* The conjuncts of TypeOK, by the variables that most steps leave alone together. *)
StateTypes ==
  /\ connectionState \in ConnectionState
  /\ pendingRead \in {0, 1} /\ pendingWrite \in {0, 1}
  /\ readError \in BOOLEAN /\ writeError \in BOOLEAN /\ receivedFirst \in BOOLEAN
  /\ socket \in {"open", "closed", "deleted"}

LifeTypes ==
  /\ release \in {"no", "event", "posted", "done"}
  /\ managed \in BOOLEAN
  /\ kind \in {"game", "other"}
  /\ protocol \in {"none", "live", "releasing", "deleted"}
  /\ linked \in BOOLEAN /\ client \in BOOLEAN /\ connecting \in BOOLEAN

RefTypes ==
  /\ connRefs \in Int /\ protoRefs \in Int /\ torn \in BOOLEAN
  /\ allocated \subseteq Msgs

PoolTypes ==
  /\ outputBuffer \in Msgs \cup {Nobody}
  /\ autoSend \in Seq(Msgs) /\ toAdd \in Seq(Msgs)

Handlers == {"readTimeout", "writeTimeout", "stop"}

WriteTypes == writing \subseteq Msgs /\ writeTimer \in BOOLEAN

ReadTypes == reading \in {"header", "body", Nobody} /\ readTimer \in BOOLEAN

ReadyType == ready \in Seq(Handlers)

IoType == ioPc \in {"idle", "reply", "write", "close", "rest"}

TaskTypes == tasks \in Seq(TaskNames)

DispatcherTypes ==
  /\ dispatcherPc \in {"idle", "unref", "refuse", "disconnect", "addQueued", "sendAll"}
  /\ freeing \in Msgs \cup {Nobody}

LEMMA TypeParts ==
  /\ TypeOK <=>
       /\ StateTypes /\ LifeTypes /\ RefTypes /\ PoolTypes /\ WriteTypes /\ ReadTypes
       /\ ReadyType /\ IoType /\ TaskTypes /\ DispatcherTypes
  /\ TypeOK' <=>
       /\ StateTypes' /\ LifeTypes' /\ RefTypes' /\ PoolTypes' /\ WriteTypes' /\ ReadTypes'
       /\ ReadyType' /\ IoType' /\ TaskTypes' /\ DispatcherTypes'
<1>1. TypeOK <=>
        /\ StateTypes /\ LifeTypes /\ RefTypes /\ PoolTypes /\ WriteTypes /\ ReadTypes
        /\ ReadyType /\ IoType /\ TaskTypes /\ DispatcherTypes
  BY Zenon
  DEF TypeOK, StateTypes, LifeTypes, RefTypes, PoolTypes, WriteTypes, ReadTypes, ReadyType,
      IoType, TaskTypes, DispatcherTypes, Handlers, TaskNames
<1>2. TypeOK' <=>
        /\ StateTypes' /\ LifeTypes' /\ RefTypes' /\ PoolTypes' /\ WriteTypes' /\ ReadTypes'
        /\ ReadyType' /\ IoType' /\ TaskTypes' /\ DispatcherTypes'
  BY Zenon
  DEF TypeOK, StateTypes, LifeTypes, RefTypes, PoolTypes, WriteTypes, ReadTypes, ReadyType,
      IoType, TaskTypes, DispatcherTypes, Handlers, TaskNames
<1>. QED BY <1>1, <1>2, Zenon

LEMMA Unchanged ==
  ASSUME TypeInv
  PROVE  /\ UNCHANGED stateVars => StateTypes'
         /\ UNCHANGED lifeVars => LifeTypes'
         /\ UNCHANGED refVars => RefTypes'
         /\ UNCHANGED poolVars => PoolTypes'
         /\ UNCHANGED writeVars => WriteTypes'
         /\ UNCHANGED readVars => ReadTypes'
         /\ UNCHANGED ready => ReadyType'
         /\ UNCHANGED ioPc => IoType'
         /\ UNCHANGED tasks => TaskTypes'
         /\ UNCHANGED dispatcherVars => DispatcherTypes' /\ FreeInv'
         /\ UNCHANGED <<connectionState, writeError, pendingWrite, writing>> => WriteInv'
         /\ UNCHANGED stateVars /\ UNCHANGED writeVars => WriteInv'
         /\ StateTypes /\ LifeTypes /\ RefTypes /\ PoolTypes /\ WriteTypes /\ ReadTypes
         /\ ReadyType /\ IoType /\ TaskTypes /\ DispatcherTypes /\ WriteInv /\ FreeInv
<1>1. /\ StateTypes /\ LifeTypes /\ RefTypes /\ PoolTypes /\ WriteTypes /\ ReadTypes
      /\ ReadyType /\ IoType /\ TaskTypes /\ DispatcherTypes /\ WriteInv /\ FreeInv
  BY TypeParts, Zenon DEF TypeInv
<1>2. UNCHANGED stateVars => StateTypes'
  BY <1>1 DEF StateTypes, stateVars
<1>3. UNCHANGED lifeVars => LifeTypes'
  BY <1>1 DEF LifeTypes, lifeVars
<1>4. UNCHANGED refVars => RefTypes'
  BY <1>1 DEF RefTypes, refVars
<1>5. UNCHANGED poolVars => PoolTypes'
  BY <1>1 DEF PoolTypes, poolVars
<1>6. UNCHANGED writeVars => WriteTypes'
  BY <1>1 DEF WriteTypes, writeVars
<1>7. UNCHANGED readVars => ReadTypes'
  BY <1>1 DEF ReadTypes, readVars
<1>8. UNCHANGED ready => ReadyType'
  BY <1>1 DEF ReadyType
<1>9. UNCHANGED ioPc => IoType'
  BY <1>1 DEF IoType
<1>10. UNCHANGED tasks => TaskTypes'
  BY <1>1 DEF TaskTypes
<1>11. UNCHANGED dispatcherVars => DispatcherTypes' /\ FreeInv'
  BY <1>1 DEF DispatcherTypes, FreeInv, dispatcherVars
<1>12. UNCHANGED <<connectionState, writeError, pendingWrite, writing>> => WriteInv'
  BY <1>1 DEF WriteInv, CanSend
<1>13. UNCHANGED stateVars /\ UNCHANGED writeVars => WriteInv'
  BY <1>1 DEF WriteInv, CanSend, stateVars, writeVars
<1>. QED
  BY <1>1, <1>2, <1>3, <1>4, <1>5, <1>6, <1>7, <1>8, <1>9, <1>10, <1>11, <1>12, <1>13, Zenon

LEMMA CloseEffect ==
  ASSUME TypeOK, NEW posted \in Seq(TaskNames), Close(posted)
  PROVE  /\ tasks' \in Seq(TaskNames)
         /\ connectionState' \in ConnectionState \ {"OPEN"}
         /\ connectionState = "OPEN" =>
              /\ tasks' = Append(posted, "close")
              /\ connectionState' = "REQUEST_CLOSE"
         /\ connectionState # "OPEN" =>
              tasks' = posted /\ connectionState' = connectionState
<1>1. /\ posted \o <<"close">> = Append(posted, "close")
      /\ Append(posted, "close") \in Seq(TaskNames)
  <2>1. "close" \in TaskNames
    BY DEF TaskNames
  <2>2. <<"close">> \in Seq(TaskNames) /\ Len(<<"close">>) = 1 /\ <<"close">>[1] = "close"
    BY <2>1
  <2>3. /\ posted \o <<"close">> \in Seq(TaskNames)
        /\ Append(posted, "close") \in Seq(TaskNames)
        /\ Len(posted \o <<"close">>) = Len(posted) + 1
        /\ Len(Append(posted, "close")) = Len(posted) + 1
    BY <2>1, <2>2, ConcatProperties, AppendProperties
  <2>4. \A i \in 1..Len(posted) + 1 : (posted \o <<"close">>)[i] = Append(posted, "close")[i]
    BY <2>1, <2>2, ConcatProperties, AppendProperties, LenProperties
  <2>. QED BY <2>3, <2>4, SeqEqual
<1>. QED BY <1>1 DEF Close, TypeOK, ConnectionState

LEMMA CloseThenReleaseEffect ==
  ASSUME TypeInv, NEW m \in Msgs, CloseThenRelease(m)
  PROVE  /\ tasks' \in Seq(TaskNames)
         /\ connectionState' \in ConnectionState \ {"OPEN"}
         /\ connectionState = "OPEN" =>
              /\ tasks' = Append(Append(tasks, "close"), m)
              /\ connectionState' = "REQUEST_CLOSE"
         /\ connectionState # "OPEN" =>
              tasks' = Append(tasks, m) /\ connectionState' = connectionState
<1>1. /\ tasks \in Seq(TaskNames) /\ "close" \in TaskNames /\ m \in TaskNames
      /\ connectionState \in ConnectionState
  BY Unchanged DEF TaskTypes, TaskNames, StateTypes
<1>2. tasks \o <<"close">> = Append(tasks, "close")
  BY <1>1
<1>3. Append(tasks, "close") \in Seq(TaskNames)
  BY <1>1, Appended
<1>4. Append(tasks, m) \in Seq(TaskNames) /\ Append(Append(tasks, "close"), m) \in Seq(TaskNames)
  BY <1>1, <1>3, Appended
<1>. QED BY <1>1, <1>2, <1>4 DEF CloseThenRelease, ConnectionState

LEMMA CloseSocketTypes ==
  ASSUME TypeOK, CloseSocket
  PROVE  /\ socket' \in {"open", "closed", "deleted"}
         /\ pendingRead' \in {0, 1} /\ pendingWrite' \in {0, 1}
  BY DEF TypeOK, CloseSocket

LEMMA SendTypes ==
  ASSUME TypeOK, WriteInv, NEW m \in Msgs, NEW posted \in Seq(TaskNames), Send(m, posted),
         UNCHANGED <<connectionState, writeError>>
  PROVE  /\ outputBuffer' \in Msgs \cup {Nobody} /\ toAdd' \in Seq(Msgs)
         /\ tasks' \in Seq(TaskNames)
         /\ writing' \subseteq Msgs /\ writeTimer' \in BOOLEAN
         /\ pendingWrite' \in {0, 1}
         /\ WriteInv'
<1>. USE DEF TypeOK, WriteInv, CanSend, NotBuffered
<1>0. m \in TaskNames /\ Append(posted, m) \in Seq(TaskNames) /\ Append(toAdd, m) \in Seq(Msgs)
  BY AppendProperties DEF TaskNames
<1>1. CASE CanSend /\ pendingWrite = 0
  <2>1. writing = {} /\ writing' = {m} /\ pendingWrite' = 1
    BY <1>1 DEF Send
  <2>. QED BY <2>1, <1>1 DEF Send
<1>2. CASE CanSend /\ pendingWrite # 0
  BY <1>0, <1>2 DEF Send
<1>3. CASE ~CanSend
  BY <1>0, <1>3 DEF Send
<1>. QED BY <1>1, <1>2, <1>3

LEMMA CountTypes ==
  ASSUME TypeOK, NEW racing, Count(racing)
  PROVE  connRefs' \in Int /\ protoRefs' \in Int /\ torn' \in BOOLEAN
<1>1. PICK p, c \in IF racing /\ ~torn THEN 0..2 ELSE {1} :
        /\ protoRefs' = protoRefs + p
        /\ connRefs' = connRefs + c
        /\ torn' = (torn \/ p # 1 \/ c # 1)
  BY DEF Count
<1>2. p \in Int /\ c \in Int
  BY <1>1
<1>3. torn' \in BOOLEAN
  BY <1>1, Zenon
<1>. QED BY <1>1, <1>2, <1>3 DEF TypeOK

LEMMA BufferTypes ==
  ASSUME TypeOK, NEW racing, Buffer(racing)
  PROVE  /\ connRefs' \in Int /\ protoRefs' \in Int /\ torn' \in BOOLEAN
         /\ allocated' \subseteq Msgs
         /\ outputBuffer' \in Msgs \cup {Nobody}
         /\ autoSend' \in Seq(Msgs) /\ toAdd' \in Seq(Msgs)
<1>1. CASE UNCHANGED <<refVars, poolVars>>
  BY <1>1 DEF TypeOK, refVars, poolVars
<1>2. ASSUME NEW m \in Msgs, Allocate(m, racing), outputBuffer' = m,
             autoSend' = Append(autoSend, m), toAdd' = toAdd
      PROVE  /\ connRefs' \in Int /\ protoRefs' \in Int /\ torn' \in BOOLEAN
             /\ allocated' \subseteq Msgs
             /\ outputBuffer' \in Msgs \cup {Nobody}
             /\ autoSend' \in Seq(Msgs) /\ toAdd' \in Seq(Msgs)
  <2>1. connRefs' \in Int /\ protoRefs' \in Int /\ torn' \in BOOLEAN
    BY <1>2, CountTypes DEF Allocate
  <2>. QED BY <1>2, <2>1, AppendProperties DEF TypeOK, Allocate
<1>. QED BY <1>1, <1>2 DEF Buffer

LEMMA SendNewTypes ==
  ASSUME TypeInv, NEW racing, NEW posted \in Seq(TaskNames), SendNew(racing, posted)
  PROVE  /\ connRefs' \in Int /\ protoRefs' \in Int /\ torn' \in BOOLEAN
         /\ allocated' \subseteq Msgs
         /\ outputBuffer' \in Msgs \cup {Nobody} /\ toAdd' \in Seq(Msgs)
         /\ tasks' \in Seq(TaskNames)
         /\ writing' \subseteq Msgs /\ writeTimer' \in BOOLEAN
         /\ pendingWrite' \in {0, 1}
         /\ WriteInv'
<1>. USE DEF TypeInv
<1>1. UNCHANGED <<connectionState, writeError>>
  BY DEF SendNew
<1>2. ASSUME NEW m \in Msgs, Allocate(m, racing), Send(m, posted)
      PROVE  /\ connRefs' \in Int /\ protoRefs' \in Int /\ torn' \in BOOLEAN
             /\ allocated' \subseteq Msgs
  <2>1. connRefs' \in Int /\ protoRefs' \in Int /\ torn' \in BOOLEAN
    BY <1>2, CountTypes DEF Allocate
  <2>. QED BY <1>2, <2>1 DEF TypeOK, Allocate
<1>3. CASE \E m \in Msgs : Allocate(m, racing) /\ Send(m, posted)
  BY <1>1, <1>2, <1>3, SendTypes
<1>4. CASE /\ tasks' = posted
           /\ UNCHANGED <<refVars, pendingWrite, writing, writeTimer, toAdd, outputBuffer>>
  BY <1>1, <1>4 DEF TypeOK, WriteInv, CanSend, refVars
<1>. QED BY <1>3, <1>4 DEF SendNew

LEMMA SocketTypes ==
  ASSUME TypeInv,
         \/ ReadFails
         \/ \E tooMany \in BOOLEAN : ParseHeader(tooMany)
         \/ ParsePacketCloses \/ PacketCloses \/ PacketEnds
  PROVE  TypeInv'
<1>1. SUFFICES
        /\ StateTypes' /\ LifeTypes' /\ RefTypes' /\ PoolTypes' /\ WriteTypes' /\ ReadTypes'
        /\ ReadyType' /\ IoType' /\ TaskTypes' /\ DispatcherTypes' /\ WriteInv' /\ FreeInv'
  BY TypeParts, Zenon DEF TypeInv
<1>2. ASSUME Close(tasks)
      PROVE  TaskTypes' /\ connectionState' \in ConnectionState \ {"OPEN"}
  BY <1>2, CloseEffect, Unchanged DEF TypeInv, TaskTypes
<1>3. CASE ReadFails
  <2>1. StateTypes' /\ WriteInv'
    BY <1>2, <1>3, Unchanged DEF ReadFails, StateTypes, WriteInv, CanSend, writeVars
  <2>2. ReadTypes' /\ TaskTypes'
    BY <1>2, <1>3 DEF ReadFails, ReadTypes
  <2>. QED BY <1>3, <2>1, <2>2, Unchanged DEF ReadFails
<1>4. ASSUME NEW tooMany \in BOOLEAN, ParseHeader(tooMany)
      PROVE  /\ StateTypes' /\ LifeTypes' /\ RefTypes' /\ PoolTypes' /\ WriteTypes'
             /\ ReadTypes' /\ ReadyType' /\ IoType' /\ TaskTypes' /\ DispatcherTypes'
             /\ WriteInv' /\ FreeInv'
  <2>1. StateTypes' /\ WriteInv'
    BY <1>2, <1>4, Unchanged DEF ParseHeader, StateTypes, WriteInv, CanSend, writeVars
  <2>2. ReadTypes' /\ TaskTypes'
    BY <1>2, <1>4, Unchanged DEF ParseHeader, ReadTypes
  <2>. QED BY <1>4, <2>1, <2>2, Unchanged DEF ParseHeader
<1>5. CASE ParsePacketCloses
  <2>1. receivedFirst' \in BOOLEAN
    BY <1>5, Zenon DEF ParsePacketCloses
  <2>2. StateTypes' /\ WriteInv'
    BY <1>2, <1>5, <2>1, Unchanged
    DEF ParsePacketCloses, StateTypes, WriteInv, CanSend, writeVars
  <2>3. ReadTypes' /\ TaskTypes'
    BY <1>2, <1>5 DEF ParsePacketCloses, ReadTypes
  <2>. QED BY <1>5, <2>2, <2>3, Unchanged DEF ParsePacketCloses
<1>6. CASE PacketCloses
  <2>1. StateTypes' /\ WriteInv'
    BY <1>2, <1>6, Unchanged DEF PacketCloses, StateTypes, WriteInv, CanSend, writeVars
  <2>2. IoType' /\ TaskTypes'
    BY <1>2, <1>6 DEF PacketCloses, IoType
  <2>. QED BY <1>6, <2>1, <2>2, Unchanged DEF PacketCloses
<1>7. CASE PacketEnds
  <2>1. ReadTypes' /\ IoType' /\ WriteInv'
    BY <1>7, Unchanged DEF PacketEnds, ReadTypes, IoType, stateVars, writeVars
  <2>. QED BY <1>7, <2>1, Unchanged DEF PacketEnds
<1>. QED BY <1>3, <1>4, <1>5, <1>6, <1>7

LEMMA PacketTypes ==
  ASSUME TypeInv, NEW answer \in FirstPacket \cup LaterPacket, ParsePacket(answer)
  PROVE  TypeInv'
<1>1. SUFFICES
        /\ StateTypes' /\ LifeTypes' /\ RefTypes' /\ PoolTypes' /\ WriteTypes' /\ ReadTypes'
        /\ ReadyType' /\ IoType' /\ TaskTypes' /\ DispatcherTypes' /\ WriteInv' /\ FreeInv'
  BY TypeParts, Zenon DEF TypeInv
<1>2. answer \in {"post", "reply", "close", "rest", "write"}
  BY DEF FirstPacket, LaterPacket
<1>3. TaskTypes' /\ IoType'
  <2>1. Append(tasks, "logout") \in Seq(TaskNames) /\ Append(tasks, "login") \in Seq(TaskNames)
    BY Appended, Unchanged DEF TaskTypes, TaskNames
  <2>2. PostTo(answer)
    BY DEF ParsePacket
  <2>. QED BY <1>2, <2>1, <2>2, Unchanged DEF PostTo, TaskTypes, IoType
<1>4. LifeTypes'
  <2>1. protocol' \in {"none", "live", "releasing", "deleted"} /\ linked' \in BOOLEAN
    BY Unchanged DEF ParsePacket, LifeTypes
  <2>. QED BY <2>1, Unchanged DEF ParsePacket, LifeTypes
<1>5. StateTypes' /\ WriteInv'
  BY Unchanged DEF ParsePacket, StateTypes, WriteInv, CanSend, writeVars
<1>6. ReadTypes'
  BY DEF ParsePacket, ReadTypes
<1>. QED BY <1>3, <1>4, <1>5, <1>6, Unchanged DEF ParsePacket

LEMMA SendingTypes ==
  ASSUME TypeInv, PacketReplies \/ OnConnectTask \/ DispatcherRefuses
  PROVE  TypeInv'
<1>1. SUFFICES
        /\ StateTypes' /\ LifeTypes' /\ RefTypes' /\ PoolTypes' /\ WriteTypes' /\ ReadTypes'
        /\ ReadyType' /\ IoType' /\ TaskTypes' /\ DispatcherTypes' /\ WriteInv' /\ FreeInv'
  BY TypeParts, Zenon DEF TypeInv
<1>2. ASSUME NEW racing, NEW posted \in Seq(TaskNames), SendNew(racing, posted)
      PROVE  /\ StateTypes' /\ LifeTypes' /\ RefTypes' /\ PoolTypes' /\ WriteTypes'
             /\ ReadTypes' /\ ReadyType' /\ TaskTypes' /\ WriteInv'
  <2>1. /\ connRefs' \in Int /\ protoRefs' \in Int /\ torn' \in BOOLEAN
        /\ allocated' \subseteq Msgs
        /\ outputBuffer' \in Msgs \cup {Nobody} /\ toAdd' \in Seq(Msgs)
        /\ tasks' \in Seq(TaskNames)
        /\ writing' \subseteq Msgs /\ writeTimer' \in BOOLEAN
        /\ pendingWrite' \in {0, 1}
        /\ WriteInv'
    BY <1>2, SendNewTypes
  <2>2. StateTypes' /\ PoolTypes'
    BY <1>2, <2>1, Unchanged DEF SendNew, StateTypes, PoolTypes
  <2>. QED
    BY <1>2, <2>1, <2>2, Unchanged DEF SendNew, RefTypes, WriteTypes, TaskTypes
<1>3. CASE PacketReplies
  <2>1. IoType' /\ DispatcherTypes' /\ FreeInv'
    BY <1>3, Unchanged DEF PacketReplies, SendNew, IoType, DispatcherTypes, FreeInv
  <2>2. SendNew(dispatcherPc = "unref", tasks) /\ tasks \in Seq(TaskNames)
    BY <1>3, Unchanged DEF PacketReplies, TaskTypes
  <2>. QED BY <1>2, <2>1, <2>2
<1>4. CASE OnConnectTask
  <2>1. IoType' /\ DispatcherTypes' /\ FreeInv'
    BY <1>4, Unchanged
    DEF OnConnectTask, Takes, DispatcherIdle, Finish, SendNew, IoType, DispatcherTypes, FreeInv
  <2>2. SendNew(FALSE, Tail(tasks)) /\ Tail(tasks) \in Seq(TaskNames)
    BY <1>4, Unchanged, Taken DEF OnConnectTask, Takes, TaskTypes
  <2>. QED BY <1>2, <2>1, <2>2
<1>5. CASE DispatcherRefuses
  <2>1. IoType' /\ DispatcherTypes' /\ FreeInv'
    BY <1>5, Unchanged DEF DispatcherRefuses, SendNew, IoType, DispatcherTypes, FreeInv
  <2>2. SendNew(FALSE, tasks) /\ tasks \in Seq(TaskNames)
    BY <1>5, Unchanged DEF DispatcherRefuses, TaskTypes
  <2>. QED BY <1>2, <2>1, <2>2
<1>. QED BY <1>3, <1>4, <1>5

LEMMA BufferingTypes ==
  ASSUME TypeInv, PacketWrites \/ NeighbourWrites \/ GameWrites
  PROVE  TypeInv'
<1>1. SUFFICES
        /\ StateTypes' /\ LifeTypes' /\ RefTypes' /\ PoolTypes' /\ WriteTypes' /\ ReadTypes'
        /\ ReadyType' /\ IoType' /\ TaskTypes' /\ DispatcherTypes' /\ WriteInv' /\ FreeInv'
  BY TypeParts, Zenon DEF TypeInv
<1>2. ASSUME NEW racing, Buffer(racing) PROVE RefTypes' /\ PoolTypes'
  BY <1>2, BufferTypes DEF TypeInv, RefTypes, PoolTypes
<1>3. CASE PacketWrites \/ NeighbourWrites
  <2>1. RefTypes' /\ PoolTypes' /\ IoType'
    BY <1>2, <1>3, Unchanged DEF PacketWrites, NeighbourWrites, IoType
  <2>. QED BY <1>3, <2>1, Unchanged DEF PacketWrites, NeighbourWrites
<1>4. CASE GameWrites
  <2>1. RefTypes' /\ PoolTypes' /\ DispatcherTypes' /\ FreeInv'
    BY <1>2, <1>4, Unchanged
    DEF GameWrites, DispatcherIdle, Finish, DispatcherTypes, FreeInv
  <2>. QED BY <1>4, <2>1, Unchanged DEF GameWrites, ioVars
<1>. QED BY <1>3, <1>4

LEMMA WriteEndsTypes ==
  ASSUME TypeInv, NEW m \in Msgs, NEW error \in BOOLEAN, WriteEnds(m, error)
  PROVE  TypeInv'
<1>1. SUFFICES
        /\ StateTypes' /\ LifeTypes' /\ RefTypes' /\ PoolTypes' /\ WriteTypes' /\ ReadTypes'
        /\ ReadyType' /\ IoType' /\ TaskTypes' /\ DispatcherTypes' /\ WriteInv' /\ FreeInv'
  BY TypeParts, Zenon DEF TypeInv
<1>2. Append(tasks, m) \in Seq(TaskNames)
  BY Appended, Unchanged DEF TaskTypes, TaskNames
<1>3. writeError' \in BOOLEAN
  BY Zenon DEF WriteEnds
<1>4. WriteTypes'
  BY Unchanged DEF WriteEnds, WriteTypes
<1>5. StateTypes' /\ WriteInv' /\ TaskTypes'
  <2>1. CASE connectionState # "OPEN" \/ writeError \/ error
    <3>1. CloseSocket /\ CloseThenRelease(m)
      BY <2>1 DEF WriteEnds
    <3>2. tasks' \in Seq(TaskNames) /\ connectionState' \in ConnectionState \ {"OPEN"}
      BY <1>2, <3>1, CloseThenReleaseEffect
    <3>3. /\ socket' \in {"open", "closed", "deleted"}
          /\ pendingRead' \in {0, 1} /\ pendingWrite' \in {0, 1}
      BY <3>1, CloseSocketTypes DEF TypeInv
    <3>. QED
      BY <1>3, <3>2, <3>3, Unchanged DEF WriteEnds, StateTypes, WriteInv, CanSend, TaskTypes
  <2>2. CASE ~(connectionState # "OPEN" \/ writeError \/ error)
    <3>1. /\ pendingWrite = 1 /\ writing = {m}
      BY <2>2, Unchanged DEF WriteEnds, WriteInv, CanSend, StateTypes
    <3>2. /\ pendingWrite' = 0 /\ writing' = {}
          /\ tasks' = Append(tasks, m)
          /\ UNCHANGED <<socket, pendingRead, connectionState>>
      BY <2>2, <3>1 DEF WriteEnds
    <3>. QED
      BY <1>2, <1>3, <3>2, Unchanged DEF WriteEnds, StateTypes, WriteInv, CanSend, TaskTypes
  <2>. QED BY <2>1, <2>2
<1>. QED BY <1>4, <1>5, Unchanged DEF WriteEnds

LEMMA TimerTypes ==
  ASSUME TypeInv,
         ReadTimerGoesOff \/ WriteTimerGoesOff \/ ReadTimeout \/ WriteTimeout \/ StopOperation
  PROVE  TypeInv'
<1>1. SUFFICES
        /\ StateTypes' /\ LifeTypes' /\ RefTypes' /\ PoolTypes' /\ WriteTypes' /\ ReadTypes'
        /\ ReadyType' /\ IoType' /\ TaskTypes' /\ DispatcherTypes' /\ WriteInv' /\ FreeInv'
  BY TypeParts, Zenon DEF TypeInv
<1>2. ASSUME NEW handler, Runs(handler) PROVE ReadyType'
  BY <1>2, Taken, Unchanged DEF Runs, ReadyType
<1>3. ASSUME NEW waiting, TimesOut(waiting),
             UNCHANGED <<readError, writeError, receivedFirst, writing>>
      PROVE  StateTypes' /\ TaskTypes' /\ WriteInv'
  <2>1. CASE Alive /\ waiting
    <3>1. CloseSocket /\ Close(tasks)
      BY <1>3, <2>1 DEF TimesOut
    <3>2. tasks' \in Seq(TaskNames) /\ connectionState' \in ConnectionState \ {"OPEN"}
      BY <3>1, CloseEffect, Unchanged DEF TypeInv, TaskTypes
    <3>3. /\ socket' \in {"open", "closed", "deleted"}
          /\ pendingRead' \in {0, 1} /\ pendingWrite' \in {0, 1}
      BY <3>1, CloseSocketTypes DEF TypeInv
    <3>. QED
      BY <1>3, <3>2, <3>3, Unchanged DEF StateTypes, TaskTypes, WriteInv, CanSend
  <2>2. CASE ~(Alive /\ waiting)
    <3>1. UNCHANGED <<socket, pendingRead, pendingWrite, connectionState, tasks>>
      BY <1>3, <2>2 DEF TimesOut
    <3>. QED BY <1>3, <3>1, Unchanged DEF stateVars
  <2>. QED BY <2>1, <2>2
<1>4. CASE ReadTimerGoesOff
  <2>1. ReadyType' /\ ReadTypes'
    BY <1>4, Appended, Unchanged DEF ReadTimerGoesOff, ReadyType, Handlers, ReadTypes
  <2>. QED BY <1>4, <2>1, Unchanged DEF ReadTimerGoesOff
<1>5. CASE WriteTimerGoesOff
  <2>1. ReadyType' /\ WriteTypes' /\ WriteInv'
    BY <1>5, Appended, Unchanged
    DEF WriteTimerGoesOff, ReadyType, Handlers, WriteTypes, stateVars
  <2>. QED BY <1>5, <2>1, Unchanged DEF WriteTimerGoesOff
<1>6. CASE ReadTimeout
  <2>1. /\ Runs("readTimeout") /\ TimesOut(pendingRead > 0 \/ readError)
        /\ UNCHANGED <<readError, writeError, receivedFirst, writing>>
    BY <1>6 DEF ReadTimeout, writeVars
  <2>2. ReadyType' /\ StateTypes' /\ TaskTypes' /\ WriteInv'
    BY <1>2, <1>3, <2>1
  <2>. QED BY <1>6, <2>2, Unchanged DEF ReadTimeout
<1>7. CASE WriteTimeout
  <2>1. /\ Runs("writeTimeout") /\ TimesOut(pendingWrite > 0 \/ writeError)
        /\ UNCHANGED <<readError, writeError, receivedFirst, writing>>
    BY <1>7 DEF WriteTimeout, writeVars
  <2>2. ReadyType' /\ StateTypes' /\ TaskTypes' /\ WriteInv'
    BY <1>2, <1>3, <2>1
  <2>. QED BY <1>7, <2>2, Unchanged DEF WriteTimeout
<1>8. CASE StopOperation
  <2>1. ReadyType' /\ WriteInv'
    BY <1>2, <1>8, Unchanged DEF StopOperation
  <2>2. StateTypes'
    BY <1>8, Unchanged DEF StopOperation, StateTypes
  <2>3. LifeTypes'
    BY <1>8, Unchanged DEF StopOperation, LifeTypes
  <2>4. ReadTypes' /\ WriteTypes'
    BY <1>8, Unchanged DEF StopOperation, ReadTypes, WriteTypes
  <2>. QED BY <1>8, <2>1, <2>2, <2>3, <2>4, Unchanged DEF StopOperation
<1>. QED BY <1>4, <1>5, <1>6, <1>7, <1>8

LEMMA ClosingTypes ==
  ASSUME TypeInv, CloseConnectionTask \/ ReleaseConnectionEvent \/ ReleaseProtocolEvent
  PROVE  TypeInv'
<1>1. SUFFICES
        /\ StateTypes' /\ LifeTypes' /\ RefTypes' /\ PoolTypes' /\ WriteTypes' /\ ReadTypes'
        /\ ReadyType' /\ IoType' /\ TaskTypes' /\ DispatcherTypes' /\ WriteInv' /\ FreeInv'
  BY TypeParts, Zenon DEF TypeInv
<1>2. ASSUME dispatcherPc = "idle", Finish, freeing' = freeing PROVE DispatcherTypes' /\ FreeInv'
  BY <1>2, Unchanged DEF Finish, DispatcherTypes, FreeInv
<1>3. ASSUME ReleaseConnection
      PROVE  ReadyType' /\ release' \in {"event", "posted"}
  BY <1>3, Appended, Unchanged DEF ReleaseConnection, ReadyType, Handlers
<1>4. ASSUME ReleaseProtocol PROVE protocol' \in {"releasing", "deleted"}
  BY <1>4 DEF ReleaseProtocol
<1>5. CASE CloseConnectionTask
  <2>1. DispatcherTypes' /\ FreeInv'
    BY <1>2, <1>5 DEF CloseConnectionTask, Takes, DispatcherIdle
  <2>2. TaskTypes'
    BY <1>5, Taken, Unchanged DEF CloseConnectionTask, Takes, TaskTypes
  <2>3. CASE pendingWrite = 0 \/ writeError
    <3>1. CloseSocket /\ ReleaseConnection /\ connectionState' = "CLOSED"
      BY <1>5, <2>3 DEF CloseConnectionTask
    <3>2. StateTypes' /\ WriteInv'
      BY <1>5, <3>1, CloseSocketTypes, Unchanged
      DEF TypeInv, CloseConnectionTask, StateTypes, ConnectionState, WriteInv, CanSend,
          writeVars
    <3>3. LifeTypes' /\ ReadyType'
      BY <1>3, <1>4, <1>5, <3>1, Unchanged DEF CloseConnectionTask, LifeTypes
    <3>. QED BY <1>5, <2>1, <2>2, <3>2, <3>3, Unchanged DEF CloseConnectionTask
  <2>4. CASE ~(pendingWrite = 0 \/ writeError)
    <3>1. connectionState' = "CLOSING"
          /\ UNCHANGED <<socket, pendingRead, pendingWrite, release, ready>>
      BY <1>5, <2>4 DEF CloseConnectionTask
    <3>2. StateTypes' /\ WriteInv'
      BY <1>5, <3>1, Unchanged
      DEF CloseConnectionTask, StateTypes, ConnectionState, WriteInv, CanSend, writeVars
    <3>3. LifeTypes'
      BY <1>4, <1>5, <3>1, Unchanged DEF CloseConnectionTask, LifeTypes
    <3>. QED BY <1>5, <2>1, <2>2, <3>1, <3>2, <3>3, Unchanged DEF CloseConnectionTask
  <2>. QED BY <2>3, <2>4
<1>6. CASE ReleaseConnectionEvent
  <2>1. DispatcherTypes' /\ FreeInv'
    BY <1>2, <1>6 DEF ReleaseConnectionEvent, DispatcherIdle
  <2>2. LifeTypes' /\ ReadyType'
    BY <1>3, <1>6, Unchanged DEF ReleaseConnectionEvent, LifeTypes
  <2>. QED BY <1>6, <2>1, <2>2, Unchanged DEF ReleaseConnectionEvent
<1>7. CASE ReleaseProtocolEvent
  <2>1. DispatcherTypes' /\ FreeInv'
    BY <1>2, <1>7 DEF ReleaseProtocolEvent, DispatcherIdle
  <2>2. LifeTypes'
    BY <1>4, <1>7, Unchanged DEF ReleaseProtocolEvent, LifeTypes
  <2>. QED BY <1>7, <2>1, <2>2, Unchanged DEF ReleaseProtocolEvent, ioVars
<1>. QED BY <1>5, <1>6, <1>7

LEMMA TaskStepTypes ==
  ASSUME TypeInv,
         \/ \E m \in Msgs : FreeMessageBegins(m)
         \/ FreeMessageEnds \/ LoginTask \/ ConnectEvent \/ DispatcherCloses
         \/ LogoutTask \/ GameKicks \/ GameRuns
  PROVE  TypeInv'
<1>1. SUFFICES
        /\ StateTypes' /\ LifeTypes' /\ RefTypes' /\ PoolTypes' /\ WriteTypes' /\ ReadTypes'
        /\ ReadyType' /\ IoType' /\ TaskTypes' /\ DispatcherTypes' /\ WriteInv' /\ FreeInv'
  BY TypeParts, Zenon DEF TypeInv
<1>2. CASE \E m \in Msgs : FreeMessageBegins(m)
  <2>1. PICK m \in Msgs : FreeMessageBegins(m)
    BY <1>2
  <2>2. DispatcherTypes' /\ FreeInv'
    BY <2>1, ConnectionAssumption DEF FreeMessageBegins, DispatcherTypes, FreeInv
  <2>3. TaskTypes'
    BY <2>1, Taken, Unchanged DEF FreeMessageBegins, Takes, TaskTypes
  <2>. QED BY <2>1, <2>2, <2>3, Unchanged DEF FreeMessageBegins, ioVars
<1>3. CASE FreeMessageEnds
  <2>1. DispatcherTypes' /\ FreeInv'
    BY <1>3 DEF FreeMessageEnds, Finish, DispatcherTypes, FreeInv
  <2>2. RefTypes'
    BY <1>3, Unchanged DEF FreeMessageEnds, RefTypes
  <2>. QED BY <1>3, <2>1, <2>2, Unchanged DEF FreeMessageEnds, ioVars
<1>4. CASE LoginTask
  <2>1. DispatcherTypes' /\ FreeInv'
    BY <1>4, Unchanged
    DEF LoginTask, Takes, DispatcherIdle, Finish, DispatcherTypes, FreeInv
  <2>2. TaskTypes'
    BY <1>4, Taken, Unchanged DEF LoginTask, Takes, TaskTypes
  <2>3. RefTypes'
    BY <1>4, Unchanged DEF LoginTask, RefTypes
  <2>4. LifeTypes'
    BY <1>4, Unchanged DEF LoginTask, LifeTypes
  <2>. QED BY <1>4, <2>1, <2>2, <2>3, <2>4, Unchanged DEF LoginTask, ioVars
<1>5. CASE ConnectEvent
  <2>1. DispatcherTypes' /\ FreeInv'
    BY <1>5, Unchanged DEF ConnectEvent, DispatcherIdle, Finish, DispatcherTypes, FreeInv
  <2>2. RefTypes'
    BY <1>5, Unchanged DEF ConnectEvent, RefTypes
  <2>3. LifeTypes'
    BY <1>5, Unchanged DEF ConnectEvent, LifeTypes
  <2>. QED BY <1>5, <2>1, <2>2, <2>3, Unchanged DEF ConnectEvent, ioVars
<1>6. CASE DispatcherCloses
  <2>1. DispatcherTypes' /\ FreeInv'
    BY <1>6, Unchanged DEF DispatcherCloses, Finish, DispatcherTypes, FreeInv
  <2>2. StateTypes' /\ TaskTypes' /\ WriteInv'
    <3>1. CASE linked
      <4>1. Close(tasks) /\ tasks \in Seq(TaskNames)
        BY <1>6, <3>1, Unchanged DEF DispatcherCloses, TaskTypes
      <4>2. tasks' \in Seq(TaskNames) /\ connectionState' \in ConnectionState \ {"OPEN"}
        BY <4>1, CloseEffect DEF TypeInv
      <4>. QED
        BY <1>6, <4>2, Unchanged
        DEF DispatcherCloses, StateTypes, TaskTypes, WriteInv, CanSend, ioVars, writeVars
    <3>2. CASE ~linked
      BY <1>6, <3>2, Unchanged DEF DispatcherCloses, stateVars, ioVars
    <3>. QED BY <3>1, <3>2
  <2>. QED BY <1>6, <2>1, <2>2, Unchanged DEF DispatcherCloses, ioVars
<1>7. CASE LogoutTask
  <2>1. DispatcherTypes' /\ FreeInv'
    BY <1>7, Unchanged
    DEF LogoutTask, Takes, DispatcherIdle, Finish, DispatcherTypes, FreeInv
  <2>2. TaskTypes'
    BY <1>7, Taken, Unchanged DEF LogoutTask, Takes, TaskTypes
  <2>. QED BY <1>7, <2>1, <2>2, Unchanged DEF LogoutTask, ioVars
<1>8. CASE GameKicks \/ GameRuns
  <2>1. DispatcherTypes' /\ FreeInv'
    BY <1>8, Unchanged
    DEF GameKicks, GameRuns, DispatcherIdle, Finish, DispatcherTypes, FreeInv
  <2>. QED BY <1>8, <2>1, Unchanged DEF GameKicks, GameRuns, ioVars
<1>. QED BY <1>2, <1>3, <1>4, <1>5, <1>6, <1>7, <1>8

LEMMA SendAllTypes ==
  ASSUME TypeInv, SendAllAdds \/ SendAllSends \/ SendAllEnds
  PROVE  TypeInv'
<1>1. SUFFICES
        /\ StateTypes' /\ LifeTypes' /\ RefTypes' /\ PoolTypes' /\ WriteTypes' /\ ReadTypes'
        /\ ReadyType' /\ IoType' /\ TaskTypes' /\ DispatcherTypes' /\ WriteInv' /\ FreeInv'
  BY TypeParts, Zenon DEF TypeInv
<1>2. CASE SendAllAdds
  <2>1. CASE /\ toAdd = <<>> /\ dispatcherPc' = "sendAll" /\ UNCHANGED <<poolVars, tasks>>
    <3>1. DispatcherTypes' /\ FreeInv'
      BY <1>2, <2>1, Unchanged DEF SendAllAdds, DispatcherTypes, FreeInv
    <3>. QED BY <1>2, <2>1, <3>1, Unchanged DEF SendAllAdds, ioVars
  <2>2. CASE \E m \in Msgs : AddQueued(m) /\ UNCHANGED dispatcherPc
    <3>1. PICK m \in Msgs : AddQueued(m) /\ UNCHANGED dispatcherPc
      BY <2>2
    <3>2. DispatcherTypes' /\ FreeInv'
      BY <1>2, <3>1, Unchanged DEF SendAllAdds, DispatcherTypes, FreeInv
    <3>3. TaskTypes'
      <4>1. tasks' = tasks \/ tasks' = Append(tasks, m)
        BY <3>1, Zenon DEF AddQueued
      <4>. QED BY <4>1, Appended, Unchanged DEF TaskTypes, TaskNames
    <3>4. toAdd' \in Seq(Msgs) /\ outputBuffer' \in Msgs \cup {Nobody}
      BY <3>1, Taken, Unchanged DEF AddQueued, NotBuffered, PoolTypes
    <3>5. autoSend' \in Seq(Msgs)
      <4>1. <<m>> \in Seq(Msgs) /\ <<m>> \o autoSend \in Seq(Msgs)
        BY ConcatProperties, Unchanged DEF PoolTypes
      <4>2. Append(autoSend, m) \in Seq(Msgs)
        BY Appended, Unchanged DEF PoolTypes
      <4>. QED BY <3>1, <4>1, <4>2, Unchanged DEF AddQueued, PoolTypes
    <3>6. PoolTypes'
      BY <3>4, <3>5 DEF PoolTypes
    <3>. QED BY <1>2, <3>2, <3>3, <3>6, Unchanged DEF SendAllAdds, ioVars
  <2>. QED BY <1>2, <2>1, <2>2 DEF SendAllAdds
<1>3. CASE SendAllSends
  <2>1. /\ Head(autoSend) \in Msgs /\ autoSend' \in Seq(Msgs)
        /\ tasks \in Seq(TaskNames) /\ Send(Head(autoSend), tasks)
        /\ UNCHANGED <<connectionState, writeError>>
    BY <1>3, Taken, Unchanged DEF SendAllSends, PoolTypes, TaskTypes
  <2>2. /\ outputBuffer' \in Msgs \cup {Nobody} /\ toAdd' \in Seq(Msgs)
        /\ tasks' \in Seq(TaskNames)
        /\ writing' \subseteq Msgs /\ writeTimer' \in BOOLEAN
        /\ pendingWrite' \in {0, 1}
        /\ WriteInv'
    BY <2>1, SendTypes DEF TypeInv
  <2>3. StateTypes' /\ PoolTypes' /\ WriteTypes' /\ TaskTypes'
    BY <1>3, <2>1, <2>2, Unchanged
    DEF SendAllSends, StateTypes, PoolTypes, WriteTypes, TaskTypes
  <2>. QED BY <1>3, <2>2, <2>3, Unchanged DEF SendAllSends
<1>4. CASE SendAllEnds
  <2>1. DispatcherTypes' /\ FreeInv'
    BY <1>4, Unchanged DEF SendAllEnds, DispatcherTypes, FreeInv
  <2>. QED BY <1>4, <2>1, Unchanged DEF SendAllEnds, ioVars
<1>. QED BY <1>2, <1>3, <1>4

LEMMA StepTypes == TypeInv /\ [Next]_vars => TypeInv'
<1>. SUFFICES ASSUME TypeInv, [Next]_vars PROVE TypeInv'
  OBVIOUS
<1>1. CASE UNCHANGED vars
  <2>1. /\ StateTypes' /\ LifeTypes' /\ RefTypes' /\ PoolTypes' /\ WriteTypes' /\ ReadTypes'
        /\ ReadyType' /\ IoType' /\ TaskTypes' /\ DispatcherTypes' /\ WriteInv' /\ FreeInv'
    BY <1>1, Unchanged DEF vars, ioVars
  <2>. QED BY <2>1, TypeParts, Zenon DEF TypeInv
<1>2. CASE NetworkThread
  BY <1>2, SocketTypes, PacketTypes, SendingTypes, BufferingTypes, WriteEndsTypes, TimerTypes,
     Zenon
  DEF NetworkThread
<1>3. CASE DispatcherThread
  BY <1>3, SendingTypes, BufferingTypes, ClosingTypes, TaskStepTypes, SendAllTypes, Zenon
  DEF DispatcherThread, DispatcherTask
<1>. QED BY <1>1, <1>2, <1>3, Zenon DEF Next

LEMMA InitTypes == Init => TypeInv
<1>. SUFFICES ASSUME Init PROVE TypeInv
  OBVIOUS
<1>1. <<"onConnect">> \in Seq(TaskNames) /\ <<>> \in Seq(TaskNames)
  BY DEF TaskNames
<1>2. linked \in BOOLEAN
  BY Zenon DEF Init
<1>3. StateTypes /\ WriteInv
  <2>1. /\ connectionState = "OPEN" /\ pendingRead = 1 /\ pendingWrite = 0
        /\ socket = "open" /\ writing = {}
    BY Zenon DEF Init
  <2>2. readError \in BOOLEAN /\ writeError \in BOOLEAN /\ receivedFirst \in BOOLEAN
    BY Zenon DEF Init
  <2>. QED BY <2>1, <2>2 DEF StateTypes, WriteInv, ConnectionState
<1>4. LifeTypes
  BY <1>2 DEF Init, LifeTypes
<1>5. RefTypes /\ PoolTypes /\ WriteTypes /\ ReadTypes /\ ReadyType /\ IoType
  <2>1. /\ connRefs = 0 /\ protoRefs = 0 /\ allocated = {}
        /\ outputBuffer = Nobody /\ autoSend = <<>> /\ toAdd = <<>>
        /\ writing = {} /\ reading = "header" /\ ready = <<>> /\ ioPc = "idle"
    BY Zenon DEF Init
  <2>2. torn \in BOOLEAN /\ writeTimer \in BOOLEAN /\ readTimer \in BOOLEAN
    BY Zenon DEF Init
  <2>. QED BY <2>1, <2>2 DEF RefTypes, PoolTypes, WriteTypes, ReadTypes, ReadyType, IoType
<1>6. TaskTypes
  BY <1>1 DEF Init, TaskTypes
<1>7. DispatcherTypes /\ FreeInv
  BY DEF Init, DispatcherTypes, FreeInv
<1>. QED BY <1>3, <1>4, <1>5, <1>6, <1>7, TypeParts, Zenon DEF TypeInv

(* Every variable of the connection, its protocol and its messages keeps the type that
   the declarations of the program give it, for any number of messages: the two bytes
   pendingRead and pendingWrite stay at 0 or 1. *)
THEOREM TypesCorrect == Spec => []TypeOK
<1>1. TypeInv => TypeOK
  BY DEF TypeInv
<1>. QED BY <1>1, InitTypes, StepTypes, PTL DEF Spec

(* No second write is started on the socket while one is under way, although
   closeSocket() resets pendingWrite under a write. *)
THEOREM WritesOneAtATime == Spec => []OneWrite
<1>1. TypeInv => OneWrite
  <2>. SUFFICES ASSUME TypeInv PROVE OneWrite
    OBVIOUS
  <2>1. /\ pendingWrite \in {0, 1}
        /\ \A m, n \in writing : m = n
        /\ CanSend => (pendingWrite = 1 <=> writing # {})
    BY Unchanged DEF StateTypes, WriteInv
  <2>2. CASE writing = {}
    <3>1. Cardinality(writing) = 0
      BY <2>2, FS_EmptySet
    <3>. QED BY <2>1, <2>2, <3>1 DEF OneWrite
  <2>3. ASSUME NEW m \in writing PROVE OneWrite
    <3>1. writing = {m}
      BY <2>1, <2>3
    <3>2. Cardinality(writing) = 1
      BY <3>1, FS_Singleton
    <3>. QED BY <2>1, <2>3, <3>2 DEF OneWrite
  <2>. QED BY <2>2, <2>3
<1>. QED BY <1>1, InitTypes, StepTypes, PTL DEF Spec

-----------------------------------------------------------------------------
(* The places of the messages, and the tasks.  No task is queued twice, the task that
   closes is queued while REQUEST_CLOSE says so, and no task that needs the protocol is
   queued behind it. *)

Entries == {"onConnect", "login", "logout"}

GoodList(s) == s \in Seq(Msgs) /\ Once(s)

GoodTasks(s) == s \in Seq(TaskNames) /\ Once(s) /\ Closes(s, "close", Entries)

Placed(sending, waiting, queued, written, freed, used) ==
  \A m \in Msgs :
    /\ m \in used <=>
         m \in sending \/ m \in waiting \/ m \in queued \/ m \in written \/ m = freed
    /\ m \in sending => m \notin waiting /\ m \notin queued /\ m \notin written /\ m # freed
    /\ m \in waiting => m \notin queued /\ m \notin written /\ m # freed
    /\ m \in queued => m \notin written /\ m # freed
    /\ m \in written => m # freed

BufferInv == outputBuffer # Nobody => outputBuffer \in Elements(autoSend) \cup Elements(toAdd)

QueueInv ==
  /\ GoodList(autoSend) /\ GoodList(toAdd) /\ GoodTasks(tasks)
  /\ Placed(Elements(autoSend), Elements(toAdd), Elements(tasks), writing, freeing, allocated)
  /\ BufferInv

CloseInv == "close" \in Elements(tasks) <=> connectionState = "REQUEST_CLOSE"

(* No task that needs the protocol is queued that was not. *)
EntriesKept == Elements(tasks') \cap Entries \subseteq Elements(tasks)

LoginInv ==
  /\ ~receivedFirst \/ "login" \in Elements(tasks) => ~connecting
  /\ ~receivedFirst => "login" \notin Elements(tasks)

LEMMA Names ==
  /\ \A m \in Msgs : m \in TaskNames /\ m \notin Entries /\ m # "close" /\ m # Nobody
  /\ Entries \subseteq TaskNames /\ "close" \in TaskNames /\ "close" \notin Entries
  /\ Nobody \notin TaskNames
  BY ConnectionAssumption DEF TaskNames, Entries, Nobody

LEMMA GoodListChanges ==
  ASSUME NEW s, GoodList(s)
  PROVE  /\ \A m \in Msgs : m \notin Elements(s) =>
              /\ GoodList(Append(s, m)) /\ Elements(Append(s, m)) = Elements(s) \cup {m}
              /\ GoodList(<<m>> \o s) /\ Elements(<<m>> \o s) = Elements(s) \cup {m}
         /\ s # <<>> =>
              /\ GoodList(Tail(s)) /\ Head(s) \in Elements(s) /\ Head(s) \in Msgs
              /\ Elements(Tail(s)) = Elements(s) \ {Head(s)}
<1>1. s \in Seq(Msgs) /\ Once(s)
  BY DEF GoodList
<1>2. ASSUME NEW m \in Msgs, m \notin Elements(s)
      PROVE  /\ GoodList(Append(s, m)) /\ Elements(Append(s, m)) = Elements(s) \cup {m}
             /\ GoodList(<<m>> \o s) /\ Elements(<<m>> \o s) = Elements(s) \cup {m}
  BY <1>1, <1>2, Appended, Prepended DEF GoodList
<1>3. ASSUME s # <<>>
      PROVE  /\ GoodList(Tail(s)) /\ Head(s) \in Elements(s) /\ Head(s) \in Msgs
             /\ Elements(Tail(s)) = Elements(s) \ {Head(s)}
  <2>1. /\ Head(s) \in Msgs /\ Tail(s) \in Seq(Msgs) /\ Once(Tail(s))
        /\ Elements(s) = Elements(Tail(s)) \cup {Head(s)} /\ Head(s) \notin Elements(Tail(s))
    BY <1>1, <1>3, Taken
  <2>. QED BY <2>1 DEF GoodList
<1>. QED BY <1>2, <1>3

LEMMA GoodTasksChanges ==
  ASSUME NEW s, GoodTasks(s)
  PROVE  /\ \A x \in TaskNames :
              x \notin Elements(s) /\ ("close" \in Elements(s) => x \notin Entries) =>
                /\ GoodTasks(Append(s, x))
                /\ Elements(Append(s, x)) = Elements(s) \cup {x}
         /\ s # <<>> =>
              /\ GoodTasks(Tail(s)) /\ Head(s) \in Elements(s)
              /\ Elements(Tail(s)) = Elements(s) \ {Head(s)}
              /\ Head(s) = "close" => Elements(Tail(s)) \cap Entries = {}
<1>1. s \in Seq(TaskNames) /\ Once(s) /\ Closes(s, "close", Entries)
  BY DEF GoodTasks
<1>2. ASSUME NEW x \in TaskNames, x \notin Elements(s), "close" \in Elements(s) => x \notin Entries
      PROVE  GoodTasks(Append(s, x)) /\ Elements(Append(s, x)) = Elements(s) \cup {x}
  <2>1. Closes(Append(s, x), "close", Entries)
    BY <1>1, <1>2, AppendedCloses
  <2>. QED BY <1>1, <1>2, <2>1, Appended DEF GoodTasks
<1>3. ASSUME s # <<>>
      PROVE  /\ GoodTasks(Tail(s)) /\ Head(s) \in Elements(s)
             /\ Elements(Tail(s)) = Elements(s) \ {Head(s)}
             /\ Head(s) = "close" => Elements(Tail(s)) \cap Entries = {}
  <2>1. /\ Tail(s) \in Seq(TaskNames) /\ Once(Tail(s))
        /\ Elements(s) = Elements(Tail(s)) \cup {Head(s)} /\ Head(s) \notin Elements(Tail(s))
    BY <1>1, <1>3, Taken
  <2>2. /\ Closes(Tail(s), "close", Entries)
        /\ Head(s) = "close" => Elements(Tail(s)) \cap Entries = {}
    BY <1>1, <1>3, TakenCloses
  <2>. QED BY <2>1, <2>2 DEF GoodTasks
<1>. QED BY <1>2, <1>3

LEMMA CloseQueue ==
  ASSUME TypeInv, NEW posted, GoodTasks(posted), Close(posted),
         "close" \in Elements(posted) <=> connectionState = "REQUEST_CLOSE"
  PROVE  /\ GoodTasks(tasks') /\ CloseInv'
         /\ Elements(tasks') \ {"close"} = Elements(posted) \ {"close"}
<1>0. posted \in Seq(TaskNames) /\ TypeOK
  BY DEF GoodTasks, TypeInv
<1>1. CASE connectionState = "OPEN"
  <2>1. tasks' = Append(posted, "close") /\ connectionState' = "REQUEST_CLOSE"
    BY <1>0, <1>1, CloseEffect
  <2>2. /\ GoodTasks(Append(posted, "close"))
        /\ Elements(Append(posted, "close")) = Elements(posted) \cup {"close"}
    BY <1>1, GoodTasksChanges, Names
  <2>. QED BY <2>1, <2>2 DEF CloseInv
<1>2. CASE connectionState # "OPEN"
  <2>1. tasks' = posted /\ connectionState' = connectionState
    BY <1>0, <1>2, CloseEffect
  <2>. QED BY <2>1 DEF CloseInv
<1>. QED BY <1>1, <1>2

LEMMA SendQueue ==
  ASSUME NEW posted, GoodTasks(posted), GoodList(toAdd), NEW m \in Msgs,
         m \notin Elements(posted), m \notin Elements(toAdd), Send(m, posted)
  PROVE  /\ GoodTasks(tasks') /\ GoodList(toAdd')
         /\ outputBuffer' # Nobody => outputBuffer' = outputBuffer
         /\ \/ /\ Elements(tasks') = Elements(posted) \cup {m}
               /\ UNCHANGED <<toAdd, writing>> /\ outputBuffer' # m
            \/ /\ tasks' = posted /\ Elements(toAdd') = Elements(toAdd) \cup {m}
               /\ writing' = writing
            \/ /\ tasks' = posted /\ writing' = writing \cup {m}
               /\ toAdd' = toAdd /\ outputBuffer' # m
<1>1. m # Nobody /\ m \in TaskNames /\ m \notin Entries
  BY Names
<1>2. /\ GoodTasks(Append(posted, m)) /\ Elements(Append(posted, m)) = Elements(posted) \cup {m}
      /\ GoodList(Append(toAdd, m)) /\ Elements(Append(toAdd, m)) = Elements(toAdd) \cup {m}
  BY <1>1, GoodListChanges, GoodTasksChanges
<1>3. CASE CanSend /\ pendingWrite = 0
  BY <1>1, <1>3 DEF Send, NotBuffered
<1>4. CASE CanSend /\ pendingWrite # 0
  BY <1>2, <1>4 DEF Send
<1>5. CASE ~CanSend
  BY <1>1, <1>2, <1>5 DEF Send, NotBuffered
<1>. QED BY <1>3, <1>4, <1>5

(* Steps that leave every message where it is, and may ask for the connection to be
   closed. *)
Quiet ==
  /\ UNCHANGED <<autoSend, toAdd, writing, freeing, allocated, outputBuffer>>
  /\ \/ UNCHANGED <<tasks, connectionState>>
     \/ Close(tasks)

LEMMA QuietQueue ==
  ASSUME TypeInv, QueueInv, CloseInv, Quiet
  PROVE  QueueInv' /\ CloseInv' /\ EntriesKept
<1>1. GoodTasks(tasks') /\ CloseInv' /\ Elements(tasks') \ {"close"} = Elements(tasks) \ {"close"}
  <2>1. CASE UNCHANGED <<tasks, connectionState>>
    BY <2>1 DEF QueueInv, CloseInv
  <2>2. CASE Close(tasks)
    BY <2>2, CloseQueue DEF QueueInv, CloseInv
  <2>. QED BY <2>1, <2>2 DEF Quiet
<1>2. \A m \in Msgs : m \in Elements(tasks') <=> m \in Elements(tasks)
  BY <1>1, Names
<1>3. Placed(Elements(autoSend), Elements(toAdd), Elements(tasks'), writing, freeing, allocated)
  BY <1>2 DEF QueueInv, Placed
<1>. QED BY <1>1, <1>3, Names DEF QueueInv, BufferInv, Quiet, EntriesKept

QuietStep ==
  \/ ReadFails
  \/ \E tooMany \in BOOLEAN : ParseHeader(tooMany)
  \/ ParsePacketCloses \/ PacketCloses \/ PacketEnds
  \/ ReadTimerGoesOff \/ WriteTimerGoesOff \/ ReadTimeout \/ WriteTimeout \/ StopOperation
  \/ ReleaseConnectionEvent \/ ReleaseProtocolEvent \/ ConnectEvent \/ DispatcherCloses
  \/ GameKicks \/ GameRuns \/ SendAllEnds
  \/ UNCHANGED vars

LEMMA QuietSteps ==
  ASSUME QuietStep
  PROVE  Quiet
<1>. USE DEF Quiet, stateVars, lifeVars, refVars, poolVars, writeVars, ioVars, dispatcherVars
<1>1. CASE ReadFails \/ ParsePacketCloses \/ PacketCloses
  BY <1>1 DEF ReadFails, ParsePacketCloses, PacketCloses
<1>2. CASE \E tooMany \in BOOLEAN : ParseHeader(tooMany)
  BY <1>2 DEF ParseHeader
<1>3. CASE PacketEnds \/ ReadTimerGoesOff \/ WriteTimerGoesOff \/ StopOperation
  BY <1>3 DEF PacketEnds, ReadTimerGoesOff, WriteTimerGoesOff, StopOperation
<1>4. CASE ReadTimeout \/ WriteTimeout
  BY <1>4 DEF ReadTimeout, WriteTimeout, TimesOut
<1>5. CASE ReleaseConnectionEvent \/ ReleaseProtocolEvent \/ ConnectEvent
  BY <1>5 DEF ReleaseConnectionEvent, ReleaseProtocolEvent, ConnectEvent
<1>6. CASE DispatcherCloses \/ GameKicks \/ GameRuns \/ SendAllEnds
  BY <1>6 DEF DispatcherCloses, GameKicks, GameRuns, SendAllEnds
<1>7. CASE UNCHANGED vars
  BY <1>7 DEF vars
<1>. QED BY <1>1, <1>2, <1>3, <1>4, <1>5, <1>6, <1>7 DEF QuietStep

LEMMA PacketQueue ==
  ASSUME TypeInv, QueueInv, CloseInv, LoginInv,
         NEW answer \in FirstPacket \cup LaterPacket, ParsePacket(answer)
  PROVE  QueueInv' /\ CloseInv'
<1>1. /\ UNCHANGED <<connectionState, autoSend, toAdd, writing, freeing, allocated, outputBuffer>>
      /\ connectionState = "OPEN"
  BY DEF ParsePacket, refVars, poolVars, writeVars, dispatcherVars
<1>2. "close" \notin Elements(tasks)
  BY <1>1 DEF CloseInv
<1>3. CASE tasks' = tasks
  BY <1>1, <1>3 DEF QueueInv, CloseInv, BufferInv
<1>4. ASSUME NEW x \in Entries, tasks' = Append(tasks, x), x \notin Elements(tasks)
      PROVE  QueueInv' /\ CloseInv'
  <2>1. GoodTasks(tasks') /\ Elements(tasks') = Elements(tasks) \cup {x}
    BY <1>2, <1>4, GoodTasksChanges, Names DEF QueueInv
  <2>2. Placed(Elements(autoSend), Elements(toAdd), Elements(tasks'), writing, freeing, allocated)
    BY <1>4, <2>1, Names DEF QueueInv, Placed
  <2>. QED BY <1>1, <1>2, <1>4, <2>1, <2>2, Names DEF QueueInv, CloseInv, BufferInv
<1>5. CASE answer # "post"
  BY <1>3, <1>5 DEF ParsePacket, PostTo
<1>6. CASE answer = "post" /\ receivedFirst
  <2>1. tasks' = Append(tasks, "logout") /\ "logout" \notin Elements(tasks)
    BY <1>6 DEF ParsePacket, PostTo
  <2>. QED BY <1>4, <2>1 DEF Entries
<1>7. CASE answer = "post" /\ ~receivedFirst
  <2>1. tasks' = Append(tasks, "login") /\ "login" \notin Elements(tasks)
    BY <1>7 DEF ParsePacket, PostTo, LoginInv
  <2>. QED BY <1>4, <2>1 DEF Entries
<1>. QED BY <1>5, <1>6, <1>7

(* A message is sent the moment it was taken from the pool. *)
LEMMA SendNewQueue ==
  ASSUME TypeInv, QueueInv, NEW racing, NEW posted, SendNew(racing, posted),
         GoodTasks(posted), Elements(posted) \cap Msgs = Elements(tasks) \cap Msgs,
         Elements(posted) \subseteq Elements(tasks),
         "close" \in Elements(posted) <=> connectionState = "REQUEST_CLOSE",
         freeing' = freeing
  PROVE  QueueInv' /\ CloseInv' /\ EntriesKept
<1>1. UNCHANGED <<connectionState, autoSend, freeing>>
  BY DEF SendNew
<1>2. CASE /\ tasks' = posted
           /\ UNCHANGED <<refVars, pendingWrite, writing, writeTimer, toAdd, outputBuffer>>
  <2>1. Placed(Elements(autoSend), Elements(toAdd), Elements(tasks'), writing, freeing, allocated)
    BY <1>2 DEF QueueInv, Placed
  <2>. QED BY <1>1, <1>2, <2>1 DEF QueueInv, CloseInv, BufferInv, refVars, EntriesKept
<1>3. ASSUME NEW m \in Msgs, Allocate(m, racing), Send(m, posted)
      PROVE  QueueInv' /\ CloseInv' /\ EntriesKept
  <2>1. m \notin allocated /\ allocated' = allocated \cup {m}
    BY <1>3 DEF Allocate
  <2>2. /\ m \notin Elements(autoSend) /\ m \notin Elements(toAdd) /\ m \notin Elements(tasks)
        /\ m \notin writing /\ m # freeing /\ m \notin Elements(posted)
    BY <2>1 DEF QueueInv, Placed
  <2>3. /\ GoodTasks(tasks') /\ GoodList(toAdd')
        /\ outputBuffer' # Nobody => outputBuffer' = outputBuffer
        /\ \/ /\ Elements(tasks') = Elements(posted) \cup {m}
              /\ UNCHANGED <<toAdd, writing>> /\ outputBuffer' # m
           \/ /\ tasks' = posted /\ Elements(toAdd') = Elements(toAdd) \cup {m}
              /\ writing' = writing
           \/ /\ tasks' = posted /\ writing' = writing \cup {m}
              /\ toAdd' = toAdd /\ outputBuffer' # m
    BY <1>3, <2>2, SendQueue DEF QueueInv
  <2>4. Placed(Elements(autoSend), Elements(toAdd'), Elements(tasks'), writing', freeing, allocated')
    BY <2>1, <2>2, <2>3 DEF QueueInv, Placed
  <2>5. CloseInv'
    BY <1>1, <2>3, Names DEF CloseInv
  <2>6. BufferInv'
    BY <1>1, <2>3 DEF QueueInv, BufferInv
  <2>7. EntriesKept
    BY <2>3, Names DEF EntriesKept
  <2>. QED BY <1>1, <2>3, <2>4, <2>5, <2>6, <2>7 DEF QueueInv
<1>. QED BY <1>2, <1>3 DEF SendNew

LEMMA SendingQueue ==
  ASSUME TypeInv, QueueInv, CloseInv, PacketReplies \/ OnConnectTask \/ DispatcherRefuses
  PROVE  QueueInv' /\ CloseInv' /\ EntriesKept
<1>1. CASE PacketReplies
  <2>1. SendNew(dispatcherPc = "unref", tasks) /\ freeing' = freeing
    BY <1>1 DEF PacketReplies, SendNew
  <2>. QED BY <2>1, SendNewQueue DEF QueueInv, CloseInv
<1>2. CASE DispatcherRefuses
  <2>1. SendNew(FALSE, tasks) /\ freeing' = freeing
    BY <1>2 DEF DispatcherRefuses, SendNew
  <2>. QED BY <2>1, SendNewQueue DEF QueueInv, CloseInv
<1>3. CASE OnConnectTask
  <2>1. /\ SendNew(FALSE, Tail(tasks)) /\ freeing' = freeing
        /\ tasks # <<>> /\ Head(tasks) = "onConnect"
    BY <1>3 DEF OnConnectTask, Takes, SendNew
  <2>2. GoodTasks(Tail(tasks)) /\ Elements(Tail(tasks)) = Elements(tasks) \ {"onConnect"}
    BY <2>1, GoodTasksChanges DEF QueueInv
  <2>3. \A m \in Msgs : m # "onConnect"
    BY Names DEF Entries
  <2>. QED BY <2>1, <2>2, <2>3, SendNewQueue DEF CloseInv
<1>. QED BY <1>1, <1>2, <1>3

LEMMA BufferingQueue ==
  ASSUME TypeInv, QueueInv, CloseInv, PacketWrites \/ NeighbourWrites \/ GameWrites
  PROVE  QueueInv' /\ CloseInv' /\ EntriesKept
<1>1. /\ UNCHANGED <<connectionState, tasks, writing, freeing>>
      /\ \E racing \in BOOLEAN : Buffer(racing)
  <2>1. CASE PacketWrites \/ NeighbourWrites
    BY <2>1, Zenon DEF PacketWrites, NeighbourWrites, stateVars, writeVars, dispatcherVars
  <2>2. CASE GameWrites
    BY <2>2 DEF GameWrites, stateVars, ioVars, writeVars
  <2>. QED BY <2>1, <2>2
<1>2. PICK racing \in BOOLEAN : Buffer(racing)
  BY <1>1
<1>3. CASE UNCHANGED <<refVars, poolVars>>
  BY <1>1, <1>3 DEF QueueInv, CloseInv, BufferInv, refVars, poolVars, EntriesKept
<1>4. ASSUME NEW m \in Msgs, Allocate(m, racing), outputBuffer' = m,
             autoSend' = Append(autoSend, m), toAdd' = toAdd
      PROVE  QueueInv' /\ CloseInv' /\ EntriesKept
  <2>1. m \notin allocated /\ allocated' = allocated \cup {m}
    BY <1>4 DEF Allocate
  <2>2. /\ m \notin Elements(autoSend) /\ m \notin Elements(toAdd) /\ m \notin Elements(tasks)
        /\ m \notin writing /\ m # freeing
    BY <2>1 DEF QueueInv, Placed
  <2>3. GoodList(autoSend') /\ Elements(autoSend') = Elements(autoSend) \cup {m}
    BY <1>4, <2>2, GoodListChanges DEF QueueInv
  <2>4. Placed(Elements(autoSend'), Elements(toAdd), Elements(tasks), writing, freeing, allocated')
    BY <2>1, <2>2, <2>3 DEF QueueInv, Placed
  <2>. QED BY <1>1, <1>4, <2>3, <2>4 DEF QueueInv, CloseInv, BufferInv, EntriesKept
<1>. QED BY <1>2, <1>3, <1>4 DEF Buffer

LEMMA WriteEndsQueue ==
  ASSUME TypeInv, QueueInv, CloseInv, NEW m \in Msgs, NEW error \in BOOLEAN, WriteEnds(m, error)
  PROVE  QueueInv' /\ CloseInv' /\ EntriesKept
<1>1. /\ UNCHANGED <<autoSend, toAdd, freeing, allocated, outputBuffer>>
      /\ m \in writing /\ writing' = writing \ {m}
  BY DEF WriteEnds, refVars, poolVars, dispatcherVars
<1>2. m \notin Elements(tasks) /\ m # "close" /\ m \notin Entries /\ m \in TaskNames
  BY <1>1, Names DEF QueueInv, Placed
<1>3. GoodTasks(Append(tasks, m)) /\ Elements(Append(tasks, m)) = Elements(tasks) \cup {m}
  BY <1>2, GoodTasksChanges DEF QueueInv
<1>4. /\ GoodTasks(tasks') /\ CloseInv'
      /\ Elements(tasks') \ {"close"} = (Elements(tasks) \cup {m}) \ {"close"}
  <2>1. CASE connectionState # "OPEN" \/ writeError \/ error
    <3>1. CloseThenRelease(m)
      BY <2>1 DEF WriteEnds
    <3>2. CASE connectionState = "OPEN"
      <4>1. tasks' = Append(Append(tasks, "close"), m) /\ connectionState' = "REQUEST_CLOSE"
        BY <3>1, <3>2, CloseThenReleaseEffect
      <4>2. "close" \notin Elements(tasks) /\ "close" \notin Entries /\ "close" \in TaskNames
        BY <3>2, Names DEF CloseInv
      <4>3. /\ GoodTasks(Append(tasks, "close"))
            /\ Elements(Append(tasks, "close")) = Elements(tasks) \cup {"close"}
        BY <4>2, GoodTasksChanges DEF QueueInv
      <4>4. /\ GoodTasks(Append(Append(tasks, "close"), m))
            /\ Elements(Append(Append(tasks, "close"), m)) = Elements(tasks) \cup {"close", m}
        BY <1>2, <4>3, GoodTasksChanges
      <4>. QED BY <1>2, <4>1, <4>4 DEF CloseInv
    <3>3. CASE connectionState # "OPEN"
      <4>1. tasks' = Append(tasks, m) /\ connectionState' = connectionState
        BY <3>1, <3>3, CloseThenReleaseEffect
      <4>. QED BY <1>2, <1>3, <4>1 DEF CloseInv
    <3>. QED BY <3>2, <3>3
  <2>2. CASE ~(connectionState # "OPEN" \/ writeError \/ error)
    <3>1. tasks' = Append(tasks, m) /\ connectionState' = connectionState
      BY <2>2 DEF WriteEnds
    <3>. QED BY <1>2, <1>3, <3>1 DEF CloseInv
  <2>. QED BY <2>1, <2>2
<1>5. \A n \in Msgs : n \in Elements(tasks') <=> n \in Elements(tasks) \/ n = m
  BY <1>4, Names
<1>6. Placed(Elements(autoSend), Elements(toAdd), Elements(tasks'), writing', freeing, allocated)
  BY <1>1, <1>2, <1>5 DEF QueueInv, Placed
<1>7. EntriesKept
  BY <1>2, <1>4, Names DEF EntriesKept
<1>. QED BY <1>1, <1>4, <1>6, <1>7 DEF QueueInv, BufferInv

LEMMA TaskQueue ==
  ASSUME TypeInv, QueueInv, CloseInv,
         \/ CloseConnectionTask \/ LoginTask \/ LogoutTask
         \/ \E m \in Msgs : FreeMessageBegins(m)
         \/ FreeMessageEnds
  PROVE  QueueInv' /\ CloseInv' /\ EntriesKept
<1>1. ASSUME NEW x, Takes(x), tasks' = Tail(tasks)
      PROVE  /\ GoodTasks(tasks') /\ Elements(tasks') = Elements(tasks) \ {x}
             /\ x \in Elements(tasks) /\ dispatcherPc = "idle"
  BY <1>1, GoodTasksChanges DEF Takes, DispatcherIdle, QueueInv
<1>2. ASSUME NEW x, x \notin Msgs, Takes(x), tasks' = Tail(tasks),
             UNCHANGED <<autoSend, toAdd, writing, freeing, allocated, outputBuffer>>
      PROVE  QueueInv' /\ Elements(tasks') = Elements(tasks) \ {x} /\ x \in Elements(tasks)
  <2>1. GoodTasks(tasks') /\ Elements(tasks') = Elements(tasks) \ {x} /\ x \in Elements(tasks)
    BY <1>1, <1>2
  <2>2. Placed(Elements(autoSend), Elements(toAdd), Elements(tasks'), writing, freeing, allocated)
    BY <1>2, <2>1 DEF QueueInv, Placed
  <2>. QED BY <1>2, <2>1, <2>2 DEF QueueInv, BufferInv
<1>3. CASE CloseConnectionTask
  <2>1. /\ Takes("close") /\ tasks' = Tail(tasks)
        /\ UNCHANGED <<autoSend, toAdd, writing, freeing, allocated, outputBuffer>>
        /\ connectionState' \in {"CLOSED", "CLOSING"}
    BY <1>3 DEF CloseConnectionTask, refVars, poolVars, writeVars
  <2>2. "close" \notin Msgs
    BY Names
  <2>3. QueueInv' /\ Elements(tasks') = Elements(tasks) \ {"close"}
    BY <1>2, <2>1, <2>2
  <2>. QED BY <2>1, <2>3 DEF CloseInv, EntriesKept
<1>4. CASE LoginTask \/ LogoutTask
  <2>1. PICK x \in Entries :
          /\ Takes(x) /\ tasks' = Tail(tasks)
          /\ UNCHANGED <<autoSend, toAdd, writing, freeing, allocated, outputBuffer, connectionState>>
    BY <1>4
    DEF LoginTask, LogoutTask, Entries, stateVars, refVars, poolVars, ioVars, writeVars
  <2>2. x \notin Msgs /\ x # "close"
    BY Names DEF Entries
  <2>3. QueueInv' /\ Elements(tasks') = Elements(tasks) \ {x}
    BY <1>2, <2>1, <2>2
  <2>. QED BY <2>1, <2>2, <2>3 DEF CloseInv, EntriesKept
<1>5. ASSUME NEW m \in Msgs, FreeMessageBegins(m) PROVE QueueInv' /\ CloseInv' /\ EntriesKept
  <2>1. /\ Takes(m) /\ tasks' = Tail(tasks) /\ freeing' = m
        /\ UNCHANGED <<autoSend, toAdd, writing, allocated, outputBuffer, connectionState>>
    BY <1>5
    DEF FreeMessageBegins, stateVars, refVars, poolVars, ioVars, writeVars
  <2>2. /\ GoodTasks(tasks') /\ Elements(tasks') = Elements(tasks) \ {m}
        /\ m \in Elements(tasks) /\ dispatcherPc = "idle"
    BY <1>1, <2>1
  <2>3. freeing = Nobody /\ \A n \in Msgs : n # Nobody
    BY <2>2, Unchanged, Names DEF FreeInv
  <2>4. Placed(Elements(autoSend), Elements(toAdd), Elements(tasks'), writing, freeing', allocated)
    BY <2>1, <2>2, <2>3 DEF QueueInv, Placed
  <2>. QED BY <2>1, <2>2, <2>4, Names DEF QueueInv, CloseInv, BufferInv, EntriesKept
<1>6. CASE FreeMessageEnds
  <2>1. /\ allocated' = allocated \ {freeing} /\ freeing' = Nobody
        /\ UNCHANGED <<autoSend, toAdd, writing, tasks, outputBuffer, connectionState>>
    BY <1>6 DEF FreeMessageEnds, stateVars, poolVars, ioVars, writeVars
  <2>2. Placed(Elements(autoSend), Elements(toAdd), Elements(tasks), writing, freeing', allocated')
    BY <2>1, Names DEF QueueInv, Placed
  <2>. QED BY <2>1, <2>2 DEF QueueInv, CloseInv, BufferInv, EntriesKept
<1>. QED BY <1>3, <1>4, <1>5, <1>6

LEMMA SendAllQueue ==
  ASSUME TypeInv, QueueInv, CloseInv, SendAllAdds \/ SendAllSends
  PROVE  QueueInv' /\ CloseInv' /\ EntriesKept
<1>1. CASE SendAllAdds /\ UNCHANGED <<poolVars, tasks>>
  <2>1. Quiet
    BY <1>1 DEF SendAllAdds, Quiet, stateVars, refVars, poolVars, ioVars, writeVars
  <2>. QED BY <2>1, QuietQueue
<1>2. ASSUME NEW m \in Msgs, AddQueued(m), SendAllAdds PROVE QueueInv' /\ CloseInv' /\ EntriesKept
  <2>1. UNCHANGED <<connectionState, writing, freeing, allocated>>
    BY <1>2 DEF SendAllAdds, stateVars, refVars, ioVars, writeVars
  <2>2. /\ m \in Elements(toAdd) /\ GoodList(toAdd')
        /\ Elements(toAdd') = Elements(toAdd) \ {m}
    BY <1>2, GoodListChanges DEF AddQueued, QueueInv
  <2>3. /\ m \notin Elements(autoSend) /\ m \notin Elements(tasks) /\ m \notin writing
        /\ m # freeing /\ m \in allocated
        /\ m \in TaskNames /\ m \notin Entries /\ m # "close" /\ m # Nobody
    BY <2>2, Names DEF QueueInv, Placed
  <2>4. CASE /\ autoSend' \in {<<m>> \o autoSend, Append(autoSend, m)}
             /\ UNCHANGED <<outputBuffer, tasks>>
    <3>1. GoodList(autoSend') /\ Elements(autoSend') = Elements(autoSend) \cup {m}
      <4>1. /\ GoodList(Append(autoSend, m))
            /\ Elements(Append(autoSend, m)) = Elements(autoSend) \cup {m}
            /\ GoodList(<<m>> \o autoSend)
            /\ Elements(<<m>> \o autoSend) = Elements(autoSend) \cup {m}
        BY <2>3, GoodListChanges DEF QueueInv
      <4>2. autoSend' = <<m>> \o autoSend \/ autoSend' = Append(autoSend, m)
        BY <2>4
      <4>. QED BY <4>1, <4>2, Zenon
    <3>2. Placed(Elements(autoSend'), Elements(toAdd'), Elements(tasks), writing, freeing, allocated)
      BY <2>2, <2>3, <3>1 DEF QueueInv, Placed
    <3>3. BufferInv'
      BY <2>2, <2>4, <3>1 DEF QueueInv, BufferInv
    <3>. QED BY <2>1, <2>2, <2>4, <3>1, <3>2, <3>3 DEF QueueInv, CloseInv, EntriesKept
  <2>5. CASE NotBuffered(m) /\ tasks' = Append(tasks, m) /\ UNCHANGED autoSend
    <3>1. GoodTasks(tasks') /\ Elements(tasks') = Elements(tasks) \cup {m}
      BY <2>3, <2>5, GoodTasksChanges DEF QueueInv
    <3>2. Placed(Elements(autoSend), Elements(toAdd'), Elements(tasks'), writing, freeing, allocated)
      BY <2>2, <2>3, <3>1 DEF QueueInv, Placed
    <3>3. BufferInv'
      BY <2>2, <2>5, <3>1 DEF QueueInv, BufferInv, NotBuffered
    <3>. QED BY <2>1, <2>2, <2>3, <2>5, <3>1, <3>2, <3>3 DEF QueueInv, CloseInv, EntriesKept
  <2>. QED BY <1>2, <2>4, <2>5 DEF AddQueued
<1>3. CASE SendAllSends
  <2>. DEFINE m == Head(autoSend)
  <2>1. /\ Send(m, tasks) /\ autoSend # <<>> /\ autoSend' = Tail(autoSend)
        /\ UNCHANGED <<connectionState, freeing, allocated>>
    BY <1>3 DEF SendAllSends, refVars, dispatcherVars
  <2>2. /\ m \in Msgs /\ m \in Elements(autoSend) /\ GoodList(autoSend')
        /\ Elements(autoSend') = Elements(autoSend) \ {m}
    BY <2>1, GoodListChanges DEF QueueInv
  <2>. HIDE DEF m
  <2>3. /\ m \notin Elements(toAdd) /\ m \notin Elements(tasks) /\ m \notin writing
        /\ m # freeing /\ m \in allocated
    BY <2>2 DEF QueueInv, Placed
  <2>4. /\ GoodTasks(tasks') /\ GoodList(toAdd')
        /\ outputBuffer' # Nobody => outputBuffer' = outputBuffer
        /\ \/ /\ Elements(tasks') = Elements(tasks) \cup {m}
              /\ UNCHANGED <<toAdd, writing>> /\ outputBuffer' # m
           \/ /\ tasks' = tasks /\ Elements(toAdd') = Elements(toAdd) \cup {m}
              /\ writing' = writing
           \/ /\ tasks' = tasks /\ writing' = writing \cup {m}
              /\ toAdd' = toAdd /\ outputBuffer' # m
    BY <2>1, <2>2, <2>3, SendQueue DEF QueueInv
  <2>5. Placed(Elements(autoSend'), Elements(toAdd'), Elements(tasks'), writing', freeing, allocated)
    BY <2>2, <2>3, <2>4 DEF QueueInv, Placed
  <2>6. CloseInv'
    BY <2>1, <2>2, <2>4, Names DEF CloseInv
  <2>7. BufferInv'
    BY <2>2, <2>4 DEF QueueInv, BufferInv
  <2>8. EntriesKept
    BY <2>2, <2>4, Names DEF EntriesKept
  <2>. QED BY <2>1, <2>2, <2>4, <2>5, <2>6, <2>7, <2>8 DEF QueueInv
<1>. QED BY <1>1, <1>2, <1>3 DEF SendAllAdds

LEMMA StepQueue ==
  ASSUME TypeInv, QueueInv, CloseInv, LoginInv, [Next]_vars
  PROVE  /\ QueueInv' /\ CloseInv'
         /\ EntriesKept \/ \E answer \in FirstPacket \cup LaterPacket : ParsePacket(answer)
<1>1. CASE QuietStep
  BY <1>1, QuietSteps, QuietQueue
<1>2. CASE ~QuietStep /\ NetworkThread
  BY <1>2, PacketQueue, SendingQueue, BufferingQueue, WriteEndsQueue, Zenon
  DEF NetworkThread, QuietStep
<1>3. CASE ~QuietStep /\ DispatcherThread
  BY <1>3, SendingQueue, BufferingQueue, TaskQueue, SendAllQueue, Zenon
  DEF DispatcherThread, DispatcherTask, QuietStep
<1>. QED BY <1>1, <1>2, <1>3, Zenon DEF Next, QuietStep

-----------------------------------------------------------------------------
(* Who changes what.  connectionState only moves on, and only closeConnectionTask takes
   it past REQUEST_CLOSE. *)

Asked == connectionState = "OPEN" /\ connectionState' = "REQUEST_CLOSE"

Parsing == \E answer \in FirstPacket \cup LaterPacket : ParsePacket(answer)

LEMMA CloseAsks ==
  ASSUME NEW posted, Close(posted)
  PROVE  Asked \/ connectionState' = connectionState
  BY DEF Close, Asked

LEMMA NetworkFrame ==
  ASSUME NetworkThread
  PROVE  /\ UNCHANGED <<kind, client, connecting, dispatcherPc, freeing>>
         /\ receivedFirst => receivedFirst'
         /\ UNCHANGED <<protocol, linked>> \/ Parsing
         /\ UNCHANGED <<release, managed>> \/ StopOperation
         /\ connectionState' = connectionState \/ Asked
         /\ ioPc' = ioPc \/ ioPc # "idle" \/ Parsing
<1>. USE DEF stateVars, lifeVars, dispatcherVars
<1>0. CASE ParsePacketCloses
  <2>1. receivedFirst => receivedFirst'
    BY <1>0, Zenon DEF ParsePacketCloses
  <2>2. /\ UNCHANGED <<kind, client, connecting, dispatcherPc, freeing>>
        /\ UNCHANGED <<protocol, linked, release, managed, ioPc>>
        /\ connectionState' = connectionState \/ Asked
    BY <1>0, CloseAsks DEF ParsePacketCloses
  <2>. QED BY <2>1, <2>2
<1>1. CASE ReadFails \/ PacketCloses
  BY <1>1, CloseAsks DEF ReadFails, PacketCloses
<1>2. CASE \E tooMany \in BOOLEAN : ParseHeader(tooMany)
  BY <1>2, CloseAsks DEF ParseHeader
<1>3. CASE Parsing
  BY <1>3 DEF Parsing, ParsePacket
<1>4. CASE PacketReplies \/ PacketWrites \/ NeighbourWrites \/ PacketEnds
  BY <1>4 DEF PacketReplies, SendNew, PacketWrites, NeighbourWrites, PacketEnds
<1>5. CASE \E m \in Msgs, error \in BOOLEAN : WriteEnds(m, error)
  BY <1>5 DEF WriteEnds, CloseThenRelease, Asked
<1>6. CASE ReadTimerGoesOff \/ WriteTimerGoesOff \/ StopOperation
  BY <1>6 DEF ReadTimerGoesOff, WriteTimerGoesOff, StopOperation
<1>7. CASE ReadTimeout \/ WriteTimeout
  BY <1>7, CloseAsks DEF ReadTimeout, WriteTimeout, TimesOut
<1>. QED
  BY <1>0, <1>1, <1>2, <1>3, <1>4, <1>5, <1>6, <1>7, Zenon DEF NetworkThread, Parsing

LEMMA DispatcherFrame ==
  ASSUME DispatcherThread
  PROVE  /\ UNCHANGED <<kind, managed, receivedFirst, readError, readVars, ioPc>>
         /\ connecting' = connecting \/ LoginTask \/ ConnectEvent
         /\ protocol' = protocol \/ CloseConnectionTask \/ ReleaseProtocolEvent
         /\ linked' = linked \/ CloseConnectionTask
         /\ UNCHANGED <<release, ready>> \/ CloseConnectionTask \/ ReleaseConnectionEvent
         /\ connectionState' = connectionState \/ Asked \/ CloseConnectionTask
<1>. USE DEF stateVars, lifeVars, ioVars
<1>1. CASE OnConnectTask \/ DispatcherRefuses
  BY <1>1 DEF OnConnectTask, DispatcherRefuses, SendNew
<1>2. CASE CloseConnectionTask
  BY <1>2 DEF CloseConnectionTask
<1>3. CASE LoginTask \/ LogoutTask
  BY <1>3 DEF LoginTask, LogoutTask
<1>4. CASE (\E m \in Msgs : FreeMessageBegins(m)) \/ FreeMessageEnds
  BY <1>4 DEF FreeMessageBegins, FreeMessageEnds
<1>5. CASE ReleaseConnectionEvent \/ ReleaseProtocolEvent \/ ConnectEvent
  BY <1>5 DEF ReleaseConnectionEvent, ReleaseProtocolEvent, ConnectEvent
<1>6. CASE DispatcherCloses
  BY <1>6, CloseAsks DEF DispatcherCloses
<1>7. CASE GameWrites \/ GameKicks \/ GameRuns
  BY <1>7 DEF GameWrites, GameKicks, GameRuns
<1>8. CASE SendAllAdds \/ SendAllSends \/ SendAllEnds
  BY <1>8 DEF SendAllAdds, SendAllSends, SendAllEnds
<1>. QED
  BY <1>1, <1>2, <1>3, <1>4, <1>5, <1>6, <1>7, <1>8, Zenon
  DEF DispatcherThread, DispatcherTask

-----------------------------------------------------------------------------
(* The stages of closing. *)

PhaseInv ==
  /\ connectionState \in {"OPEN", "REQUEST_CLOSE"} =>
       protocol \in {"none", "live"} /\ release = "no"
  /\ connectionState \in {"CLOSING", "CLOSED"} =>
       /\ Elements(tasks) \cap Entries = {} /\ ~linked /\ ioPc = "idle"
       /\ protocol \in {"none", "releasing", "deleted"}
  /\ linked => protocol = "live"
  /\ protocol = "live" => linked
  /\ managed => release # "done"
  /\ release # "done" => managed
  /\ "stop" \in Elements(ready) => release \in {"posted", "done"}

LEMMA LoginStep ==
  ASSUME TypeInv, QueueInv, CloseInv, LoginInv, [Next]_vars
  PROVE  LoginInv'
<1>1. CASE UNCHANGED vars
  BY <1>1 DEF vars, stateVars, lifeVars, LoginInv
<1>2. CASE NetworkThread /\ ~Parsing
  <2>1. EntriesKept
    BY <1>2, StepQueue DEF Next, Parsing
  <2>2. connecting' = connecting /\ (receivedFirst => receivedFirst')
    BY <1>2, NetworkFrame
  <2>. QED BY <2>1, <2>2 DEF LoginInv, EntriesKept, Entries
<1>3. CASE Parsing
  <2>1. receivedFirst' /\ connecting' = connecting
    BY <1>3 DEF Parsing, ParsePacket
  <2>2. ASSUME receivedFirst PROVE "login" \in Elements(tasks') => "login" \in Elements(tasks)
    <3>1. tasks' = tasks \/ tasks' = Append(tasks, "logout")
      BY <1>3, <2>2 DEF Parsing, ParsePacket, PostTo
    <3>2. Elements(Append(tasks, "logout")) = Elements(tasks) \cup {"logout"}
      BY Appended, Names, Unchanged DEF TaskTypes, Entries
    <3>3. Elements(tasks') \subseteq Elements(tasks) \cup {"logout"}
      BY <3>1, <3>2, Zenon
    <3>. QED BY <3>3
  <2>. QED BY <2>1, <2>2 DEF LoginInv
<1>4. CASE DispatcherThread /\ ~LoginTask
  <2>1. EntriesKept
    <3>1. ~Parsing
      <4>1. UNCHANGED receivedFirst /\ ioPc' = ioPc
        BY <1>4, DispatcherFrame
      <4>2. Parsing => ioPc = "idle" /\ ioPc' # "idle"
        BY DEF Parsing, ParsePacket, PostTo, ConnectionLockFree, FirstPacket, LaterPacket
      <4>. QED BY <4>1, <4>2
    <3>. QED BY <1>4, <3>1, StepQueue DEF Next, Parsing
  <2>2. receivedFirst' = receivedFirst /\ (connecting' = connecting \/ ConnectEvent)
    BY <1>4, DispatcherFrame
  <2>3. ConnectEvent => ~connecting'
    BY DEF ConnectEvent
  <2>. QED BY <2>1, <2>2, <2>3 DEF LoginInv, EntriesKept, Entries
<1>5. CASE LoginTask
  <2>1. /\ tasks # <<>> /\ Head(tasks) = "login" /\ tasks' = Tail(tasks)
        /\ receivedFirst' = receivedFirst
    BY <1>5 DEF LoginTask, Takes, stateVars
  <2>2. "login" \in Elements(tasks) /\ "login" \notin Elements(tasks')
    BY <2>1, GoodTasksChanges DEF QueueInv
  <2>. QED BY <2>1, <2>2 DEF LoginInv
<1>. QED BY <1>1, <1>2, <1>3, <1>4, <1>5, Zenon DEF Next

LEMMA ReadyStep ==
  ASSUME TypeInv, PhaseInv, CloseInv, QueueInv, [Next]_vars
  PROVE  "stop" \in Elements(ready') => "stop" \in Elements(ready) \/ release' = "posted"
<1>0. ready \in Seq(Handlers)
  BY Unchanged DEF ReadyType
<1>1. ASSUME NEW x \in Handlers
      PROVE  Elements(Append(ready, x)) = Elements(ready) \cup {x}
  BY <1>0, Appended
<1>2. ready # <<>> => Elements(Tail(ready)) \subseteq Elements(ready)
  BY <1>0, Taken
<1>3. CASE ready' = ready
  BY <1>3
<1>4. CASE ready # <<>> /\ ready' = Tail(ready)
  BY <1>2, <1>4
<1>5. CASE ReadTimerGoesOff \/ WriteTimerGoesOff
  BY <1>1, <1>5 DEF ReadTimerGoesOff, WriteTimerGoesOff, Handlers
<1>6. CASE ReleaseConnection
  BY <1>3, <1>6 DEF ReleaseConnection
<1>7. CASE UNCHANGED vars
  BY <1>3, <1>7 DEF vars, ioVars
<1>8. CASE NetworkThread
  <2>1. CASE ReadTimeout \/ WriteTimeout \/ StopOperation
    BY <1>4, <2>1 DEF ReadTimeout, WriteTimeout, StopOperation, Runs
  <2>2. CASE \/ ReadFails
             \/ \E tooMany \in BOOLEAN : ParseHeader(tooMany)
             \/ ParsePacketCloses \/ PacketCloses \/ PacketEnds
    BY <1>3, <2>2 DEF ReadFails, ParseHeader, ParsePacketCloses, PacketCloses, PacketEnds
  <2>3. CASE \/ Parsing \/ PacketReplies \/ PacketWrites \/ NeighbourWrites
             \/ \E m \in Msgs, error \in BOOLEAN : WriteEnds(m, error)
    BY <1>3, <2>3 DEF Parsing, ParsePacket, PacketReplies, SendNew, PacketWrites, NeighbourWrites, WriteEnds
  <2>. QED BY <1>5, <1>8, <2>1, <2>2, <2>3, Zenon DEF NetworkThread, Parsing
<1>9. CASE DispatcherThread
  <2>1. CASE CloseConnectionTask \/ ReleaseConnectionEvent
    BY <1>3, <1>6, <2>1 DEF CloseConnectionTask, ReleaseConnectionEvent
  <2>. QED BY <1>3, <1>9, <2>1, DispatcherFrame
<1>. QED BY <1>7, <1>8, <1>9 DEF Next

LEMMA PhaseStep ==
  ASSUME TypeInv, QueueInv, CloseInv, LoginInv, PhaseInv, [Next]_vars
  PROVE  PhaseInv'
<1>1. connectionState \in ConnectionState /\ release \in {"no", "event", "posted", "done"}
  BY Unchanged DEF StateTypes, LifeTypes
<1>2. CASE UNCHANGED vars
  BY <1>2 DEF vars, stateVars, lifeVars, ioVars, PhaseInv
<1>3. CASE NetworkThread /\ ~Parsing
  <2>1. /\ EntriesKept /\ UNCHANGED <<protocol, linked>>
        /\ connectionState' = connectionState \/ Asked
        /\ ioPc' = ioPc \/ ioPc # "idle"
        /\ UNCHANGED <<release, managed>> \/ StopOperation
    BY <1>3, StepQueue, NetworkFrame DEF Next, Parsing
  <2>2. CASE ~StopOperation
    BY <1>1, <2>1, <2>2, ReadyStep
    DEF PhaseInv, EntriesKept, Asked, ConnectionState
  <2>3. CASE StopOperation
    <3>1. ready # <<>> /\ Head(ready) = "stop" /\ release' = "done" /\ managed' = FALSE
      BY <2>3 DEF StopOperation, Runs
    <3>2. "stop" \in Elements(ready)
      BY <3>1, Taken, Unchanged DEF ReadyType
    <3>3. connectionState \in {"CLOSING", "CLOSED"}
      BY <1>1, <3>2 DEF PhaseInv, ConnectionState
    <3>. QED BY <2>1, <3>1, <3>3 DEF PhaseInv, EntriesKept, Asked
  <2>. QED BY <2>2, <2>3
<1>4. CASE Parsing
  <2>1. /\ connectionState = "OPEN" /\ UNCHANGED <<connectionState, release, managed, ready>>
        /\ UNCHANGED <<protocol, linked>> \/ (protocol' = "live" /\ linked' = TRUE)
    BY <1>4 DEF Parsing, ParsePacket
  <2>. QED BY <2>1 DEF PhaseInv
<1>5. CASE DispatcherThread /\ ~CloseConnectionTask
  <2>1. EntriesKept
    <3>1. Parsing => ioPc = "idle" /\ ioPc' # "idle"
      BY DEF Parsing, ParsePacket, PostTo, ConnectionLockFree, FirstPacket, LaterPacket
    <3>. QED BY <1>5, <3>1, DispatcherFrame, StepQueue DEF Next, Parsing
  <2>2. /\ UNCHANGED <<managed, linked, ioPc>>
        /\ protocol' = protocol \/ ReleaseProtocolEvent
        /\ release' = release \/ ReleaseConnectionEvent
        /\ connectionState' = connectionState \/ Asked
    BY <1>5, DispatcherFrame
  <2>3. ReleaseProtocolEvent => protocol = "releasing" /\ protocol' \in {"releasing", "deleted"}
    BY DEF ReleaseProtocolEvent, ReleaseProtocol
  <2>4. ReleaseConnectionEvent => release = "event" /\ release' \in {"event", "posted"}
    BY DEF ReleaseConnectionEvent, ReleaseConnection
  <2>5. "stop" \in Elements(ready') => release' \in {"posted", "done"}
    BY <2>2, <2>4, ReadyStep DEF PhaseInv
  <2>. QED
    BY <1>1, <2>1, <2>2, <2>3, <2>4, <2>5
    DEF PhaseInv, EntriesKept, Asked, ConnectionState
<1>6. CASE CloseConnectionTask
  <2>1. /\ tasks # <<>> /\ Head(tasks) = "close" /\ tasks' = Tail(tasks)
        /\ ioPc = "idle" /\ UNCHANGED <<managed, ioPc>>
        /\ connectionState' \in {"CLOSED", "CLOSING"}
    BY <1>6 DEF CloseConnectionTask, Takes, ConnectionLockFree
  <2>2. "close" \in Elements(tasks) /\ Elements(tasks') \cap Entries = {}
    BY <2>1, GoodTasksChanges DEF QueueInv
  <2>3. protocol \in {"none", "live"} /\ release = "no"
    BY <2>2 DEF CloseInv, PhaseInv
  <2>4. /\ ~linked' /\ protocol' \in {"none", "releasing", "deleted"}
    BY <1>6, <2>3 DEF CloseConnectionTask, ReleaseProtocol, PhaseInv
  <2>5. release' \in {"no", "event", "posted"}
    BY <1>6, <2>3 DEF CloseConnectionTask, ReleaseConnection
  <2>6. "stop" \in Elements(ready') => release' \in {"posted", "done"}
    BY <2>3, ReadyStep DEF PhaseInv
  <2>. QED BY <2>1, <2>2, <2>3, <2>4, <2>5, <2>6 DEF PhaseInv
<1>. QED BY <1>2, <1>3, <1>4, <1>5, <1>6, Zenon DEF Next

-----------------------------------------------------------------------------
(* The counters: who changes them, and that a lost update stays known. *)

CountInv == Counted

LEMMA RefChange ==
  ASSUME [Next]_vars
  PROVE  \/ UNCHANGED refVars /\ connecting' = connecting
         \/ (\E m \in Msgs, racing \in BOOLEAN : Allocate(m, racing)) /\ connecting' = connecting
         \/ FreeMessageEnds \/ LoginTask \/ ConnectEvent
<1>. USE DEF lifeVars
<1>1. CASE UNCHANGED vars
  BY <1>1 DEF vars
<1>2. ASSUME NEW racing \in BOOLEAN, NEW posted, SendNew(racing, posted)
      PROVE  \/ UNCHANGED refVars
             \/ \E m \in Msgs, r \in BOOLEAN : Allocate(m, r)
  BY <1>2, Zenon DEF SendNew
<1>3. ASSUME NEW racing \in BOOLEAN, NEW posted, SendNew(racing, posted)
      PROVE  connecting' = connecting
  BY <1>3 DEF SendNew
<1>4. ASSUME NEW racing \in BOOLEAN, Buffer(racing)
      PROVE  \/ UNCHANGED refVars
             \/ \E m \in Msgs, r \in BOOLEAN : Allocate(m, r)
  BY <1>4, Zenon DEF Buffer
<1>5. (dispatcherPc = "unref") \in BOOLEAN
  OBVIOUS
<1>6. CASE PacketReplies \/ OnConnectTask \/ DispatcherRefuses
  BY <1>2, <1>3, <1>5, <1>6 DEF PacketReplies, OnConnectTask, DispatcherRefuses
<1>7. CASE PacketWrites \/ NeighbourWrites \/ GameWrites
  BY <1>4, <1>5, <1>7 DEF PacketWrites, NeighbourWrites, GameWrites
<1>8. CASE NetworkThread /\ ~(PacketReplies \/ PacketWrites \/ NeighbourWrites)
  <2>1. connecting' = connecting
    BY <1>8, NetworkFrame
  <2>2. CASE ReadFails \/ ParsePacketCloses \/ PacketCloses \/ PacketEnds
    BY <2>1, <2>2 DEF ReadFails, ParsePacketCloses, PacketCloses, PacketEnds
  <2>3. CASE \/ \E tooMany \in BOOLEAN : ParseHeader(tooMany)
             \/ Parsing
             \/ \E m \in Msgs, error \in BOOLEAN : WriteEnds(m, error)
    BY <2>1, <2>3 DEF ParseHeader, Parsing, ParsePacket, WriteEnds
  <2>4. CASE \/ ReadTimerGoesOff \/ WriteTimerGoesOff
             \/ ReadTimeout \/ WriteTimeout \/ StopOperation
    BY <2>1, <2>4
    DEF ReadTimerGoesOff, WriteTimerGoesOff, ReadTimeout, WriteTimeout, StopOperation
  <2>. QED BY <1>8, <2>2, <2>3, <2>4, Zenon DEF NetworkThread, Parsing
<1>9. CASE DispatcherThread /\ ~(OnConnectTask \/ DispatcherRefuses \/ GameWrites)
  <2>1. CASE \/ LogoutTask \/ CloseConnectionTask \/ ReleaseConnectionEvent
             \/ ReleaseProtocolEvent
             \/ \E m \in Msgs : FreeMessageBegins(m)
    BY <2>1
    DEF LogoutTask, CloseConnectionTask, FreeMessageBegins, ReleaseConnectionEvent,
        ReleaseProtocolEvent
  <2>2. CASE DispatcherCloses \/ GameKicks \/ GameRuns
    BY <2>2 DEF DispatcherCloses, GameKicks, GameRuns
  <2>3. CASE SendAllAdds \/ SendAllSends \/ SendAllEnds
    BY <2>3 DEF SendAllAdds, SendAllSends, SendAllEnds
  <2>. QED BY <1>9, <2>1, <2>2, <2>3, Zenon DEF DispatcherThread, DispatcherTask
<1>. QED BY <1>1, <1>6, <1>7, <1>8, <1>9, Zenon DEF Next

LEMMA TornStays == [Next]_vars /\ torn => torn'
<1>. SUFFICES ASSUME [Next]_vars, torn PROVE torn'
  OBVIOUS
<1>1. CASE UNCHANGED refVars
  BY <1>1 DEF refVars
<1>2. CASE \E m \in Msgs, racing \in BOOLEAN : Allocate(m, racing)
  BY <1>2, Zenon DEF Allocate, Count
<1>3. CASE FreeMessageEnds \/ LoginTask \/ ConnectEvent
  BY <1>3 DEF FreeMessageEnds, LoginTask, ConnectEvent
<1>. QED BY <1>1, <1>2, <1>3, RefChange

LEMMA CountStep ==
  ASSUME TypeInv, QueueInv, LoginInv, CountInv, [Next]_vars
  PROVE  CountInv'
<1>. SUFFICES ASSUME ~torn'
     PROVE  /\ connRefs' = Cardinality(allocated')
            /\ protoRefs' = Cardinality(allocated') + (IF connecting' THEN 1 ELSE 0)
  BY DEF CountInv, Counted
<1>1. /\ ~torn /\ connRefs = Cardinality(allocated)
      /\ protoRefs = Cardinality(allocated) + (IF connecting THEN 1 ELSE 0)
  BY TornStays DEF CountInv, Counted
<1>2. /\ IsFiniteSet(allocated) /\ Cardinality(allocated) \in Nat
      /\ connecting \in BOOLEAN
  BY ConnectionAssumption, Unchanged, FS_Subset, FS_CardinalityType DEF RefTypes, LifeTypes
<1>3. CASE UNCHANGED refVars /\ connecting' = connecting
  BY <1>1, <1>3 DEF refVars
<1>4. CASE (\E m \in Msgs, racing \in BOOLEAN : Allocate(m, racing)) /\ connecting' = connecting
  <2>1. PICK m \in Msgs, racing \in BOOLEAN : Allocate(m, racing)
    BY <1>4
  <2>2. m \notin allocated /\ allocated' = allocated \cup {m} /\ Count(racing)
    BY <2>1 DEF Allocate
  <2>3. Cardinality(allocated') = Cardinality(allocated) + 1
    BY <1>2, <2>2, FS_AddElement
  <2>4. PICK p \in 0..2, c \in 0..2 :
          /\ protoRefs' = protoRefs + p /\ connRefs' = connRefs + c
          /\ torn' = (torn \/ p # 1 \/ c # 1)
    <3>1. (IF racing /\ ~torn THEN 0..2 ELSE {1}) \subseteq 0..2
      OBVIOUS
    <3>. QED BY <2>2, <3>1 DEF Count
  <2>5. p = 1 /\ c = 1
    BY <2>4, Zenon
  <2>. QED BY <1>1, <1>2, <1>4, <2>3, <2>4, <2>5
<1>5. CASE FreeMessageEnds
  <2>1. /\ dispatcherPc = "unref" /\ allocated' = allocated \ {freeing}
        /\ protoRefs' = protoRefs - 1 /\ connRefs' = connRefs - 1
        /\ connecting' = connecting
    BY <1>5 DEF FreeMessageEnds, lifeVars
  <2>2. freeing \in allocated
    BY <2>1, Unchanged DEF FreeInv, DispatcherTypes, QueueInv, Placed
  <2>3. Cardinality(allocated') = Cardinality(allocated) - 1
    BY <1>2, <2>1, <2>2, FS_RemoveElement
  <2>. QED BY <1>1, <1>2, <2>1, <2>3
<1>6. CASE LoginTask
  <2>1. tasks # <<>> /\ Head(tasks) = "login"
    BY <1>6 DEF LoginTask, Takes
  <2>2. ~connecting
    BY <2>1, GoodTasksChanges DEF QueueInv, LoginInv
  <2>3. /\ connRefs' = connRefs /\ allocated' = allocated
        /\ \/ UNCHANGED <<connecting, protoRefs>>
           \/ connecting' = TRUE /\ protoRefs' = protoRefs + 1
    BY <1>6 DEF LoginTask
  <2>. QED BY <1>1, <1>2, <2>2, <2>3
<1>7. CASE ConnectEvent
  <2>1. /\ connecting /\ connecting' = FALSE /\ protoRefs' = protoRefs - 1
        /\ connRefs' = connRefs /\ allocated' = allocated
    BY <1>7 DEF ConnectEvent
  <2>. QED BY <1>1, <1>2, <2>1
<1>. QED BY <1>3, <1>4, <1>5, <1>6, <1>7, RefChange

-----------------------------------------------------------------------------
(* The end of the protocol: what may still use it has gone when it is deleted, and
   nothing comes back. *)

EndInv ==
  protocol = "deleted" /\ ~torn =>
    allocated = {} /\ ~connecting /\ ~client /\ dispatcherPc \notin {"refuse", "disconnect"}

LEMMA ClientChange ==
  ASSUME [Next]_vars
  PROVE  /\ client' => client \/ LoginTask \/ ConnectEvent
         /\ dispatcherPc' \in {"refuse", "disconnect"} =>
              \/ dispatcherPc \in {"refuse", "disconnect"}
              \/ LoginTask \/ ConnectEvent \/ LogoutTask \/ client
<1>. USE DEF lifeVars, dispatcherVars, Finish
<1>1. CASE UNCHANGED vars
  BY <1>1 DEF vars
<1>2. CASE NetworkThread
  BY <1>2, NetworkFrame
<1>0. ASSUME UNCHANGED lifeVars PROVE client' = client
  BY <1>0
<1>. HIDE DEF lifeVars, dispatcherVars
<1>3. CASE OnConnectTask \/ DispatcherRefuses
  <2>1. UNCHANGED lifeVars
    BY <1>3, Zenon DEF OnConnectTask, DispatcherRefuses, SendNew
  <2>2. dispatcherPc' = "addQueued" \/ dispatcherPc = "refuse"
    BY <1>3 DEF OnConnectTask, DispatcherRefuses
  <2>. QED BY <1>0, <2>1, <2>2
<1>. USE DEF lifeVars, dispatcherVars
<1>4. CASE CloseConnectionTask
  BY <1>4 DEF CloseConnectionTask
<1>5. CASE LogoutTask
  BY <1>5 DEF LogoutTask
<1>6. CASE (\E m \in Msgs : FreeMessageBegins(m)) \/ FreeMessageEnds
  BY <1>6 DEF FreeMessageBegins, FreeMessageEnds
<1>7. CASE ReleaseConnectionEvent \/ ReleaseProtocolEvent
  BY <1>7 DEF ReleaseConnectionEvent, ReleaseProtocolEvent
<1>8. CASE DispatcherCloses \/ GameWrites \/ GameKicks \/ GameRuns
  <2>1. client' = client
    BY <1>8 DEF DispatcherCloses, GameWrites, GameKicks, GameRuns
  <2>2. dispatcherPc' = "addQueued" \/ client
    BY <1>8 DEF DispatcherCloses, GameWrites, GameKicks, GameRuns
  <2>. QED BY <2>1, <2>2
<1>9. CASE SendAllAdds \/ SendAllSends \/ SendAllEnds
  BY <1>9 DEF SendAllAdds, SendAllSends, SendAllEnds
<1>. QED
  BY <1>1, <1>2, <1>3, <1>4, <1>5, <1>6, <1>7, <1>8, <1>9, Zenon
  DEF Next, DispatcherThread, DispatcherTask

LEMMA ProtocolChange ==
  ASSUME [Next]_vars, protocol' # protocol
  PROVE  \/ protocol' = "live"
         \/ /\ ReleaseProtocol /\ ~client' /\ dispatcherPc' = "addQueued"
            /\ UNCHANGED refVars /\ connecting' = connecting
<1>1. CASE UNCHANGED vars
  BY <1>1 DEF vars, lifeVars
<1>2. CASE NetworkThread
  <2>1. Parsing
    BY <1>2, NetworkFrame
  <2>. QED BY <2>1 DEF Parsing, ParsePacket
<1>3. CASE DispatcherThread
  <2>1. CloseConnectionTask \/ ReleaseProtocolEvent
    BY <1>3, DispatcherFrame
  <2>2. CASE CloseConnectionTask
    BY <2>2 DEF CloseConnectionTask, Finish
  <2>3. CASE ReleaseProtocolEvent
    BY <2>3 DEF ReleaseProtocolEvent, Finish
  <2>. QED BY <2>1, <2>2, <2>3
<1>. QED BY <1>1, <1>2, <1>3 DEF Next

LEMMA NobodyLeft ==
  ASSUME TypeInv, CountInv, ~torn
  PROVE  /\ connRefs = 0 => allocated = {}
         /\ protoRefs = 0 => allocated = {} /\ ~connecting
<1>1. /\ IsFiniteSet(allocated) /\ Cardinality(allocated) \in Nat /\ connecting \in BOOLEAN
  BY ConnectionAssumption, Unchanged, FS_Subset, FS_CardinalityType DEF RefTypes, LifeTypes
<1>2. Cardinality(allocated) = 0 <=> allocated = {}
  BY <1>1, FS_EmptySet
<1>. QED BY <1>1, <1>2 DEF CountInv, Counted

LEMMA ClosedQuiet ==
  ASSUME TypeInv, QueueInv, PhaseInv, connectionState \notin {"OPEN", "REQUEST_CLOSE"}
  PROVE  /\ ~linked /\ ioPc = "idle" /\ Elements(tasks) \cap Entries = {}
         /\ ~LoginTask /\ ~LogoutTask
         /\ \A m \in Msgs, racing \in BOOLEAN : ~Allocate(m, racing)
<1>1. /\ ~linked /\ ioPc = "idle" /\ Elements(tasks) \cap Entries = {}
  BY Unchanged DEF PhaseInv, StateTypes, ConnectionState
<1>2. ASSUME tasks # <<>> PROVE Head(tasks) \notin {"login", "logout"}
  <2>1. Head(tasks) \in Elements(tasks)
    BY <1>2, GoodTasksChanges DEF QueueInv
  <2>. QED BY <1>1, <2>1 DEF Entries
<1>3. ~LoginTask /\ ~LogoutTask
  BY <1>2 DEF LoginTask, LogoutTask, Takes
<1>4. \A m \in Msgs, racing \in BOOLEAN : ~Allocate(m, racing)
  BY <1>1 DEF Allocate
<1>. QED BY <1>1, <1>3, <1>4

LEMMA EndStep ==
  ASSUME TypeInv, QueueInv, LoginInv, PhaseInv, CountInv, EndInv, [Next]_vars
  PROVE  EndInv'
<1>1. SUFFICES ASSUME protocol' = "deleted", ~torn'
               PROVE  /\ allocated' = {} /\ ~connecting' /\ ~client'
                      /\ dispatcherPc' \notin {"refuse", "disconnect"}
  BY DEF EndInv
<1>2. ~torn
  BY <1>1, TornStays
<1>3. CASE protocol # "deleted"
  <2>1. /\ ReleaseProtocol /\ ~client' /\ dispatcherPc' = "addQueued"
        /\ allocated' = allocated /\ connecting' = connecting
    BY <1>1, <1>3, ProtocolChange DEF refVars
  <2>2. protoRefs = 0
    BY <1>1, <2>1 DEF ReleaseProtocol
  <2>. QED BY <1>2, <2>1, <2>2, NobodyLeft
<1>4. CASE protocol = "deleted"
  <2>1. /\ allocated = {} /\ ~connecting /\ ~client
        /\ dispatcherPc \notin {"refuse", "disconnect"}
    BY <1>2, <1>4 DEF EndInv
  <2>2. connectionState \notin {"OPEN", "REQUEST_CLOSE"}
    BY <1>4 DEF PhaseInv
  <2>3. ~ConnectEvent
    BY <2>1 DEF ConnectEvent
  <2>4. ~client' /\ dispatcherPc' \notin {"refuse", "disconnect"}
    BY <2>1, <2>2, <2>3, ClientChange, ClosedQuiet
  <2>5. \/ UNCHANGED refVars /\ connecting' = connecting
        \/ FreeMessageEnds
    BY <2>2, <2>3, RefChange, ClosedQuiet
  <2>6. FreeMessageEnds => allocated' = allocated \ {freeing} /\ connecting' = connecting
    BY DEF FreeMessageEnds, lifeVars
  <2>. QED BY <2>1, <2>4, <2>5, <2>6 DEF refVars
<1>. QED BY <1>3, <1>4

-----------------------------------------------------------------------------
(* The end of the socket: a closed one has no read pending, and when it is deleted no
   write is under way and no handler of the write timer is to come. *)

ReadInv ==
  /\ ioPc # "idle" => reading = Nobody
  /\ readError => reading = Nobody /\ ioPc = "idle"
  /\ release # "no" => socket # "open"
  /\ socket # "open" => pendingRead = 0
  /\ socket = "deleted" => release = "done"

WriteEndInv ==
  /\ writeTimer => writing # {}
  /\ ~torn =>
       /\ release \in {"posted", "done"} => allocated = {}
       /\ Closes(ready, "stop", {"writeTimeout"})
       /\ release = "done" => "writeTimeout" \notin Elements(ready)

LEMMA SocketChange ==
  ASSUME [Next]_vars
  PROVE  \/ UNCHANGED <<socket, pendingRead>>
         \/ CloseSocket
         \/ StopOperation /\ socket' = "deleted" /\ pendingRead' = pendingRead
<1>. USE DEF stateVars
<1>1. CASE UNCHANGED vars
  BY <1>1 DEF vars
<1>2. ASSUME NEW racing, NEW posted, SendNew(racing, posted)
      PROVE  UNCHANGED <<socket, pendingRead>>
  BY <1>2 DEF SendNew
<1>3. CASE PacketReplies \/ OnConnectTask \/ DispatcherRefuses
  BY <1>2, <1>3, Zenon DEF PacketReplies, OnConnectTask, DispatcherRefuses
<1>4. CASE NetworkThread /\ ~PacketReplies
  <2>1. CASE ReadFails \/ ParsePacketCloses \/ PacketCloses \/ PacketEnds \/ PacketWrites \/ NeighbourWrites
    BY <2>1 DEF ReadFails, ParsePacketCloses, PacketCloses, PacketEnds, PacketWrites, NeighbourWrites
  <2>2. CASE (\E tooMany \in BOOLEAN : ParseHeader(tooMany)) \/ Parsing
    BY <2>2 DEF ParseHeader, Parsing, ParsePacket
  <2>3. CASE \E m \in Msgs, error \in BOOLEAN : WriteEnds(m, error)
    BY <2>3, Zenon DEF WriteEnds
  <2>4. CASE ReadTimerGoesOff \/ WriteTimerGoesOff
    BY <2>4 DEF ReadTimerGoesOff, WriteTimerGoesOff
  <2>5. CASE ReadTimeout \/ WriteTimeout
    BY <2>5, Zenon DEF ReadTimeout, WriteTimeout, TimesOut
  <2>6. CASE StopOperation
    BY <2>6 DEF StopOperation
  <2>. QED
    BY <1>4, <2>1, <2>2, <2>3, <2>4, <2>5, <2>6, Zenon DEF NetworkThread, Parsing
<1>5. CASE DispatcherThread /\ ~(OnConnectTask \/ DispatcherRefuses)
  <2>1. CASE CloseConnectionTask
    BY <2>1, Zenon DEF CloseConnectionTask
  <2>2. CASE LoginTask \/ LogoutTask \/ \E m \in Msgs : FreeMessageBegins(m)
    BY <2>2 DEF LoginTask, LogoutTask, FreeMessageBegins
  <2>3. CASE \/ FreeMessageEnds \/ ReleaseConnectionEvent
             \/ ReleaseProtocolEvent \/ ConnectEvent
    BY <2>3 DEF FreeMessageEnds, ReleaseConnectionEvent, ReleaseProtocolEvent, ConnectEvent
  <2>4. CASE DispatcherCloses \/ GameWrites \/ GameKicks \/ GameRuns
    BY <2>4 DEF DispatcherCloses, GameWrites, GameKicks, GameRuns
  <2>5. CASE SendAllAdds \/ SendAllSends \/ SendAllEnds
    BY <2>5 DEF SendAllAdds, SendAllSends, SendAllEnds
  <2>. QED BY <1>5, <2>1, <2>2, <2>3, <2>4, <2>5, Zenon DEF DispatcherThread, DispatcherTask
<1>. QED BY <1>1, <1>3, <1>4, <1>5, Zenon DEF Next

LEMMA ReleaseChange ==
  ASSUME [Next]_vars
  PROVE  \/ UNCHANGED <<release, ready>>
         \/ UNCHANGED release /\ (ReadTimerGoesOff \/ WriteTimerGoesOff)
         \/ UNCHANGED release /\ (ReadTimeout \/ WriteTimeout)
         \/ StopOperation
         \/ ReleaseConnection /\ UNCHANGED refVars
            /\ ((CloseConnectionTask /\ CloseSocket) \/ release = "event")
<1>. USE DEF lifeVars, ioVars
<1>1. CASE UNCHANGED vars
  BY <1>1 DEF vars
<1>2. CASE NetworkThread
  <2>1. UNCHANGED <<release, managed>> \/ StopOperation
    BY <1>2, NetworkFrame
  <2>2. CASE \/ ReadFails \/ ParsePacketCloses \/ PacketCloses \/ PacketEnds
             \/ \E tooMany \in BOOLEAN : ParseHeader(tooMany)
    BY <2>2 DEF ReadFails, ParsePacketCloses, PacketCloses, PacketEnds, ParseHeader
  <2>3. CASE \/ Parsing \/ PacketReplies \/ PacketWrites \/ NeighbourWrites
             \/ \E m \in Msgs, error \in BOOLEAN : WriteEnds(m, error)
    BY <2>3 DEF Parsing, ParsePacket, PacketReplies, SendNew, PacketWrites, NeighbourWrites, WriteEnds
  <2>4. CASE \/ ReadTimerGoesOff \/ WriteTimerGoesOff \/ ReadTimeout \/ WriteTimeout
    BY <2>4 DEF ReadTimerGoesOff, WriteTimerGoesOff, ReadTimeout, WriteTimeout
  <2>. QED BY <1>2, <2>1, <2>2, <2>3, <2>4, Zenon DEF NetworkThread, Parsing
<1>3. CASE DispatcherThread
  <2>1. CASE CloseConnectionTask
    BY <2>1, Zenon DEF CloseConnectionTask
  <2>2. CASE ReleaseConnectionEvent
    BY <2>2 DEF ReleaseConnectionEvent
  <2>. QED BY <1>3, <2>1, <2>2, DispatcherFrame
<1>. QED BY <1>1, <1>2, <1>3 DEF Next

LEMMA ReadStep ==
  ASSUME TypeInv, CloseInv, PhaseInv, ReadInv, [Next]_vars
  PROVE  ReadInv'
<1>1. /\ ioPc' # "idle" => reading' = Nobody
      /\ readError' => reading' = Nobody /\ ioPc' = "idle"
  <2>. USE DEF ReadInv, stateVars, ioVars, readVars, ConnectionLockFree
  <2>1. CASE UNCHANGED vars
    BY <2>1 DEF vars
  <2>2. CASE DispatcherThread
    BY <2>2, DispatcherFrame
  <2>3. CASE ReadFails \/ ParsePacketCloses
    BY <2>3 DEF ReadFails, ParsePacketCloses
  <2>4. CASE (\E tooMany \in BOOLEAN : ParseHeader(tooMany))
    BY <2>4 DEF ParseHeader
  <2>5. CASE Parsing
    BY <2>5 DEF Parsing, ParsePacket
  <2>6. CASE PacketReplies \/ PacketWrites \/ NeighbourWrites
    BY <2>6 DEF PacketReplies, SendNew, PacketWrites, NeighbourWrites
  <2>7. CASE PacketCloses \/ PacketEnds
    BY <2>7 DEF PacketCloses, PacketEnds
  <2>8. CASE \E m \in Msgs, error \in BOOLEAN : WriteEnds(m, error)
    BY <2>8 DEF WriteEnds
  <2>9. CASE ReadTimerGoesOff \/ WriteTimerGoesOff
    BY <2>9 DEF ReadTimerGoesOff, WriteTimerGoesOff
  <2>10. CASE ReadTimeout \/ WriteTimeout \/ StopOperation
    BY <2>10 DEF ReadTimeout, WriteTimeout, StopOperation
  <2>. QED
    BY <2>1, <2>2, <2>3, <2>4, <2>5, <2>6, <2>7, <2>8, <2>9, <2>10, Zenon
    DEF Next, NetworkThread, Parsing
<1>2. StopOperation => release \in {"posted", "done"} /\ release' = "done"
  <2>1. StopOperation => "stop" \in Elements(ready)
    BY Taken, Unchanged DEF StopOperation, Runs, ReadyType
  <2>2. StopOperation => release' = "done"
    BY DEF StopOperation
  <2>. QED BY <2>1, <2>2 DEF PhaseInv
<1>3. /\ socket' # "open" => socket # "open" \/ CloseSocket \/ StopOperation
      /\ socket' # "open" => pendingRead' = 0
      /\ socket # "open" => socket' # "open"
      /\ CloseSocket => socket' # "open" /\ (socket' = "deleted" => socket = "deleted")
      /\ socket' = "deleted" => socket = "deleted" \/ StopOperation
  <2>1. CASE UNCHANGED <<socket, pendingRead>>
    BY <2>1 DEF ReadInv, CloseSocket
  <2>2. CASE CloseSocket
    BY <2>2 DEF ReadInv, CloseSocket
  <2>3. CASE StopOperation /\ socket' = "deleted" /\ pendingRead' = pendingRead
    BY <1>2, <2>3 DEF ReadInv, CloseSocket
  <2>. QED BY <2>1, <2>2, <2>3, SocketChange
<1>4. /\ release' # "no" => release # "no" \/ CloseSocket
      /\ release = "done" => release' = "done" \/ ReleaseConnection
  BY <1>2, ReleaseChange
<1>5. release = "done" => release' = "done"
  <2>1. CASE ReleaseConnection /\ (CloseConnectionTask \/ release = "event")
    <3>1. CloseConnectionTask => release = "no"
      <4>1. CloseConnectionTask => "close" \in Elements(tasks)
        BY Taken, Unchanged DEF CloseConnectionTask, Takes, TaskTypes
      <4>. QED BY <4>1 DEF CloseInv, PhaseInv
    <3>. QED BY <2>1, <3>1
  <2>. QED BY <1>2, <2>1, ReleaseChange
<1>. QED BY <1>1, <1>2, <1>3, <1>4, <1>5 DEF ReadInv

LEMMA WriteTimerStep ==
  ASSUME writeTimer => writing # {}, [Next]_vars
  PROVE  writeTimer' => writing' # {}
<1>. USE DEF writeVars, ioVars
<1>1. CASE UNCHANGED vars
  BY <1>1 DEF vars
<1>2. ASSUME NEW m, NEW posted, Send(m, posted)
      PROVE  UNCHANGED writeVars \/ writing' = writing \cup {m}
  BY <1>2 DEF Send
<1>3. ASSUME NEW racing, NEW posted, SendNew(racing, posted)
      PROVE  UNCHANGED writeVars \/ writing' # {}
  <2>1. CASE \E m \in Msgs : Send(m, posted)
    BY <1>2, <2>1
  <2>2. CASE UNCHANGED <<writing, writeTimer>>
    BY <2>2
  <2>. QED BY <1>3, <2>1, <2>2 DEF SendNew
<1>4. CASE PacketReplies \/ OnConnectTask \/ DispatcherRefuses
  <2>1. \E racing, posted : SendNew(racing, posted)
    BY <1>4, Zenon DEF PacketReplies, OnConnectTask, DispatcherRefuses
  <2>. QED BY <1>3, <2>1
<1>5. CASE NetworkThread /\ ~PacketReplies
  <2>1. CASE ReadFails \/ ParsePacketCloses \/ PacketCloses \/ PacketEnds \/ PacketWrites \/ NeighbourWrites
    BY <2>1 DEF ReadFails, ParsePacketCloses, PacketCloses, PacketEnds, PacketWrites, NeighbourWrites
  <2>2. CASE (\E tooMany \in BOOLEAN : ParseHeader(tooMany)) \/ Parsing
    BY <2>2 DEF ParseHeader, Parsing, ParsePacket
  <2>3. CASE \E m \in Msgs, error \in BOOLEAN : WriteEnds(m, error)
    BY <2>3 DEF WriteEnds
  <2>4. CASE ReadTimerGoesOff \/ ReadTimeout \/ WriteTimeout
    BY <2>4 DEF ReadTimerGoesOff, ReadTimeout, WriteTimeout
  <2>5. CASE WriteTimerGoesOff \/ StopOperation
    BY <2>5 DEF WriteTimerGoesOff, StopOperation
  <2>. QED BY <1>5, <2>1, <2>2, <2>3, <2>4, <2>5, Zenon DEF NetworkThread, Parsing
<1>6. CASE DispatcherThread /\ ~(OnConnectTask \/ DispatcherRefuses)
  <2>1. CASE \/ LoginTask \/ LogoutTask \/ CloseConnectionTask
             \/ \E m \in Msgs : FreeMessageBegins(m)
    BY <2>1 DEF LoginTask, LogoutTask, CloseConnectionTask, FreeMessageBegins
  <2>2. CASE \/ FreeMessageEnds \/ ReleaseConnectionEvent
             \/ ReleaseProtocolEvent \/ ConnectEvent
    BY <2>2 DEF FreeMessageEnds, ReleaseConnectionEvent, ReleaseProtocolEvent, ConnectEvent
  <2>3. CASE DispatcherCloses \/ GameWrites \/ GameKicks \/ GameRuns
    BY <2>3 DEF DispatcherCloses, GameWrites, GameKicks, GameRuns
  <2>4. CASE SendAllSends
    <3>1. Send(Head(autoSend), tasks)
      BY <2>4, Zenon DEF SendAllSends
    <3>. QED BY <1>2, <3>1
  <2>5. CASE SendAllAdds \/ SendAllEnds
    BY <2>5 DEF SendAllAdds, SendAllEnds
  <2>. QED BY <1>6, <2>1, <2>2, <2>3, <2>4, <2>5, Zenon DEF DispatcherThread, DispatcherTask
<1>. QED BY <1>1, <1>4, <1>5, <1>6, Zenon DEF Next

LEMMA ReleasedEmpty ==
  ASSUME TypeInv, QueueInv, CloseInv, PhaseInv, CountInv, WriteEndInv, [Next]_vars, ~torn',
         release' \in {"posted", "done"}
  PROVE  allocated' = {}
<1>1. ~torn
  BY TornStays
<1>2. CASE release \in {"posted", "done"}
  <2>1. allocated = {}
    BY <1>1, <1>2 DEF WriteEndInv
  <2>2. connectionState \notin {"OPEN", "REQUEST_CLOSE"}
    BY <1>2 DEF PhaseInv
  <2>3. UNCHANGED refVars \/ FreeMessageEnds \/ ConnectEvent
    BY <2>2, RefChange, ClosedQuiet
  <2>4. FreeMessageEnds => allocated' = allocated \ {freeing}
    BY DEF FreeMessageEnds
  <2>5. ConnectEvent => allocated' = allocated
    BY DEF ConnectEvent
  <2>. QED BY <2>1, <2>3, <2>4, <2>5 DEF refVars
<1>3. CASE release \notin {"posted", "done"}
  <2>1. ~StopOperation
    <3>1. StopOperation => "stop" \in Elements(ready)
      BY Taken, Unchanged DEF StopOperation, Runs, ReadyType
    <3>. QED BY <1>3, <3>1 DEF PhaseInv
  <2>2. ReleaseConnection /\ allocated' = allocated
    BY <1>3, <2>1, ReleaseChange DEF refVars
  <2>3. connRefs = 0
    BY <1>3, <2>2 DEF ReleaseConnection
  <2>. QED BY <1>1, <2>2, <2>3, NobodyLeft
<1>. QED BY <1>2, <1>3

LEMMA ReadyCloses ==
  ASSUME TypeInv, QueueInv, CloseInv, PhaseInv, CountInv, WriteEndInv, [Next]_vars, ~torn'
  PROVE  /\ Closes(ready', "stop", {"writeTimeout"})
         /\ release' = "done" => "writeTimeout" \notin Elements(ready')
<1>1. /\ ready \in Seq(Handlers) /\ Closes(ready, "stop", {"writeTimeout"})
      /\ release = "done" => "writeTimeout" \notin Elements(ready)
  BY TornStays, Unchanged DEF WriteEndInv, ReadyType
<1>2. ready # <<>> =>
        /\ Closes(Tail(ready), "stop", {"writeTimeout"})
        /\ Elements(Tail(ready)) \subseteq Elements(ready)
        /\ Head(ready) = "stop" => "writeTimeout" \notin Elements(Tail(ready))
  BY <1>1, Taken, TakenCloses
<1>3. ASSUME NEW h \in Handlers, "stop" \in Elements(ready) => h # "writeTimeout"
      PROVE  /\ Closes(Append(ready, h), "stop", {"writeTimeout"})
             /\ Elements(Append(ready, h)) = Elements(ready) \cup {h}
  <2>1. "stop" \in Elements(ready) => h \notin {"writeTimeout"}
    BY <1>3
  <2>. QED BY <1>1, <2>1, Appended, AppendedCloses
<1>4. CASE UNCHANGED <<release, ready>>
  BY <1>1, <1>4
<1>5. CASE UNCHANGED release /\ ReadTimerGoesOff
  <2>1. ready' = Append(ready, "readTimeout")
    BY <1>5 DEF ReadTimerGoesOff
  <2>. QED BY <1>1, <1>3, <1>5, <2>1 DEF Handlers
<1>6. CASE UNCHANGED release /\ WriteTimerGoesOff
  <2>1. ready' = Append(ready, "writeTimeout") /\ writing # {}
    BY <1>6 DEF WriteTimerGoesOff, WriteEndInv
  <2>2. allocated # {}
    BY <2>1, Unchanged DEF QueueInv, Placed, WriteTypes
  <2>3. release \notin {"posted", "done"}
    BY <2>2, TornStays DEF WriteEndInv
  <2>4. "stop" \notin Elements(ready)
    BY <2>3 DEF PhaseInv
  <2>. QED BY <1>3, <1>6, <2>1, <2>3, <2>4 DEF Handlers
<1>7. CASE UNCHANGED release /\ (ReadTimeout \/ WriteTimeout)
  <2>1. ready # <<>> /\ ready' = Tail(ready)
    BY <1>7 DEF ReadTimeout, WriteTimeout, Runs
  <2>. QED BY <1>1, <1>2, <1>7, <2>1
<1>8. CASE StopOperation
  <2>1. ready # <<>> /\ ready' = Tail(ready) /\ Head(ready) = "stop"
    BY <1>8 DEF StopOperation, Runs
  <2>. QED BY <1>2, <2>1
<1>9. CASE ReleaseConnection
  <2>1. release' # "done" /\ (ready' = ready \/ ready' = Append(ready, "stop"))
    BY <1>9 DEF ReleaseConnection
  <2>. QED BY <1>1, <1>3, <2>1 DEF Handlers
<1>. QED BY <1>4, <1>5, <1>6, <1>7, <1>8, <1>9, ReleaseChange

LEMMA WriteEndStep ==
  ASSUME TypeInv, QueueInv, CloseInv, PhaseInv, CountInv, WriteEndInv, [Next]_vars
  PROVE  WriteEndInv'
<1>1. writeTimer' => writing' # {}
  BY WriteTimerStep DEF WriteEndInv
<1>. QED BY <1>1, ReleasedEmpty, ReadyCloses DEF WriteEndInv

-----------------------------------------------------------------------------
(* Before the first packet, and while it is answered, no player has the protocol as its
   client, so no message is queued to be sent: the challenge is written at once. *)

Early == ~receivedFirst \/ ioPc = "reply"

EarlyInv ==
  /\ ~AccountManager /\ ~BanUnknownBytes => ioPc # "write"
  /\ ioPc # "idle" => receivedFirst
  /\ Early =>
       /\ toAdd = <<>> /\ autoSend = <<>>
       /\ ~client /\ ~connecting
       /\ Elements(tasks) \cap {"login", "logout"} = {}
       /\ dispatcherPc \notin {"refuse", "disconnect"}
       /\ "onConnect" \in Elements(tasks) => allocated = {}

LEMMA AnswerChange ==
  ASSUME EarlyInv, [Next]_vars
  PROVE  /\ ~AccountManager /\ ~BanUnknownBytes => ioPc' # "write"
         /\ ioPc' # "idle" => receivedFirst'
         /\ Early' => Early /\ ~PacketReplies /\ ~PacketWrites /\ ~NeighbourWrites
         /\ Early' /\ Parsing => tasks' = tasks
<1>. USE DEF stateVars, ioVars
<1>0. Early' => ~NeighbourWrites
  BY DEF NeighbourWrites, EarlyInv, Early
<1>1. CASE UNCHANGED vars
  <2>1. UNCHANGED <<ioPc, receivedFirst, tasks>>
    BY <1>1 DEF vars
  <2>2. ~PacketReplies /\ ~PacketWrites
    BY <2>1 DEF PacketReplies, PacketWrites
  <2>. QED BY <1>0, <2>1, <2>2 DEF EarlyInv, Early
<1>2. CASE DispatcherThread
  <2>1. UNCHANGED <<ioPc, receivedFirst>>
    BY <1>2, DispatcherFrame
  <2>2. ~PacketReplies /\ ~PacketWrites
    BY <2>1 DEF PacketReplies, PacketWrites
  <2>3. ~Parsing
    BY <2>1 DEF Parsing, ParsePacket, PostTo, ConnectionLockFree, FirstPacket, LaterPacket
  <2>. QED BY <1>0, <2>1, <2>2, <2>3 DEF EarlyInv, Early
<1>3. CASE Parsing
  <2>1. PICK answer \in FirstPacket \cup LaterPacket : ParsePacket(answer)
    BY <1>3 DEF Parsing
  <2>2. /\ receivedFirst' = TRUE /\ ioPc = "idle" /\ PostTo(answer)
        /\ \/ ~receivedFirst /\ answer \in FirstPacket
           \/ receivedFirst /\ answer \in LaterPacket
    BY <2>1 DEF ParsePacket, ConnectionLockFree, LaterPacket
  <2>3. /\ ioPc' # answer => ioPc' = "rest"
        /\ ioPc' = "reply" => answer = "reply" /\ tasks' = tasks
    BY <2>2 DEF PostTo
  <2>4. /\ ~AccountManager /\ ~BanUnknownBytes => answer # "write"
        /\ answer = "reply" => ~receivedFirst
    BY <2>2 DEF FirstPacket, LaterPacket
  <2>5. ~PacketReplies /\ ~PacketWrites
    BY <2>2 DEF PacketReplies, PacketWrites
  <2>. QED BY <1>0, <2>2, <2>3, <2>4, <2>5 DEF Early
<1>4. CASE NetworkThread /\ ~Parsing
  <2>1. receivedFirst => receivedFirst'
    BY <1>4, NetworkFrame
  <2>2. ioPc' = ioPc \/ (ioPc # "idle" /\ ioPc' \in {"idle", "close", "rest"})
    <3>1. CASE ioPc = "idle"
      BY <1>4, <3>1, NetworkFrame
    <3>2. CASE ioPc # "idle"
      <4>1. PacketReplies \/ PacketWrites \/ NeighbourWrites \/ PacketCloses \/ PacketEnds \/ ioPc' = ioPc
        <5>1. CASE ReadFails \/ ParsePacketCloses \/ \E tooMany \in BOOLEAN : ParseHeader(tooMany)
          BY <3>2, <5>1 DEF ReadFails, ParsePacketCloses, ParseHeader, ConnectionLockFree
        <5>2. CASE \E m \in Msgs, error \in BOOLEAN : WriteEnds(m, error)
          BY <3>2, <5>2 DEF WriteEnds, ConnectionLockFree
        <5>3. CASE ReadTimerGoesOff \/ WriteTimerGoesOff
          BY <5>3 DEF ReadTimerGoesOff, WriteTimerGoesOff
        <5>4. CASE ReadTimeout \/ WriteTimeout \/ StopOperation
          BY <5>4 DEF ReadTimeout, WriteTimeout, StopOperation
        <5>. QED BY <1>4, <5>1, <5>2, <5>3, <5>4, Zenon DEF NetworkThread, Parsing
      <4>. QED BY <3>2, <4>1 DEF PacketReplies, PacketWrites, NeighbourWrites, PacketCloses, PacketEnds
    <3>. QED BY <3>1, <3>2
  <2>3. /\ PacketReplies => ioPc = "reply" /\ ioPc' = "close"
        /\ PacketWrites => ioPc = "write" /\ ioPc' = "rest"
    BY DEF PacketReplies, PacketWrites
  <2>. QED BY <1>0, <1>4, <2>1, <2>2, <2>3 DEF EarlyInv, Early
<1>. QED BY <1>1, <1>2, <1>3, <1>4 DEF Next

Buffering == PacketReplies \/ PacketWrites \/ NeighbourWrites \/ DispatcherRefuses \/ GameWrites

LEMMA PoolChange ==
  ASSUME [Next]_vars
  PROVE  \/ UNCHANGED <<autoSend, toAdd, allocated>>
         \/ Buffering \/ OnConnectTask
         \/ UNCHANGED <<autoSend, toAdd>> /\ FreeMessageEnds
         \/ UNCHANGED allocated /\ (SendAllAdds \/ SendAllSends)
<1>. USE DEF refVars, poolVars
<1>1. CASE UNCHANGED vars
  BY <1>1 DEF vars
<1>2. CASE NetworkThread /\ ~Buffering
  <2>1. CASE ReadFails \/ ParsePacketCloses \/ PacketCloses \/ PacketEnds
    BY <2>1 DEF ReadFails, ParsePacketCloses, PacketCloses, PacketEnds
  <2>2. CASE (\E tooMany \in BOOLEAN : ParseHeader(tooMany)) \/ Parsing
    BY <2>2 DEF ParseHeader, Parsing, ParsePacket
  <2>3. CASE \E m \in Msgs, error \in BOOLEAN : WriteEnds(m, error)
    BY <2>3 DEF WriteEnds
  <2>4. CASE ReadTimerGoesOff \/ WriteTimerGoesOff \/ ReadTimeout \/ WriteTimeout
    BY <2>4 DEF ReadTimerGoesOff, WriteTimerGoesOff, ReadTimeout, WriteTimeout
  <2>5. CASE StopOperation
    BY <2>5 DEF StopOperation
  <2>. QED
    BY <1>2, <2>1, <2>2, <2>3, <2>4, <2>5, Zenon DEF NetworkThread, Parsing, Buffering
<1>3. CASE DispatcherThread /\ ~Buffering /\ ~OnConnectTask
  <2>1. CASE \/ LoginTask \/ LogoutTask \/ CloseConnectionTask
             \/ \E m \in Msgs : FreeMessageBegins(m)
    BY <2>1 DEF LoginTask, LogoutTask, CloseConnectionTask, FreeMessageBegins
  <2>2. CASE ReleaseConnectionEvent \/ ReleaseProtocolEvent \/ ConnectEvent
    BY <2>2 DEF ReleaseConnectionEvent, ReleaseProtocolEvent, ConnectEvent
  <2>3. CASE FreeMessageEnds
    BY <2>3 DEF FreeMessageEnds
  <2>4. CASE DispatcherCloses \/ GameKicks \/ GameRuns
    BY <2>4 DEF DispatcherCloses, GameKicks, GameRuns
  <2>5. CASE SendAllAdds \/ SendAllSends
    BY <2>5 DEF SendAllAdds, SendAllSends
  <2>6. CASE SendAllEnds
    BY <2>6 DEF SendAllEnds
  <2>. QED
    BY <1>3, <2>1, <2>2, <2>3, <2>4, <2>5, <2>6, Zenon
    DEF DispatcherThread, DispatcherTask, Buffering
<1>. QED BY <1>1, <1>2, <1>3, Zenon DEF Next

LEMMA ChallengeSent ==
  ASSUME TypeInv, QueueInv, OnConnectTask, toAdd = <<>>, allocated = {}
  PROVE  UNCHANGED <<autoSend, toAdd>> /\ "onConnect" \notin Elements(tasks')
<1>1. /\ tasks # <<>> /\ Head(tasks) = "onConnect" /\ SendNew(FALSE, Tail(tasks))
  BY DEF OnConnectTask, Takes
<1>2. /\ Tail(tasks) \in Seq(TaskNames)
      /\ "onConnect" \notin Elements(Tail(tasks))
  <2>1. tasks \in Seq(TaskNames) /\ Once(tasks)
    BY DEF QueueInv, GoodTasks
  <2>. QED BY <1>1, <2>1, Taken
<1>3. CanSend => pendingWrite = 0
  <2>1. writing = {}
    BY Unchanged DEF QueueInv, Placed, WriteTypes
  <2>. QED BY <2>1, Unchanged DEF WriteInv, StateTypes
<1>4. CASE \E m \in Msgs : Send(m, Tail(tasks))
  <2>1. PICK m \in Msgs : Send(m, Tail(tasks))
    BY <1>4
  <2>2. toAdd' = toAdd /\ (tasks' = Tail(tasks) \/ tasks' = Append(Tail(tasks), m))
    BY <1>3, <2>1 DEF Send
  <2>3. m \in TaskNames /\ m # "onConnect"
    BY Names DEF Entries
  <2>5. Elements(Append(Tail(tasks), m)) = Elements(Tail(tasks)) \cup {m}
    <3>1. \A s \in Seq(TaskNames), x \in TaskNames :
            Elements(Append(s, x)) = Elements(s) \cup {x}
      BY Appended
    <3>. QED BY <1>2, <2>3, <3>1, Zenon
  <2>4. autoSend' = autoSend
    BY <1>1 DEF SendNew
  <2>. QED BY <1>2, <2>2, <2>3, <2>4, <2>5
<1>5. CASE tasks' = Tail(tasks) /\ UNCHANGED toAdd
  <2>1. autoSend' = autoSend
    BY <1>1 DEF SendNew
  <2>. QED BY <1>2, <1>5, <2>1
<1>. QED BY <1>1, <1>4, <1>5 DEF SendNew

LEMMA EarlyStep ==
  ASSUME TypeInv, QueueInv, CloseInv, LoginInv, EarlyInv, [Next]_vars
  PROVE  EarlyInv'
<1>1. ASSUME Early'
      PROVE  /\ toAdd' = <<>> /\ autoSend' = <<>>
             /\ ~client' /\ ~connecting'
             /\ Elements(tasks') \cap {"login", "logout"} = {}
             /\ dispatcherPc' \notin {"refuse", "disconnect"}
             /\ "onConnect" \in Elements(tasks') => allocated' = {}
  <2>1. /\ toAdd = <<>> /\ autoSend = <<>>
        /\ ~client /\ ~connecting
        /\ Elements(tasks) \cap {"login", "logout"} = {}
        /\ dispatcherPc \notin {"refuse", "disconnect"}
        /\ "onConnect" \in Elements(tasks) => allocated = {}
    BY <1>1, AnswerChange DEF EarlyInv
  <2>2. EntriesKept
    <3>1. CASE Parsing
      BY <1>1, <3>1, AnswerChange DEF EntriesKept
    <3>2. CASE ~Parsing
      BY <3>2, StepQueue DEF Parsing
    <3>. QED BY <3>1, <3>2
  <2>3. tasks # <<>> => Head(tasks) \in Elements(tasks)
    BY GoodTasksChanges DEF QueueInv
  <2>4. ~LoginTask /\ ~LogoutTask /\ ~ConnectEvent
    BY <2>1, <2>3 DEF LoginTask, LogoutTask, ConnectEvent, Takes
  <2>5. ~client' /\ dispatcherPc' \notin {"refuse", "disconnect"}
    BY <2>1, <2>4, ClientChange
  <2>6. ~Buffering
    BY <1>1, <2>1, AnswerChange DEF Buffering, DispatcherRefuses, GameWrites
  <2>7. ~SendAllSends
    BY <2>1 DEF SendAllSends
  <2>8. SendAllAdds => UNCHANGED <<autoSend, toAdd>>
    BY <2>1 DEF SendAllAdds, AddQueued, poolVars
  <2>9. OnConnectTask => UNCHANGED <<autoSend, toAdd>> /\ "onConnect" \notin Elements(tasks')
    <3>1. OnConnectTask => "onConnect" \in Elements(tasks)
      BY <2>3 DEF OnConnectTask, Takes
    <3>. QED BY <2>1, <3>1, ChallengeSent
  <2>10. FreeMessageEnds => allocated' = allocated \ {freeing}
    BY DEF FreeMessageEnds
  <2>11. toAdd' = <<>> /\ autoSend' = <<>>
    BY <2>1, <2>6, <2>7, <2>8, <2>9, PoolChange
  <2>12. "onConnect" \in Elements(tasks') => allocated' = {}
    BY <2>1, <2>2, <2>6, <2>7, <2>9, <2>10, PoolChange DEF EntriesKept, Entries
  <2>13. ~connecting'
    <3>1. connecting' = connecting \/ LoginTask \/ ConnectEvent
      <4>1. CASE UNCHANGED vars
        BY <4>1 DEF vars, lifeVars
      <4>2. CASE NetworkThread
        BY <4>2, NetworkFrame
      <4>3. CASE DispatcherThread
        BY <4>3, DispatcherFrame
      <4>. QED BY <4>1, <4>2, <4>3 DEF Next
    <3>. QED BY <2>1, <2>4, <3>1
  <2>. QED BY <2>1, <2>2, <2>5, <2>11, <2>12, <2>13 DEF EntriesKept, Entries
<1>. QED BY <1>1, AnswerChange DEF EarlyInv

-----------------------------------------------------------------------------
(* The whole invariant. *)

Inv ==
  /\ TypeInv /\ QueueInv /\ CloseInv /\ LoginInv /\ PhaseInv
  /\ CountInv /\ EndInv /\ ReadInv /\ WriteEndInv /\ EarlyInv

LEMMA InitInv == Init => Inv
<1>. SUFFICES ASSUME Init PROVE Inv
  OBVIOUS
<1>1. TypeInv
  BY InitTypes
<1>2. /\ connectionState = "OPEN" /\ pendingRead = 1 /\ socket = "open" /\ release = "no"
      /\ allocated = {} /\ connRefs = 0 /\ protoRefs = 0
      /\ outputBuffer = Nobody /\ autoSend = <<>> /\ toAdd = <<>> /\ writing = {}
      /\ ready = <<>> /\ ioPc = "idle" /\ freeing = Nobody /\ dispatcherPc = "idle"
      /\ protocol \in {"none", "live"}
  BY DEF Init
<1>3. ~readError /\ ~receivedFirst /\ ~client /\ ~connecting /\ ~writeTimer
  BY Zenon DEF Init
<1>4. managed /\ (linked <=> protocol = "live")
  BY DEF Init
<1>5. tasks = <<>> \/ tasks = <<"onConnect">>
  BY DEF Init
<1>6. /\ Elements(tasks) \subseteq {"onConnect"}
      /\ GoodTasks(tasks)
  <2>1. tasks \in Seq(TaskNames)
    BY <1>1, Unchanged DEF TaskTypes
  <2>2. CASE tasks = <<>>
    BY <2>1, <2>2 DEF Elements, GoodTasks, Once, Closes
  <2>3. CASE tasks = <<"onConnect">>
    <3>1. DOMAIN tasks = {1} /\ tasks[1] = "onConnect"
      BY <2>3
    <3>. QED BY <2>1, <3>1 DEF Elements, GoodTasks, Once, Closes
  <2>. QED BY <1>5, <2>2, <2>3
<1>7. /\ Elements(autoSend) = {} /\ Elements(toAdd) = {} /\ Elements(ready) = {}
      /\ Once(autoSend) /\ autoSend \in Seq(Msgs)
  BY <1>2, EmptyElements
<1>8. QueueInv
  <2>1. GoodList(autoSend) /\ GoodList(toAdd)
    BY <1>2, <1>7 DEF GoodList
  <2>2. BufferInv
    BY <1>2 DEF BufferInv
  <2>3. \A m \in Msgs : m \notin Elements(tasks) /\ m # Nobody
    BY <1>6, Names DEF Entries
  <2>4. Placed(Elements(autoSend), Elements(toAdd), Elements(tasks), writing, freeing, allocated)
    BY <1>2, <1>7, <2>3 DEF Placed
  <2>. QED BY <1>6, <2>1, <2>2, <2>4 DEF QueueInv
<1>9. CloseInv /\ LoginInv
  BY <1>2, <1>3, <1>6 DEF CloseInv, LoginInv
<1>10. PhaseInv
  BY <1>2, <1>4, <1>7 DEF PhaseInv
<1>11. CountInv
  BY <1>2, <1>3, FS_EmptySet DEF CountInv, Counted
<1>12. EndInv /\ ReadInv
  BY <1>2, <1>3 DEF EndInv, ReadInv
<1>13. WriteEndInv
  BY <1>2, <1>3, <1>7 DEF WriteEndInv, Closes
<1>14. EarlyInv
  BY <1>2, <1>3, <1>6 DEF EarlyInv
<1>. QED BY <1>1, <1>8, <1>9, <1>10, <1>11, <1>12, <1>13, <1>14 DEF Inv

LEMMA StepInv == Inv /\ [Next]_vars => Inv'
<1>. SUFFICES ASSUME Inv, [Next]_vars PROVE Inv'
  OBVIOUS
<1>1. /\ TypeInv /\ QueueInv /\ CloseInv /\ LoginInv /\ PhaseInv
      /\ CountInv /\ EndInv /\ ReadInv /\ WriteEndInv /\ EarlyInv
  BY DEF Inv
<1>2. TypeInv'
  BY <1>1, StepTypes
<1>3. QueueInv' /\ CloseInv'
  BY <1>1, StepQueue
<1>4. LoginInv'
  BY <1>1, LoginStep
<1>5. PhaseInv'
  BY <1>1, PhaseStep
<1>6. CountInv'
  BY <1>1, CountStep
<1>7. EndInv'
  BY <1>1, EndStep
<1>8. ReadInv'
  BY <1>1, ReadStep
<1>9. WriteEndInv'
  BY <1>1, WriteEndStep
<1>10. EarlyInv'
  BY <1>1, EarlyStep
<1>. QED BY <1>2, <1>3, <1>4, <1>5, <1>6, <1>7, <1>8, <1>9, <1>10 DEF Inv

LEMMA InvHolds == Spec => []Inv
  BY InitInv, StepInv, PTL DEF Spec

-----------------------------------------------------------------------------
(* What the invariant says. *)

LEMMA OneIndex ==
  ASSUME NEW s, Once(s), NEW x
  PROVE  LET I == {i \in DOMAIN s : s[i] = x}
         IN  /\ x \notin Elements(s) => I = {}
             /\ x \in Elements(s) => \E i : I = {i}
<1>. DEFINE I == {i \in DOMAIN s : s[i] = x}
<1>1. x \notin Elements(s) => I = {}
  BY DEF Elements
<1>2. ASSUME x \in Elements(s) PROVE \E i : I = {i}
  <2>1. PICK i \in DOMAIN s : s[i] = x
    BY <1>2 DEF Elements
  <2>2. I = {i}
    BY <2>1 DEF Once
  <2>. QED BY <2>2
<1>. QED BY <1>1, <1>2

(* No message is lost, doubled or forgotten on its way between the lists, and the
   buffer is always a message that has still to be sent: by QueueInv a message in use
   is in exactly one of five places, in the lists only once. *)
THEOREM MessagesHavePlaces == Spec => []MessagesPlaced
<1>1. Inv => MessagesPlaced
  <2>. SUFFICES ASSUME Inv PROVE MessagesPlaced
    OBVIOUS
  <2>1. /\ Once(autoSend) /\ Once(toAdd) /\ Once(tasks) /\ BufferInv
        /\ Placed(Elements(autoSend), Elements(toAdd), Elements(tasks), writing, freeing, allocated)
    BY DEF Inv, QueueInv, GoodList, GoodTasks
  <2>2. ASSUME NEW m \in Msgs
        PROVE  Cardinality(Places(m)) = IF m \in allocated THEN 1 ELSE 0
    <3>. DEFINE A == {k \in DOMAIN autoSend : autoSend[k] = m}
                B == {k \in DOMAIN toAdd : toAdd[k] = m}
                C == {k \in DOMAIN tasks : tasks[k] = m}
                D == {"writing" : x \in writing \cap {m}} \cup {"freeing" : x \in {freeing} \cap {m}}
                P == {<<"autoSend", i>> : i \in A} \cup {<<"toAdd", i>> : i \in B}
                       \cup {<<"tasks", i>> : i \in C} \cup {<<o, 0>> : o \in D}
    <3>1. Places(m) = P
      BY DEF Places
    <3>2. /\ m \notin Elements(autoSend) => A = {}
          /\ m \in Elements(autoSend) => \E i : A = {i}
          /\ m \notin Elements(toAdd) => B = {}
          /\ m \in Elements(toAdd) => \E i : B = {i}
          /\ m \notin Elements(tasks) => C = {}
          /\ m \in Elements(tasks) => \E i : C = {i}
      BY <2>1, OneIndex
    <3>3. /\ m \notin writing /\ m # freeing => D = {}
          /\ m \in writing /\ m # freeing => D = {"writing"}
          /\ m \notin writing /\ m = freeing => D = {"freeing"}
      OBVIOUS
    <3>4. /\ m \in allocated <=>
               \/ m \in Elements(autoSend) \/ m \in Elements(toAdd) \/ m \in Elements(tasks)
               \/ m \in writing \/ m = freeing
          /\ m \in Elements(autoSend) =>
               m \notin Elements(toAdd) /\ m \notin Elements(tasks) /\ m \notin writing /\ m # freeing
          /\ m \in Elements(toAdd) => m \notin Elements(tasks) /\ m \notin writing /\ m # freeing
          /\ m \in Elements(tasks) => m \notin writing /\ m # freeing
          /\ m \in writing => m # freeing
      BY <2>1 DEF Placed
    <3>. HIDE DEF A, B, C, D
    <3>5. m \notin allocated => P = {}
      BY <3>2, <3>3, <3>4
    <3>6. ASSUME m \in allocated PROVE \E y : P = {y}
      <4>1. CASE m \in Elements(autoSend)
        <5>1. PICK i : A = {i}
          BY <3>2, <4>1
        <5>2. P = {<<"autoSend", i>>}
          BY <3>2, <3>3, <3>4, <4>1, <5>1
        <5>. QED BY <5>2
      <4>2. CASE m \in Elements(toAdd)
        <5>1. PICK i : B = {i}
          BY <3>2, <4>2
        <5>2. P = {<<"toAdd", i>>}
          BY <3>2, <3>3, <3>4, <4>2, <5>1
        <5>. QED BY <5>2
      <4>3. CASE m \in Elements(tasks)
        <5>1. PICK i : C = {i}
          BY <3>2, <4>3
        <5>2. P = {<<"tasks", i>>}
          BY <3>2, <3>3, <3>4, <4>3, <5>1
        <5>. QED BY <5>2
      <4>4. CASE m \in writing
        <5>1. P = {<<"writing", 0>>}
          BY <3>2, <3>3, <3>4, <4>4
        <5>. QED BY <5>1
      <4>5. CASE m = freeing
        <5>1. P = {<<"freeing", 0>>}
          BY <3>2, <3>3, <3>4, <4>5
        <5>. QED BY <5>1
      <4>. QED BY <3>4, <3>6, <4>1, <4>2, <4>3, <4>4, <4>5
    <3>. HIDE DEF P
    <3>7. m \in allocated => Cardinality(P) = 1
      <4>1. ASSUME NEW y, P = {y} PROVE Cardinality(P) = 1
        BY <4>1, FS_Singleton
      <4>. QED BY <3>6, <4>1
    <3>8. m \notin allocated => Cardinality(P) = 0
      BY <3>5, FS_EmptySet
    <3>. QED BY <3>1, <3>7, <3>8
  <2>3. BufferIsQueued
    BY <2>1 DEF BufferInv, BufferIsQueued
  <2>. QED BY <2>2, <2>3 DEF MessagesPlaced, OnePlace
<1>. QED BY <1>1, InvHolds, PTL

(* Both counters say how many messages refer to the connection and the protocol, unless
   an update was lost to the race of the two threads. *)
THEOREM CountersCount == Spec => []Counted
<1>1. Inv => Counted
  BY DEF Inv, CountInv
<1>. QED BY <1>1, InvHolds, PTL

(* The tasks, events and handlers that find the protocol or the connection by a bare
   pointer find it: a protocol is deleted when the counter is 0, at a time when no task
   for it can be queued any more, and the manager keeps the connection for the one task
   that closes it, the event that releases it and the handler that stops it. *)
THEOREM PointersStayLive == Spec => []PointersLive
<1>1. Inv => PointersLive
  <2>. SUFFICES ASSUME Inv PROVE PointersLive
    OBVIOUS
  <2>1. /\ TypeInv /\ QueueInv /\ CloseInv /\ PhaseInv /\ EndInv
    BY DEF Inv
  <2>2. DeletedIsForgotten
    <3>. SUFFICES ASSUME protocol = "deleted", ~torn PROVE ~UsesProtocol
      BY DEF DeletedIsForgotten
    <3>1. /\ allocated = {} /\ ~connecting /\ ~client
          /\ dispatcherPc \notin {"refuse", "disconnect"}
      BY <2>1 DEF EndInv
    <3>2. ~linked /\ ioPc = "idle" /\ Elements(tasks) \cap Entries = {}
      BY <2>1, ClosedQuiet DEF PhaseInv
    <3>3. Elements(tasks) \cap Msgs = {}
      BY <2>1, <3>1 DEF QueueInv, Placed
    <3>4. freeing = Nobody
      BY <2>1, <3>1, Unchanged DEF QueueInv, Placed, DispatcherTypes
    <3>. QED BY <3>1, <3>2, <3>3, <3>4 DEF UsesProtocol, Entries
  <2>3. "close" \in Elements(tasks) \/ release \in {"event", "posted"} => managed
    BY <2>1 DEF CloseInv, PhaseInv
  <2>4. Cardinality({i \in DOMAIN tasks : tasks[i] = "close"})
          = IF connectionState = "REQUEST_CLOSE" THEN 1 ELSE 0
    <3>. DEFINE I == {i \in DOMAIN tasks : tasks[i] = "close"}
    <3>1. /\ "close" \notin Elements(tasks) => I = {}
          /\ "close" \in Elements(tasks) => \E i : I = {i}
      BY <2>1, OneIndex DEF QueueInv, GoodTasks
    <3>. HIDE DEF I
    <3>2. I = {} => Cardinality(I) = 0
      BY FS_EmptySet
    <3>3. ASSUME NEW i, I = {i} PROVE Cardinality(I) = 1
      BY <3>3, FS_Singleton
    <3>4. Cardinality(I) = IF connectionState = "REQUEST_CLOSE" THEN 1 ELSE 0
      BY <2>1, <3>1, <3>2, <3>3 DEF CloseInv
    <3>. QED BY <3>4 DEF I
  <2>. QED BY <2>2, <2>3, <2>4 DEF PointersLive, BarePointers
<1>. QED BY <1>1, InvHolds, PTL

(* When the socket is deleted no write is under way, and a timer whose handler comes
   late finds nothing to time out: what closed the socket has set pendingRead to 0, and
   no handler of the write timer is behind onStopOperation. *)
THEOREM HandlersFindTheSocket == Spec => []HandlersFindSocket
<1>1. Inv => HandlersFindSocket
  <2>. SUFFICES ASSUME Inv, socket = "deleted", ~torn
                PROVE  /\ writing = {}
                       /\ "readTimeout" \in Elements(ready) /\ Alive =>
                            ~(pendingRead > 0 \/ readError)
                       /\ "writeTimeout" \in Elements(ready) /\ Alive =>
                            ~(pendingWrite > 0 \/ writeError)
    BY DEF HandlersFindSocket
  <2>1. /\ TypeInv /\ QueueInv /\ PhaseInv /\ ReadInv /\ WriteEndInv
    BY DEF Inv
  <2>2. release = "done" /\ pendingRead = 0
    BY <2>1 DEF ReadInv
  <2>3. allocated = {} /\ "writeTimeout" \notin Elements(ready)
    BY <2>1, <2>2 DEF WriteEndInv
  <2>4. writing = {}
    BY <2>1, <2>3, Unchanged DEF QueueInv, Placed, WriteTypes
  <2>5. ~managed /\ ~linked
    BY <2>1, <2>2, ClosedQuiet DEF PhaseInv
  <2>6. Alive => ~readError
    BY <2>1, <2>3, <2>5 DEF Alive, ReadInv
  <2>. QED BY <2>2, <2>3, <2>4, <2>6
<1>. QED BY <1>1, InvHolds, PTL

(* Without the account manager and the ban for unknown bytes sendAll, which holds the lock of the pool, finds nothing
   to send through a connection whose parsePacket waits for that lock: the one packet
   that is answered at once is the first, and before it nothing is queued. *)
THEOREM LocksApart == Spec => []LocksDoNotCross
<1>1. Inv => LocksDoNotCross
  BY DEF Inv, EarlyInv, Early, LocksDoNotCross
<1>. QED BY <1>1, InvHolds, PTL

-----------------------------------------------------------------------------
(* The refinement: each step of the connection is a step of SharedObjects or changes
   nothing of it, as long as no update of a counter is lost. *)

SharedProtocol == IF protocol = "releasing" THEN "live" ELSE protocol

LEMMA Allocating ==
  ASSUME [Next]_vars, allocated' # allocated
  PROVE  \/ FreeMessageEnds
         \/ /\ \E m \in Msgs, racing \in BOOLEAN : Allocate(m, racing)
            /\ UNCHANGED <<connectionState, protocol, socket>>
<1>. USE DEF stateVars, lifeVars
<1>1. ASSUME NEW racing, NEW posted, SendNew(racing, posted)
      PROVE  UNCHANGED <<connectionState, protocol, socket>>
  BY <1>1 DEF SendNew
<1>2. ASSUME PacketReplies \/ DispatcherRefuses \/ OnConnectTask
      PROVE  UNCHANGED <<connectionState, protocol, socket>>
  BY <1>1, <1>2, Zenon DEF PacketReplies, DispatcherRefuses, OnConnectTask
<1>3. ASSUME PacketWrites \/ NeighbourWrites \/ GameWrites
      PROVE  UNCHANGED <<connectionState, protocol, socket>>
  BY <1>3 DEF PacketWrites, NeighbourWrites, GameWrites
<1>4. \/ FreeMessageEnds
      \/ UNCHANGED <<connectionState, protocol, socket>>
  BY <1>2, <1>3, PoolChange DEF Buffering
<1>5. ~LoginTask /\ ~ConnectEvent
  BY DEF LoginTask, ConnectEvent
<1>. QED BY <1>4, <1>5, RefChange DEF refVars

LEMMA StateChange ==
  ASSUME [Next]_vars
  PROVE  connectionState' = connectionState \/ Asked \/ CloseConnectionTask
<1>1. CASE UNCHANGED vars
  BY <1>1 DEF vars, stateVars
<1>2. CASE NetworkThread
  BY <1>2, NetworkFrame
<1>3. CASE DispatcherThread
  BY <1>3, DispatcherFrame
<1>. QED BY <1>1, <1>2, <1>3 DEF Next

LEMMA SharedStep ==
  ASSUME Inv, [Next]_vars
  PROVE  [Shared!Next \/ torn']_(Shared!vars)
<1>. DEFINE open == connectionState = "OPEN"
            there == socket # "deleted"
<1>1. /\ TypeInv /\ QueueInv /\ CloseInv /\ PhaseInv /\ CountInv /\ WriteEndInv
  BY DEF Inv
<1>2. SUFFICES ASSUME ~torn'
               PROVE  \/ Shared!Next
                      \/ /\ open' = open /\ allocated' = allocated
                         /\ SharedProtocol' = SharedProtocol /\ there' = there
  BY DEF Shared!vars, SharedProtocol
<1>3. ~torn
  BY <1>2, TornStays
<1>4. CASE allocated' # allocated
  <2>1. CASE FreeMessageEnds
    <3>1. /\ dispatcherPc = "unref" /\ allocated' = allocated \ {freeing}
          /\ UNCHANGED <<connectionState, protocol, socket>>
      BY <2>1 DEF FreeMessageEnds, stateVars, lifeVars
    <3>2. freeing \in allocated /\ freeing \in Msgs
      BY <1>1, <3>1, Unchanged DEF FreeInv, DispatcherTypes, QueueInv, Placed
    <3>3. Shared!Give(freeing)
      BY <3>1, <3>2 DEF Shared!Give
    <3>. QED BY <3>2, <3>3 DEF Shared!Next
  <2>2. CASE /\ \E m \in Msgs, racing \in BOOLEAN : Allocate(m, racing)
             /\ UNCHANGED <<connectionState, protocol, socket>>
    <3>1. PICK m \in Msgs : linked /\ m \notin allocated /\ allocated' = allocated \cup {m}
      BY <2>2 DEF Allocate
    <3>2. protocol = "live"
      BY <1>1, <3>1 DEF PhaseInv
    <3>3. Shared!Take(m)
      BY <2>2, <3>1, <3>2 DEF Shared!Take
    <3>. QED BY <3>3 DEF Shared!Next
  <2>. QED BY <1>4, <2>1, <2>2, Allocating
<1>5. CASE allocated' = allocated
  <2>1. CASE StopOperation
    <3>1. UNCHANGED <<connectionState, protocol>> /\ socket' = "deleted"
      BY <2>1 DEF StopOperation
    <3>2. "stop" \in Elements(ready)
      BY <1>1, <2>1, Taken, Unchanged DEF StopOperation, Runs, ReadyType
    <3>3. release \in {"posted", "done"}
      BY <1>1, <3>2 DEF PhaseInv
    <3>4. connectionState # "OPEN" /\ allocated = {}
      BY <1>1, <1>3, <3>3 DEF PhaseInv, WriteEndInv
    <3>5. Shared!DeleteSocket
      BY <1>5, <3>1, <3>4 DEF Shared!DeleteSocket
    <3>. QED BY <3>5 DEF Shared!Next
  <2>2. CASE ~StopOperation /\ protocol' # protocol
    <3>1. there' = there
      <4>1. UNCHANGED <<socket, pendingRead>> \/ CloseSocket
        BY <2>2, SocketChange
      <4>. QED BY <4>1 DEF CloseSocket
    <3>2. CASE protocol' = "live"
      <4>1. Parsing
        <5>1. CASE UNCHANGED vars
          BY <2>2, <5>1 DEF vars, lifeVars
        <5>2. CASE NetworkThread
          BY <2>2, <5>2, NetworkFrame
        <5>3. CASE DispatcherThread
          <6>1. protocol' \in {"releasing", "deleted"} \/ protocol' = protocol
            BY <5>3, DispatcherFrame
            DEF CloseConnectionTask, ReleaseProtocolEvent, ReleaseProtocol
          <6>. QED BY <2>2, <3>2, <6>1
        <5>. QED BY <5>1, <5>2, <5>3 DEF Next
      <4>2. connectionState = "OPEN" /\ connectionState' = connectionState
        BY <4>1 DEF Parsing, ParsePacket
      <4>3. protocol = "none"
        BY <1>1, <2>2, <3>2, <4>2 DEF PhaseInv
      <4>4. Shared!Make
        BY <1>5, <3>1, <3>2, <4>2, <4>3 DEF Shared!Make
      <4>. QED BY <4>4 DEF Shared!Next
    <3>3. CASE ReleaseProtocol
      <4>1. CloseConnectionTask \/ ReleaseProtocolEvent
        <5>1. protocol' \in {"releasing", "deleted"}
          BY <3>3 DEF ReleaseProtocol
        <5>2. CASE UNCHANGED vars
          BY <2>2, <5>2 DEF vars, lifeVars
        <5>3. CASE NetworkThread
          <6>1. Parsing
            BY <2>2, <5>3, NetworkFrame
          <6>. QED BY <2>2, <5>1, <6>1 DEF Parsing, ParsePacket
        <5>4. CASE DispatcherThread
          BY <2>2, <5>4, DispatcherFrame
        <5>. QED BY <5>2, <5>3, <5>4 DEF Next
      <4>2. connectionState # "OPEN" /\ connectionState' # "OPEN"
        <5>1. CASE CloseConnectionTask
          <6>1. "close" \in Elements(tasks)
            BY <1>1, <5>1, Taken, Unchanged DEF CloseConnectionTask, Takes, TaskTypes
          <6>2. connectionState' \in {"CLOSED", "CLOSING"}
            BY <5>1 DEF CloseConnectionTask
          <6>. QED BY <1>1, <6>1, <6>2 DEF CloseInv
        <5>2. CASE ReleaseProtocolEvent
          <6>1. protocol = "releasing" /\ connectionState' = connectionState
            BY <5>2 DEF ReleaseProtocolEvent, stateVars
          <6>. QED BY <1>1, <6>1 DEF PhaseInv
        <5>. QED BY <4>1, <5>1, <5>2
      <4>3. protocol \in {"live", "releasing"}
        <5>1. CASE CloseConnectionTask
          <6>1. protocol # "none" /\ "close" \in Elements(tasks)
            BY <1>1, <2>2, <5>1, Taken, Unchanged DEF CloseConnectionTask, Takes, TaskTypes
          <6>. QED BY <1>1, <6>1 DEF CloseInv, PhaseInv
        <5>2. CASE ReleaseProtocolEvent
          BY <5>2 DEF ReleaseProtocolEvent
        <5>. QED BY <4>1, <5>1, <5>2
      <4>4. CASE protoRefs # 0
        BY <1>5, <3>1, <3>3, <4>2, <4>3, <4>4 DEF ReleaseProtocol, SharedProtocol
      <4>5. CASE protoRefs = 0
        <5>1. allocated = {} /\ protocol' = "deleted"
          BY <1>1, <1>3, <3>3, <4>5, NobodyLeft DEF ReleaseProtocol
        <5>2. Shared!DeleteProtocol
          BY <1>5, <3>1, <4>2, <4>3, <5>1 DEF Shared!DeleteProtocol
        <5>. QED BY <5>2 DEF Shared!Next
      <4>. QED BY <4>4, <4>5
    <3>. QED BY <2>2, <3>2, <3>3, ProtocolChange
  <2>3. CASE ~StopOperation /\ protocol' = protocol
    <3>1. there' = there
      <4>1. UNCHANGED <<socket, pendingRead>> \/ CloseSocket
        BY <2>3, SocketChange
      <4>. QED BY <4>1 DEF CloseSocket
    <3>2. CASE connectionState' = connectionState
      BY <1>5, <2>3, <3>1, <3>2 DEF SharedProtocol
    <3>3. CASE Asked \/ CloseConnectionTask
      <4>1. connectionState' # "OPEN"
        BY <3>3 DEF Asked, CloseConnectionTask
      <4>2. Shared!Close
        BY <1>5, <2>3, <3>1, <4>1 DEF Shared!Close
      <4>. QED BY <4>2 DEF Shared!Next
    <3>. QED BY <3>2, <3>3, StateChange
  <2>. QED BY <2>1, <2>2, <2>3
<1>. QED BY <1>4, <1>5

(* As long as no update of a counter is lost, the connection with its tasks, timers and
   counters does what SharedObjects asks: a message is taken for a protocol that is
   there, and protocol and socket are deleted when the connection has been asked to
   close and no message is left. *)
THEOREM ConnectionShares == Spec => SharedSpec
<1>1. Init => Shared!Init
  <2>. SUFFICES ASSUME Init PROVE Shared!Init
    OBVIOUS
  <2>1. /\ connectionState = "OPEN" /\ allocated = {} /\ socket = "open"
        /\ protocol \in {"none", "live"}
    BY DEF Init
  <2>. QED BY <2>1 DEF Shared!Init
<1>2. Inv /\ [Next]_vars => [Shared!Next \/ torn']_(Shared!vars)
  BY SharedStep
<1>. QED BY <1>1, <1>2, InvHolds, PTL DEF Spec, SharedSpec

=============================================================================
