------------------------------ MODULE CreaturesProofs ------------------------------
(***************************************************************************)
(* What Creatures guarantees for any set of objects and any number of      *)
(* vectors: that a creature is listed once or not at all, and that its     *)
(* references are counted.                                                 *)
(***************************************************************************)
EXTENDS Creatures, SubsequenceProofs

One(condition) == IF condition THEN 1 ELSE 0

(* r counts the references to objects whose lives are l and whose masters are m, when vec
   says where they are listed, p how often they are in releaseThings, and h who else has
   them. *)
References(r, l, m, vec, p, h) ==
  \A c \in Creatures :
    r[c] = One(l[c] = "placed") + One(vec[c] # -1) + p[c] + One(m[c] # Null) + h[c]

(* What has a reference is an object. *)
Alive(r, l) == \A c \in Creatures : l[c] = "none" <=> r[c] = 0

(* Masters are objects, and nobody's summons. *)
Masters(m, l) ==
  \A c \in Creatures : m[c] # Null => l[c] # "none" /\ l[m[c]] # "none" /\ m[m[c]] = Null

(* Only creatures of the game are checked. *)
CheckedOK == \A c \in Creatures : checked[c] => life[c] = "placed" /\ vector[c] # -1

(* checkVector says where a creature is listed, or will be. *)
ListsOK ==
  /\ Once(toAdd) /\ \A v \in Vectors : Once(vectors[v])
  /\ \A c \in ToSet(toAdd) : vector[c] # -1
  /\ \A v \in Vectors : \A c \in ToSet(vectors[v]) : vector[c] = v /\ c \notin ToSet(toAdd)
  /\ \A c \in Creatures : vector[c] # -1 => c \in ToSet(toAdd) \/ c \in ToSet(vectors[vector[c]])

CreaturesInv ==
  /\ TypeOK
  /\ References(refs, life, master, vector, pending, held)
  /\ Alive(refs, life) /\ Masters(master, life)
  /\ CheckedOK /\ ListsOK

Lives == {"none", "placed", "removed"}

LEMMA VectorsOK ==
  /\ Vectors \subseteq Nat /\ 0 \in Vectors /\ -1 \notin Vectors /\ Random = Vectors
  /\ \A v \in Vectors : (v + 1) % EVENT_CREATURECOUNT \in Vectors
<1>1. EVENT_CREATURECOUNT \in Nat \ {0}
  BY CreaturesAssumption
<1>2. ASSUME NEW v \in Vectors
      PROVE  (v + 1) % EVENT_CREATURECOUNT \in 0 .. EVENT_CREATURECOUNT - 1
  BY <1>1 DEF Vectors
<1>. QED BY <1>1, <1>2 DEF Vectors, Random

-----------------------------------------------------------------------------
(* References that are counted well stay so when unRef() has deleted what has none. *)

LEMMA CountsKeep ==
  ASSUME NEW r \in [Creatures -> Int], NEW m \in [Creatures -> Creatures \cup {Null}],
         NEW l \in [Creatures -> Lives], Counts(r, m, l),
         NEW p \in [Creatures -> Nat], NEW h \in [Creatures -> Nat], NEW vec,
         References(r, l, m, vec, p, h), \A c \in Creatures : l[c] = "none" => r[c] = 0,
         Masters(m, l)
  PROVE  /\ refs' \in [Creatures -> Nat] /\ life' \in [Creatures -> Lives]
         /\ master' \in [Creatures -> Creatures \cup {Null}]
         /\ References(refs', life', master', vec, p, h)
         /\ Alive(refs', life') /\ Masters(master', life')
         /\ \A c \in Creatures : l[c] = "placed" <=> life'[c] = "placed"
<1>. DEFINE deleted == {c \in Creatures : l[c] # "none" /\ r[c] <= 0}
            left == [c \in Creatures |-> IF m[c] \in deleted THEN r[c] - 1 ELSE r[c]]
            lost == {c \in Creatures : l[c] # "none" /\ left[c] <= 0}
<1>1. /\ refs' = left
      /\ life' = [c \in Creatures |-> IF c \in lost THEN "none" ELSE l[c]]
      /\ master' = [c \in Creatures |-> IF c \in lost \/ m[c] \in deleted THEN Null ELSE m[c]]
  BY DEF Counts
<1>2. ASSUME NEW c \in Creatures
      PROVE  /\ left[c] \in Int /\ r[c] \in Int
             /\ left[c] = IF m[c] \in deleted THEN r[c] - 1 ELSE r[c]
             /\ c \in lost <=> l[c] # "none" /\ left[c] <= 0
             /\ c \in deleted <=> l[c] # "none" /\ r[c] <= 0
             /\ m[c] \in deleted => m[c] # Null
  BY CreaturesAssumption
<1>. HIDE DEF deleted, left, lost
<1>3. ASSUME NEW c \in Creatures
      PROVE  /\ refs'[c] = left[c]
             /\ life'[c] = IF c \in lost THEN "none" ELSE l[c]
             /\ master'[c] = IF c \in lost \/ m[c] \in deleted THEN Null ELSE m[c]
  BY <1>1
<1>4. ASSUME NEW c \in Creatures
      PROVE  /\ left[c] \in Nat
             /\ left[c] = One(life'[c] = "placed") + One(vec[c] # -1) + p[c]
                          + One(master'[c] # Null) + h[c]
             /\ c \in lost => left[c] = 0
             /\ l[c] = "placed" <=> life'[c] = "placed"
             /\ life'[c] = "none" <=> left[c] = 0
  <2>1. r[c] = One(l[c] = "placed") + One(vec[c] # -1) + p[c] + One(m[c] # Null) + h[c]
        /\ (l[c] = "none" => r[c] = 0)
    BY DEF References
  <2>2. p[c] \in Nat /\ h[c] \in Nat
    OBVIOUS
  <2>. QED BY <1>2, <1>3, <2>1, <2>2 DEF One
<1>5. refs' \in [Creatures -> Nat] /\ life' \in [Creatures -> Lives]
      /\ master' \in [Creatures -> Creatures \cup {Null}]
  <2>1. refs' \in [Creatures -> Nat]
    BY <1>1, <1>4 DEF left
  <2>2. life' \in [Creatures -> Lives]
    BY <1>1 DEF Lives
  <2>. QED BY <1>1, <2>1, <2>2
<1>6. References(refs', life', master', vec, p, h)
  BY <1>3, <1>4 DEF References
<1>7. Alive(refs', life')
  BY <1>3, <1>4 DEF Alive
<1>8. ASSUME NEW c \in Creatures, master'[c] # Null
      PROVE  life'[c] # "none" /\ life'[master'[c]] # "none" /\ master'[master'[c]] = Null
  <2>1. c \notin lost /\ m[c] \notin deleted /\ master'[c] = m[c] /\ m[c] \in Creatures
    BY <1>3, <1>8
  <2>2. l[c] # "none" /\ l[m[c]] # "none" /\ m[m[c]] = Null
    BY <1>8, <2>1 DEF Masters
  <2>3. Null \notin deleted
    BY <1>2, CreaturesAssumption DEF deleted
  <2>4. left[m[c]] = r[m[c]] /\ r[m[c]] > 0
    BY <1>2, <2>1, <2>2, <2>3
  <2>5. m[c] \notin lost
    BY <1>2, <2>1, <2>4
  <2>. QED BY <1>3, <2>1, <2>2, <2>5
<1>9. Masters(master', life')
  BY <1>8 DEF Masters
<1>. QED BY <1>4, <1>5, <1>6, <1>7, <1>9

-----------------------------------------------------------------------------
(* The parts of a step. *)

(* The types of what counts references. *)
LEMMA Objects ==
  ASSUME CreaturesInv
  PROVE  /\ life \in [Creatures -> Lives] /\ healthy \in [Creatures -> BOOLEAN]
         /\ master \in [Creatures -> Creatures \cup {Null}]
         /\ refs \in [Creatures -> Nat] /\ pending \in [Creatures -> Nat]
         /\ held \in [Creatures -> Nat] /\ held \in [Creatures -> 0 .. MaxHeld]
         /\ MaxHeld \in Nat
         /\ checked \in [Creatures -> BOOLEAN]
         /\ vector \in [Creatures -> Vectors \cup {-1}]
         /\ Null \notin Creatures
<1>1. held \in [Creatures -> 0 .. MaxHeld] /\ MaxHeld \in Nat
  BY CreaturesAssumption DEF CreaturesInv, TypeOK
<1>2. held \in [Creatures -> Nat]
  BY <1>1
<1>. QED BY <1>1, <1>2, CreaturesAssumption DEF CreaturesInv, TypeOK, Lives

(* A step after which the references are counted by Counts, and which lists and walks
   nothing. *)
LEMMA CountingStep ==
  ASSUME CreaturesInv, NEW r \in [Creatures -> Int], NEW m \in [Creatures -> Creatures \cup {Null}],
         NEW l \in [Creatures -> Lives], Counts(r, m, l),
         pending' \in [Creatures -> Nat], held' \in [Creatures -> 0 .. MaxHeld],
         healthy' \in [Creatures -> BOOLEAN], checked' \in [Creatures -> BOOLEAN],
         References(r, l, m, vector, pending', held'),
         \A c \in Creatures : l[c] = "none" => r[c] = 0, Masters(m, l),
         \A c \in Creatures : checked'[c] => checked[c] /\ l[c] = "placed",
         UNCHANGED <<vector, toAdd, vectors>>, index' \in Vectors, at' \in Nat
  PROVE  CreaturesInv'
<1>1. held' \in [Creatures -> Nat]
  BY Objects
<1>2. /\ refs' \in [Creatures -> Nat] /\ life' \in [Creatures -> Lives]
      /\ master' \in [Creatures -> Creatures \cup {Null}]
      /\ References(refs', life', master', vector, pending', held')
      /\ Alive(refs', life') /\ Masters(master', life')
      /\ \A c \in Creatures : l[c] = "placed" <=> life'[c] = "placed"
  BY <1>1, CountsKeep
<1>3. TypeOK'
  BY <1>2 DEF CreaturesInv, TypeOK, Lives
<1>4. CheckedOK'
  BY <1>2 DEF CreaturesInv, CheckedOK
<1>5. ListsOK'
  BY DEF CreaturesInv, ListsOK
<1>. QED BY <1>2, <1>3, <1>4, <1>5 DEF CreaturesInv

(* c is put on toAdd. *)
LEMMA ListedStep ==
  ASSUME CreaturesInv, NEW c \in Creatures, vector[c] = -1, NEW v \in Vectors,
         toAdd' = Append(toAdd, c), vector' = [vector EXCEPT ![c] = v], UNCHANGED vectors
  PROVE  /\ ListsOK' /\ toAdd' \in Seq(Creatures) /\ vector' \in [Creatures -> Vectors \cup {-1}]
<1>1. /\ toAdd \in Seq(Creatures) /\ Once(toAdd) /\ c \notin ToSet(toAdd)
      /\ \A w \in Vectors : c \notin ToSet(vectors[w])
  BY VectorsOK DEF CreaturesInv, TypeOK, ListsOK
<1>2. /\ toAdd' \in Seq(Creatures) /\ Once(toAdd') /\ ToSet(toAdd') = ToSet(toAdd) \cup {c}
  BY <1>1, AppendOnce
<1>3. ToSet(toAdd) \subseteq Creatures /\ \A w \in Vectors : ToSet(vectors[w]) \subseteq Creatures
  BY EntriesOf DEF CreaturesInv, TypeOK
<1>4. /\ vector' \in [Creatures -> Vectors \cup {-1}] /\ vector'[c] = v /\ v # -1
      /\ \A x \in Creatures \ {c} : vector'[x] = vector[x]
  BY VectorsOK DEF CreaturesInv, TypeOK
<1>5. ListsOK'
  BY <1>1, <1>2, <1>3, <1>4 DEF CreaturesInv, ListsOK
<1>. QED BY <1>2, <1>4, <1>5
-----------------------------------------------------------------------------
(* The steps. *)

LEMMA placeCreatureKeeps ==
  ASSUME CreaturesInv, NEW c \in Creatures, NEW m \in Creatures \cup {Null}, placeCreature(c, m)
  PROVE  CreaturesInv'
<1>1. /\ life[c] = "none" /\ life' = [life EXCEPT ![c] = "placed"]
      /\ healthy' = [healthy EXCEPT ![c] = TRUE] /\ master' = [master EXCEPT ![c] = m]
      /\ checked' = [checked EXCEPT ![c] = TRUE] /\ toAdd' = Append(toAdd, c)
      /\ refs' = [refs EXCEPT ![c] = IF m = Null THEN 2 ELSE 3]
      /\ m # Null => life[m] = "placed" /\ master[m] = Null /\ m # c
      /\ UNCHANGED <<held, pending, vectors, index, at>>
  BY DEF placeCreature, walk
<1>2. PICK v \in Vectors : vector' = [vector EXCEPT ![c] = v]
  BY VectorsOK DEF placeCreature
<1>3. /\ refs[c] = 0 /\ vector[c] = -1 /\ pending[c] = 0 /\ held[c] = 0 /\ master[c] = Null
  <2>1. /\ refs[c] = 0
        /\ refs[c] = One(life[c] = "placed") + One(vector[c] # -1) + pending[c]
                     + One(master[c] # Null) + held[c]
    BY <1>1 DEF CreaturesInv, Alive, References
  <2>. QED BY <2>1, Objects DEF One
<1>4. ListsOK' /\ toAdd' \in Seq(Creatures) /\ vector' \in [Creatures -> Vectors \cup {-1}]
  BY <1>1, <1>2, <1>3, ListedStep
<1>5. v # -1 /\ vector'[c] = v /\ \A x \in Creatures \ {c} : vector'[x] = vector[x]
  BY <1>2, VectorsOK, Objects
<1>6. /\ life'[c] = "placed" /\ master'[c] = m /\ refs'[c] = IF m = Null THEN 2 ELSE 3
      /\ \A x \in Creatures \ {c} :
           life'[x] = life[x] /\ master'[x] = master[x] /\ refs'[x] = refs[x]
  BY <1>1, Objects
<1>7. References(refs', life', master', vector', pending', held')
  <2>1. ASSUME NEW x \in Creatures
        PROVE  refs'[x] = One(life'[x] = "placed") + One(vector'[x] # -1) + pending'[x]
                          + One(master'[x] # Null) + held'[x]
    <3>1. CASE x = c
      BY <1>1, <1>3, <1>5, <1>6, <3>1 DEF One
    <3>2. CASE x # c
      BY <1>1, <1>5, <1>6, <3>2 DEF CreaturesInv, References
    <3>. QED BY <3>1, <3>2
  <2>. QED BY <2>1 DEF References
<1>8. Alive(refs', life')
  BY <1>6 DEF CreaturesInv, Alive
<1>9. Masters(master', life')
  <2>1. ASSUME NEW x \in Creatures, master'[x] # Null
        PROVE  life'[x] # "none" /\ life'[master'[x]] # "none" /\ master'[master'[x]] = Null
    <3>1. CASE x = c
      <4>1. master'[x] = m /\ m \in Creatures \ {c} /\ life'[m] = "placed" /\ master'[m] = Null
        BY <1>1, <1>6, <2>1, <3>1
      <4>. QED BY <1>6, <3>1, <4>1
    <3>2. CASE x # c
      <4>1. /\ master'[x] = master[x] /\ life[x] # "none" /\ life[master[x]] # "none"
            /\ master[master[x]] = Null /\ master[x] \in Creatures
        BY <1>6, <2>1, <3>2, Objects DEF CreaturesInv, Masters
      <4>2. master[x] # c
        BY <1>1, <4>1
      <4>. QED BY <1>6, <3>2, <4>1, <4>2
    <3>. QED BY <3>1, <3>2
  <2>. QED BY <2>1 DEF Masters
<1>10. CheckedOK'
  BY <1>1, <1>5, <1>6 DEF CreaturesInv, CheckedOK
<1>11. TypeOK'
  <2>1. refs' \in [Creatures -> Nat]
    BY <1>1, Objects
  <2>. QED BY <1>1, <1>4, <2>1 DEF CreaturesInv, TypeOK
<1>. QED BY <1>4, <1>7, <1>8, <1>9, <1>10, <1>11 DEF CreaturesInv

(* Creatures in the set leave the game. *)
LEMMA RemovedKeeps ==
  ASSUME CreaturesInv, NEW set \in SUBSET Creatures, \A c \in set : life[c] = "placed",
         NEW leaving \in SUBSET Creatures, \A c \in leaving : master[c] # Null,
         Removed(set, UnRef(leaving), Freed(leaving)), UNCHANGED <<held, vector, toAdd, vectors>>,
         healthy' \in [Creatures -> BOOLEAN], index' \in Vectors, at' \in Nat
  PROVE  CreaturesInv'
<1>. DEFINE r == UnRef(leaving)
            m == Freed(leaving)
            l == [c \in Creatures |-> IF c \in set THEN "removed" ELSE life[c]]
<1>1. /\ Counts(r, m, l)
      /\ pending' = [c \in Creatures |-> IF c \in set THEN pending[c] + 1 ELSE pending[c]]
      /\ checked' = Unchecked(set)
  BY DEF Removed
<1>2. /\ r \in [Creatures -> Int] /\ m \in [Creatures -> Creatures \cup {Null}]
      /\ l \in [Creatures -> Lives]
      /\ \A c \in Creatures : /\ r[c] = IF c \in leaving THEN refs[c] - 1 ELSE refs[c]
                              /\ m[c] = IF c \in leaving THEN Null ELSE master[c]
                              /\ l[c] = IF c \in set THEN "removed" ELSE life[c]
  BY Objects DEF UnRef, Freed, Lives
<1>. HIDE DEF r, m, l
<1>3. /\ pending' \in [Creatures -> Nat] /\ held' \in [Creatures -> 0 .. MaxHeld]
      /\ checked' \in [Creatures -> BOOLEAN]
  BY <1>1, Objects DEF Unchecked
<1>4. References(r, l, m, vector, pending', held')
  <2>1. ASSUME NEW c \in Creatures
        PROVE  r[c] = One(l[c] = "placed") + One(vector[c] # -1) + pending'[c]
                      + One(m[c] # Null) + held'[c]
    <3>1. /\ refs[c] = One(life[c] = "placed") + One(vector[c] # -1) + pending[c]
                       + One(master[c] # Null) + held[c]
          /\ refs[c] \in Nat /\ pending[c] \in Nat /\ held'[c] = held[c] /\ held[c] \in Nat
          /\ pending'[c] = IF c \in set THEN pending[c] + 1 ELSE pending[c]
      BY <1>1, Objects DEF CreaturesInv, References
    <3>2. /\ r[c] = IF c \in leaving THEN refs[c] - 1 ELSE refs[c]
          /\ m[c] = IF c \in leaving THEN Null ELSE master[c]
          /\ l[c] = IF c \in set THEN "removed" ELSE life[c]
          /\ c \in set => life[c] = "placed"
          /\ c \in leaving => master[c] # Null
      BY <1>2
    <3>. QED BY <3>1, <3>2 DEF One
  <2>. QED BY <2>1 DEF References
<1>5. \A c \in Creatures : l[c] = "none" => r[c] = 0
  <2>1. ASSUME NEW c \in Creatures, l[c] = "none"
        PROVE  r[c] = 0
    <3>1. life[c] = "none" /\ refs[c] = 0
      BY <1>2, <2>1 DEF CreaturesInv, Alive
    <3>2. master[c] = Null
      BY <3>1 DEF CreaturesInv, Masters
    <3>. QED BY <1>2, <3>1, <3>2
  <2>. QED BY <2>1
<1>6. Masters(m, l)
  <2>1. ASSUME NEW c \in Creatures, m[c] # Null
        PROVE  l[c] # "none" /\ l[m[c]] # "none" /\ m[m[c]] = Null
    <3>1. m[c] = master[c] /\ m[c] \in Creatures
      BY <1>2, <2>1
    <3>2. life[c] # "none" /\ life[m[c]] # "none" /\ master[m[c]] = Null
      BY <2>1, <3>1 DEF CreaturesInv, Masters
    <3>. QED BY <1>2, <3>1, <3>2
  <2>. QED BY <2>1 DEF Masters
<1>7. \A c \in Creatures : checked'[c] => checked[c] /\ l[c] = "placed"
  BY <1>1, <1>2 DEF CreaturesInv, CheckedOK, Unchecked
<1>. QED BY <1>1, <1>2, <1>3, <1>4, <1>5, <1>6, <1>7, CountingStep

LEMMA removeCreatureKeeps ==
  ASSUME CreaturesInv, NEW c \in Creatures, removeCreature(c)
  PROVE  CreaturesInv'
<1>. DEFINE m == master[c]
            set == {c} \cup {s \in summons(c) : life[s] = "placed"}
<1>1. /\ set \in SUBSET Creatures /\ \A x \in set : life[x] = "placed"
      /\ UNCHANGED <<held, vector, toAdd, vectors>>
      /\ healthy' \in [Creatures -> BOOLEAN] /\ index' \in Vectors /\ at' \in Nat
  BY DEF removeCreature, summons, walk, CreaturesInv, TypeOK
<1>2. CASE m # Null /\ life[m] = "placed"
  <2>1. Freed({c}) = [master EXCEPT ![c] = Null]
    BY Objects DEF Freed
  <2>2. Removed(set, UnRef({c}), Freed({c}))
    BY <1>2, <2>1 DEF removeCreature
  <2>3. {c} \in SUBSET Creatures /\ \A x \in {c} : master[x] # Null
    BY <1>2
  <2>. HIDE DEF set
  <2>. QED BY <1>1, <2>2, <2>3, RemovedKeeps
<1>3. CASE ~(m # Null /\ life[m] = "placed")
  <2>1. Freed({}) = master /\ UnRef({}) = refs
    BY Objects DEF Freed, UnRef
  <2>2. Removed(set, UnRef({}), Freed({}))
    BY <1>3, <2>1 DEF removeCreature
  <2>3. {} \in SUBSET Creatures /\ \A x \in {} : master[x] # Null
    OBVIOUS
  <2>. HIDE DEF set
  <2>. QED BY <1>1, <2>2, <2>3, RemovedKeeps
<1>. QED BY <1>2, <1>3

LEMMA onDeathKeeps ==
  ASSUME CreaturesInv, onDeath
  PROVE  CreaturesInv'
<1>. DEFINE c == Current
            own == summons(c)
            leaving == own \cup (IF master[c] = Null THEN {} ELSE {c})
<1>1. /\ Walking /\ checked[c] /\ at' = at + 1 /\ UNCHANGED <<held, vector, toAdd, vectors, index>>
      /\ healthy' = [x \in Creatures |-> healthy[x] /\ x \notin own]
      /\ Removed({c}, UnRef(leaving), Freed(leaving))
  BY DEF onDeath
<1>2. c \in Creatures
  BY <1>1 DEF Walking, Current, CreaturesInv, TypeOK
<1>3. {c} \in SUBSET Creatures /\ \A x \in {c} : life[x] = "placed"
  BY <1>1, <1>2 DEF CreaturesInv, CheckedOK
<1>4. leaving \in SUBSET Creatures /\ \A x \in leaving : master[x] # Null
  BY <1>2, CreaturesAssumption DEF summons
<1>5. healthy' \in [Creatures -> BOOLEAN] /\ index' \in Vectors /\ at' \in Nat
  BY <1>1 DEF CreaturesInv, TypeOK
<1>. HIDE DEF c, leaving
<1>. QED BY <1>1, <1>3, <1>4, <1>5, RemovedKeeps

LEMMA changeHealthKeeps ==
  ASSUME CreaturesInv, NEW c \in Creatures, changeHealth(c)
  PROVE  CreaturesInv'
<1>1. healthy' \in [Creatures -> BOOLEAN]
  BY DEF changeHealth, CreaturesInv, TypeOK
<1>2. UNCHANGED <<life, master, refs, held, pending, checks, walk>>
  BY DEF changeHealth
<1>3. UNCHANGED <<life, master, refs, held, pending, checked, vector, toAdd, vectors, index, at>>
  BY <1>2 DEF checks, walk
<1>. QED BY <1>1, <1>3
         DEF CreaturesInv, TypeOK, References, Alive, Masters, CheckedOK, ListsOK

LEMMA setIdleKeeps ==
  ASSUME CreaturesInv, NEW c \in Creatures, NEW idle \in BOOLEAN, setIdle(c, idle)
  PROVE  CreaturesInv'
<1>1. /\ life[c] = "placed" /\ UNCHANGED <<life, healthy, master, held, pending, vectors, index, at>>
  BY DEF setIdle, walk
<1>2. CASE idle \/ vector[c] # -1
  <2>1. /\ checked' = Unchecked({c}) \/ (checked' = [checked EXCEPT ![c] = TRUE] /\ vector[c] # -1)
        /\ UNCHANGED <<toAdd, vector, refs>>
    <3>1. vector[c] # -1 => vector[c] >= 0
      <4>1. vector[c] \in Vectors \cup {-1} /\ \A v \in Vectors : v >= 0
        BY Objects DEF Vectors
      <4>. QED BY <4>1
    <3>2. CASE idle
      BY <3>2 DEF setIdle
    <3>3. CASE ~idle
      <4>1. addCreatureCheck(c) /\ vector[c] # -1
        BY <1>2, <3>3 DEF setIdle
      <4>. QED BY <3>1, <4>1 DEF addCreatureCheck
    <3>. QED BY <3>2, <3>3
  <2>2. checked' \in [Creatures -> BOOLEAN]
    BY <2>1, Objects DEF Unchecked
  <2>3. CheckedOK'
    BY <1>1, <2>1, Objects DEF CreaturesInv, CheckedOK, Unchecked
  <2>4. TypeOK'
    BY <1>1, <2>1, <2>2 DEF CreaturesInv, TypeOK
  <2>5. ListsOK'
    BY <1>1, <2>1 DEF CreaturesInv, ListsOK
  <2>. QED BY <1>1, <2>1, <2>3, <2>4, <2>5 DEF CreaturesInv
<1>3. CASE ~idle /\ vector[c] = -1
  <2>1. /\ checked' = [checked EXCEPT ![c] = TRUE] /\ toAdd' = Append(toAdd, c)
        /\ refs' = [refs EXCEPT ![c] = @ + 1]
        /\ \E v \in Random : vector' = [vector EXCEPT ![c] = v]
    BY <1>3 DEF setIdle, addCreatureCheck
  <2>2. PICK v \in Vectors : vector' = [vector EXCEPT ![c] = v]
    BY <2>1, VectorsOK
  <2>3. ListsOK' /\ toAdd' \in Seq(Creatures) /\ vector' \in [Creatures -> Vectors \cup {-1}]
    BY <1>1, <1>3, <2>1, <2>2, ListedStep
  <2>4. /\ vector'[c] # -1 /\ refs'[c] = refs[c] + 1
        /\ \A x \in Creatures \ {c} : vector'[x] = vector[x] /\ refs'[x] = refs[x]
    BY <2>1, <2>2, VectorsOK, Objects
  <2>5. refs' \in [Creatures -> Nat]
    BY <2>1, Objects
  <2>6. References(refs', life', master', vector', pending', held')
    <3>1. ASSUME NEW x \in Creatures
          PROVE  refs'[x] = One(life'[x] = "placed") + One(vector'[x] # -1) + pending'[x]
                            + One(master'[x] # Null) + held'[x]
      <4>1. /\ refs[x] = One(life[x] = "placed") + One(vector[x] # -1) + pending[x]
                         + One(master[x] # Null) + held[x]
            /\ refs[x] \in Nat /\ pending[x] \in Nat /\ held[x] \in Nat
        BY Objects DEF CreaturesInv, References
      <4>2. CASE x = c
        BY <1>1, <1>3, <2>4, <4>1, <4>2 DEF One
      <4>3. CASE x # c
        BY <1>1, <2>4, <4>1, <4>3
      <4>. QED BY <4>2, <4>3
    <3>. QED BY <3>1 DEF References
  <2>7. Alive(refs', life')
    <3>1. refs[c] # 0 /\ refs[c] \in Nat
      BY <1>1, Objects DEF CreaturesInv, Alive
    <3>2. refs'[c] # 0
      BY <2>4, <3>1
    <3>. QED BY <1>1, <2>4, <3>2 DEF CreaturesInv, Alive
  <2>8. CheckedOK'
    BY <1>1, <2>1, <2>4, Objects DEF CreaturesInv, CheckedOK
  <2>9. TypeOK'
    BY <1>1, <2>1, <2>3, <2>5 DEF CreaturesInv, TypeOK
  <2>. QED BY <1>1, <2>3, <2>6, <2>7, <2>8, <2>9 DEF CreaturesInv
<1>. QED BY <1>2, <1>3

(* Summons leave their masters: the references of those who had one. *)
LEMMA FreedCounts ==
  ASSUME CreaturesInv, NEW set \in SUBSET Creatures, \A c \in set : master[c] # Null
  PROVE  /\ UnRef(set) \in [Creatures -> Int]
         /\ Freed(set) \in [Creatures -> Creatures \cup {Null}]
         /\ References(UnRef(set), life, Freed(set), vector, pending, held)
         /\ \A c \in Creatures : life[c] = "none" => UnRef(set)[c] = 0
         /\ Masters(Freed(set), life)
<1>. DEFINE r == UnRef(set)
            m == Freed(set)
<1>1. /\ r \in [Creatures -> Int] /\ m \in [Creatures -> Creatures \cup {Null}]
      /\ \A c \in Creatures : r[c] = IF c \in set THEN refs[c] - 1 ELSE refs[c]
      /\ \A c \in Creatures : m[c] = IF c \in set THEN Null ELSE master[c]
  BY Objects DEF UnRef, Freed
<1>. HIDE DEF r, m
<1>2. References(r, life, m, vector, pending, held)
  <2>1. ASSUME NEW c \in Creatures
        PROVE  r[c] = One(life[c] = "placed") + One(vector[c] # -1) + pending[c]
                      + One(m[c] # Null) + held[c]
    <3>1. /\ refs[c] = One(life[c] = "placed") + One(vector[c] # -1) + pending[c]
                       + One(master[c] # Null) + held[c]
          /\ refs[c] \in Nat /\ pending[c] \in Nat /\ held[c] \in Nat
      BY Objects DEF CreaturesInv, References
    <3>. QED BY <1>1, <3>1 DEF One
  <2>. QED BY <2>1 DEF References
<1>3. \A c \in Creatures : life[c] = "none" => r[c] = 0
  BY <1>1 DEF CreaturesInv, Alive, Masters
<1>4. Masters(m, life)
  <2>1. ASSUME NEW c \in Creatures, m[c] # Null
        PROVE  life[c] # "none" /\ life[m[c]] # "none" /\ m[m[c]] = Null
    <3>1. m[c] = master[c] /\ m[c] \in Creatures
      BY <1>1, <2>1
    <3>. QED BY <1>1, <2>1, <3>1 DEF CreaturesInv, Masters
  <2>. QED BY <2>1 DEF Masters
<1>. QED BY <1>1, <1>2, <1>3, <1>4 DEF r, m

LEMMA SummonsHaveMasters ==
  ASSUME NEW m \in Creatures
  PROVE  summons(m) \in SUBSET Creatures /\ \A c \in summons(m) : master[c] # Null
BY CreaturesAssumption DEF summons

LEMMA destroySummonsKeeps ==
  ASSUME CreaturesInv, NEW m \in Creatures, destroySummons(m)
  PROVE  CreaturesInv'
<1>1. /\ Counts(UnRef(summons(m)), Freed(summons(m)), life)
      /\ healthy' = [c \in Creatures |-> healthy[c] /\ c \notin summons(m)]
      /\ UNCHANGED <<held, pending, checked, vector, toAdd, vectors, index, at>>
  BY DEF destroySummons, checks, walk
<1>2. healthy' \in [Creatures -> BOOLEAN]
  BY <1>1, Objects
<1>3. /\ UnRef(summons(m)) \in [Creatures -> Int]
      /\ Freed(summons(m)) \in [Creatures -> Creatures \cup {Null}]
      /\ References(UnRef(summons(m)), life, Freed(summons(m)), vector, pending, held)
      /\ \A c \in Creatures : life[c] = "none" => UnRef(summons(m))[c] = 0
      /\ Masters(Freed(summons(m)), life)
  BY SummonsHaveMasters, FreedCounts
<1>4. /\ pending' \in [Creatures -> Nat] /\ held' \in [Creatures -> 0 .. MaxHeld]
      /\ checked' \in [Creatures -> BOOLEAN] /\ index' \in Vectors /\ at' \in Nat
      /\ \A c \in Creatures : checked'[c] => checked[c] /\ life[c] = "placed"
  BY <1>1, Objects DEF CreaturesInv, CheckedOK, TypeOK
<1>5. References(UnRef(summons(m)), life, Freed(summons(m)), vector, pending', held')
  BY <1>1, <1>3
<1>. QED BY <1>1, <1>2, <1>3, <1>4, <1>5, Objects, CountingStep

LEMMA convinceCreatureKeeps ==
  ASSUME CreaturesInv, NEW m \in Creatures, NEW c \in Creatures, convinceCreature(m, c)
  PROVE  CreaturesInv'
<1>. DEFINE own == summons(c)
            r == [UnRef(own) EXCEPT ![c] = IF master[c] = Null THEN @ + 1 ELSE @]
            ms == [Freed(own) EXCEPT ![c] = m]
<1>1. /\ life[m] = "placed" /\ life[c] = "placed" /\ m # c /\ master[m] = Null
      /\ Counts(r, ms, life)
      /\ healthy' = [x \in Creatures |-> healthy[x] /\ x \notin own]
      /\ UNCHANGED <<held, pending, checked, vector, toAdd, vectors, index, at>>
  BY DEF convinceCreature, checks, walk
<1>2. healthy' \in [Creatures -> BOOLEAN]
  BY <1>1, Objects
<1>3. /\ UnRef(own) \in [Creatures -> Int]
      /\ Freed(own) \in [Creatures -> Creatures \cup {Null}]
      /\ References(UnRef(own), life, Freed(own), vector, pending, held)
      /\ \A x \in Creatures : life[x] = "none" => UnRef(own)[x] = 0
      /\ Masters(Freed(own), life)
  BY SummonsHaveMasters, FreedCounts
<1>4. \A x \in Creatures : x \in own <=> master[x] = c
  BY DEF summons
<1>5. c \notin own
  BY <1>4, Objects DEF CreaturesInv, Masters
<1>6. /\ \A x \in Creatures : x \notin own => Freed(own)[x] = master[x]
      /\ \A x \in Creatures : Freed(own)[x] \in {master[x], Null}
      /\ \A x \in Creatures : x \in own => Freed(own)[x] = Null
  BY DEF Freed
<1>. HIDE DEF own
<1>7. /\ r \in [Creatures -> Int] /\ ms \in [Creatures -> Creatures \cup {Null}]
      /\ r[c] = IF master[c] = Null THEN UnRef(own)[c] + 1 ELSE UnRef(own)[c]
      /\ \A x \in Creatures \ {c} : r[x] = UnRef(own)[x] /\ ms[x] = Freed(own)[x]
      /\ ms[c] = m
  BY <1>3
<1>. HIDE DEF r, ms
<1>8. References(r, life, ms, vector, pending', held')
  <2>1. ASSUME NEW x \in Creatures
        PROVE  r[x] = One(life[x] = "placed") + One(vector[x] # -1) + pending'[x]
                      + One(ms[x] # Null) + held'[x]
    <3>1. /\ UnRef(own)[x] = One(life[x] = "placed") + One(vector[x] # -1) + pending[x]
                             + One(Freed(own)[x] # Null) + held[x]
          /\ pending[x] \in Nat /\ held[x] \in Nat
      BY <1>3, Objects DEF References
    <3>2. CASE x = c
      <4>1. Freed(own)[x] = master[x] /\ ms[x] # Null
        BY <1>5, <1>6, <1>7, <3>2, Objects
      <4>. QED BY <1>1, <1>7, <3>1, <3>2, <4>1 DEF One
    <3>3. CASE x # c
      BY <1>1, <1>7, <3>1, <3>3
    <3>. QED BY <3>2, <3>3
  <2>. QED BY <2>1 DEF References
<1>9. \A x \in Creatures : life[x] = "none" => r[x] = 0
  BY <1>1, <1>3, <1>7
<1>10. Masters(ms, life)
  <2>1. ASSUME NEW x \in Creatures, ms[x] # Null
        PROVE  life[x] # "none" /\ life[ms[x]] # "none" /\ ms[ms[x]] = Null
    <3>1. CASE x = c
      BY <1>1, <1>6, <1>7, <3>1
    <3>2. CASE x # c
      <4>1. ms[x] = master[x] /\ ms[x] # c /\ ms[x] \in Creatures
        BY <1>4, <1>6, <1>7, <2>1, <3>2
      <4>2. life[x] # "none" /\ life[ms[x]] # "none" /\ master[ms[x]] = Null
        BY <2>1, <4>1 DEF CreaturesInv, Masters
      <4>. QED BY <1>6, <1>7, <4>1, <4>2
    <3>. QED BY <3>1, <3>2
  <2>. QED BY <2>1 DEF Masters
<1>11. /\ pending' \in [Creatures -> Nat] /\ held' \in [Creatures -> 0 .. MaxHeld]
       /\ checked' \in [Creatures -> BOOLEAN] /\ index' \in Vectors /\ at' \in Nat
       /\ \A x \in Creatures : checked'[x] => checked[x] /\ life[x] = "placed"
  BY <1>1, Objects DEF CreaturesInv, CheckedOK, TypeOK
<1>. QED BY <1>1, <1>2, <1>7, <1>8, <1>9, <1>10, <1>11, Objects, CountingStep

LEMMA HoldKeeps ==
  ASSUME CreaturesInv, NEW c \in Creatures, Hold(c)
  PROVE  CreaturesInv'
<1>1. /\ life[c] = "placed" /\ held[c] < MaxHeld /\ held' = [held EXCEPT ![c] = @ + 1]
      /\ refs' = [refs EXCEPT ![c] = @ + 1]
      /\ UNCHANGED <<life, healthy, master, pending, checked, vector, toAdd, vectors, index, at>>
  BY DEF Hold, checks, walk
<1>2. /\ refs' \in [Creatures -> Nat] /\ held' \in [Creatures -> 0 .. MaxHeld]
      /\ refs'[c] = refs[c] + 1 /\ held'[c] = held[c] + 1 /\ refs[c] \in Nat
      /\ \A x \in Creatures \ {c} : refs'[x] = refs[x] /\ held'[x] = held[x]
  <2>1. /\ held \in [Creatures -> 0 .. MaxHeld] /\ refs \in [Creatures -> Nat] /\ MaxHeld \in Nat
    BY Objects
  <2>. QED BY <1>1, <2>1
<1>3. References(refs', life', master', vector', pending', held')
  <2>1. ASSUME NEW x \in Creatures
        PROVE  refs'[x] = One(life'[x] = "placed") + One(vector'[x] # -1) + pending'[x]
                          + One(master'[x] # Null) + held'[x]
    <3>1. /\ refs[x] = One(life[x] = "placed") + One(vector[x] # -1) + pending[x]
                       + One(master[x] # Null) + held[x]
          /\ pending[x] \in Nat /\ held[x] \in Nat
      BY Objects DEF CreaturesInv, References
    <3>2. CASE x = c
      BY <1>1, <1>2, <3>1, <3>2 DEF One
    <3>3. CASE x # c
      BY <1>1, <1>2, <3>1, <3>3
    <3>. QED BY <3>2, <3>3
  <2>. QED BY <2>1 DEF References
<1>4. Alive(refs', life')
  <2>1. refs'[c] # 0
    BY <1>2
  <2>. QED BY <1>1, <1>2, <2>1 DEF CreaturesInv, Alive
<1>5. TypeOK'
  BY <1>1, <1>2 DEF CreaturesInv, TypeOK
<1>6. Masters(master', life') /\ CheckedOK' /\ ListsOK'
  BY <1>1 DEF CreaturesInv, Masters, CheckedOK, ListsOK
<1>. QED BY <1>3, <1>4, <1>5, <1>6 DEF CreaturesInv

LEMMA LetGoKeeps ==
  ASSUME CreaturesInv, NEW c \in Creatures, LetGo(c)
  PROVE  CreaturesInv'
<1>. DEFINE r == UnRef({c})
<1>1. /\ held[c] > 0 /\ held' = [held EXCEPT ![c] = @ - 1] /\ Counts(r, master, life)
      /\ UNCHANGED <<healthy, pending, checked, vector, toAdd, vectors, index, at>>
  BY DEF LetGo, checks, walk
<1>2. /\ held' \in [Creatures -> 0 .. MaxHeld] /\ held'[c] = held[c] - 1
      /\ \A x \in Creatures \ {c} : held'[x] = held[x]
  <2>1. held \in [Creatures -> 0 .. MaxHeld] /\ MaxHeld \in Nat
    BY Objects
  <2>. QED BY <1>1, <2>1
<1>3. /\ r \in [Creatures -> Int] /\ r[c] = refs[c] - 1
      /\ \A x \in Creatures \ {c} : r[x] = refs[x]
  BY Objects DEF UnRef
<1>. HIDE DEF r
<1>4. References(r, life, master, vector, pending', held')
  <2>1. ASSUME NEW x \in Creatures
        PROVE  r[x] = One(life[x] = "placed") + One(vector[x] # -1) + pending'[x]
                      + One(master[x] # Null) + held'[x]
    <3>1. /\ refs[x] = One(life[x] = "placed") + One(vector[x] # -1) + pending[x]
                       + One(master[x] # Null) + held[x]
          /\ pending[x] \in Nat /\ held[x] \in Nat
      BY Objects DEF CreaturesInv, References
    <3>2. CASE x = c
      BY <1>1, <1>2, <1>3, <3>1, <3>2 DEF One
    <3>3. CASE x # c
      BY <1>1, <1>2, <1>3, <3>1, <3>3
    <3>. QED BY <3>2, <3>3
  <2>. QED BY <2>1 DEF References
<1>5. \A x \in Creatures : life[x] = "none" => r[x] = 0
  <2>1. life[c] # "none"
    <3>1. /\ refs[c] = One(life[c] = "placed") + One(vector[c] # -1) + pending[c]
                       + One(master[c] # Null) + held[c]
          /\ pending[c] \in Nat /\ held[c] \in Nat
      BY Objects DEF CreaturesInv, References
    <3>2. refs[c] # 0
      BY <1>1, <3>1 DEF One
    <3>. QED BY <3>2 DEF CreaturesInv, Alive
  <2>. QED BY <1>3, <2>1 DEF CreaturesInv, Alive
<1>6. /\ pending' \in [Creatures -> Nat] /\ healthy' \in [Creatures -> BOOLEAN]
      /\ checked' \in [Creatures -> BOOLEAN] /\ index' \in Vectors /\ at' \in Nat
      /\ \A x \in Creatures : checked'[x] => checked[x] /\ life[x] = "placed"
      /\ Masters(master, life)
  BY <1>1, Objects DEF CreaturesInv, CheckedOK, TypeOK
<1>. QED BY <1>1, <1>2, <1>3, <1>4, <1>5, <1>6, Objects, CountingStep

LEMMA NothingLeft ==
  ASSUME NEW i \in Nat, NEW j \in Nat, NEW k \in Nat, NEW m \in Nat, NEW n \in Nat,
         i + j + k + m + n = 0
  PROVE  k = 0
OBVIOUS

LEMMA cleanupKeeps ==
  ASSUME CreaturesInv, cleanup, UNCHANGED <<checks, index>>, at' \in Nat
  PROVE  CreaturesInv'
<1>. DEFINE r == [c \in Creatures |-> refs[c] - pending[c]]
<1>1. /\ Counts(r, master, life) /\ pending' = [c \in Creatures |-> 0]
      /\ UNCHANGED <<healthy, held, checked, vector, toAdd, vectors, index>>
  BY DEF cleanup, checks
<1>2. r \in [Creatures -> Int] /\ \A c \in Creatures : r[c] = refs[c] - pending[c]
  BY Objects
<1>. HIDE DEF r
<1>3. \A x \in Creatures :
        /\ refs[x] = One(life[x] = "placed") + One(vector[x] # -1) + pending[x]
                     + One(master[x] # Null) + held[x]
        /\ refs[x] \in Nat /\ pending[x] \in Nat /\ held[x] \in Nat /\ pending'[x] = 0
        /\ held'[x] = held[x]
  BY <1>1, Objects DEF CreaturesInv, References
<1>4. References(r, life, master, vector, pending', held')
  <2>1. ASSUME NEW x \in Creatures
        PROVE  r[x] = One(life[x] = "placed") + One(vector[x] # -1) + pending'[x]
                      + One(master[x] # Null) + held'[x]
    BY <1>2, <1>3 DEF One
  <2>. QED BY <2>1 DEF References
<1>5. \A x \in Creatures : life[x] = "none" => r[x] = 0
  <2>1. ASSUME NEW x \in Creatures, life[x] = "none"
        PROVE  r[x] = 0
    <3>1. refs[x] = 0
      BY <2>1 DEF CreaturesInv, Alive
    <3>2. pending[x] = 0
      <4>1. /\ refs[x] = One(life[x] = "placed") + One(vector[x] # -1) + pending[x]
                         + One(master[x] # Null) + held[x]
            /\ pending[x] \in Nat /\ held[x] \in Nat
        BY <1>3
      <4>. DEFINE i == One(life[x] = "placed")
                  j == One(vector[x] # -1)
                  m == One(master[x] # Null)
      <4>2. i \in Nat /\ j \in Nat /\ m \in Nat
        BY DEF One
      <4>3. i + j + pending[x] + m + held[x] = 0
        BY <3>1, <4>1, Zenon
      <4>. HIDE DEF i, j, m
      <4>. QED BY <4>1, <4>2, <4>3, NothingLeft
    <3>. QED BY <1>2, <3>1, <3>2
  <2>. QED BY <2>1
<1>6. /\ pending' \in [Creatures -> Nat] /\ healthy' \in [Creatures -> BOOLEAN]
      /\ held' \in [Creatures -> 0 .. MaxHeld]
      /\ checked' \in [Creatures -> BOOLEAN] /\ index' \in Vectors
      /\ \A x \in Creatures : checked'[x] => checked[x] /\ life[x] = "placed"
      /\ Masters(master, life)
  BY <1>1, Objects DEF CreaturesInv, CheckedOK, TypeOK
<1>. QED BY <1>1, <1>2, <1>4, <1>5, <1>6, Objects, CountingStep

LEMMA checkCreaturesKeeps ==
  ASSUME CreaturesInv, checkCreatures
  PROVE  CreaturesInv'
<1>. DEFINE K(v) == {i \in DOMAIN toAdd : vector[toAdd[i]] = v}
<1>1. /\ at' = 1 /\ index' = (index + 1) % EVENT_CREATURECOUNT /\ toAdd' = <<>>
      /\ vectors' = [v \in Vectors |-> vectors[v] \o Kept(toAdd, K(v))]
      /\ UNCHANGED <<life, healthy, master, refs, held, pending, checked, vector>>
  BY DEF checkCreatures, objects
<1>2. /\ toAdd \in Seq(Creatures) /\ vectors \in [Vectors -> Seq(Creatures)] /\ index \in Vectors
      /\ Once(toAdd) /\ \A v \in Vectors : Once(vectors[v])
  BY DEF CreaturesInv, TypeOK, ListsOK
<1>3. ASSUME NEW v \in Vectors
      PROVE  /\ vectors'[v] \in Seq(Creatures) /\ Once(vectors'[v])
             /\ \A c : c \in ToSet(vectors'[v])
                       <=> c \in ToSet(vectors[v]) \/ (c \in ToSet(toAdd) /\ vector[c] = v)
  <2>. DEFINE L == K(v)
  <2>1. L \in SUBSET DOMAIN toAdd
    OBVIOUS
  <2>2. \A c : c \in {toAdd[k] : k \in L} <=> c \in ToSet(toAdd) /\ vector[c] = v
    BY DEF ToSet
  <2>3. vectors'[v] = vectors[v] \o Kept(toAdd, L) /\ vectors[v] \in Seq(Creatures)
    BY <1>1, <1>2
  <2>. HIDE DEF L
  <2>4. /\ Kept(toAdd, L) \in Seq(Creatures) /\ Once(Kept(toAdd, L))
        /\ ToSet(Kept(toAdd, L)) = {toAdd[k] : k \in L}
    BY <1>2, <2>1, KeptOnce
  <2>5. ToSet(vectors[v]) \cap ToSet(Kept(toAdd, L)) = {}
    BY <2>2, <2>4 DEF CreaturesInv, ListsOK
  <2>6. /\ vectors'[v] \in Seq(Creatures) /\ Once(vectors'[v])
        /\ ToSet(vectors'[v]) = ToSet(vectors[v]) \cup ToSet(Kept(toAdd, L))
    BY <1>2, <2>3, <2>4, <2>5, ConcatOnce
  <2>. QED BY <2>2, <2>4, <2>6
<1>4. DOMAIN vectors' = Vectors /\ vectors' = [v \in Vectors |-> vectors'[v]]
  BY <1>1
<1>5. vectors' \in [Vectors -> Seq(Creatures)]
  BY <1>3, <1>4
<1>6. toAdd' \in Seq(Creatures) /\ Once(toAdd') /\ ToSet(toAdd') = {}
  BY <1>1 DEF Once, ToSet
<1>7. ListsOK'
  <2>1. \A v \in Vectors : \A c \in ToSet(vectors'[v]) : vector[c] = v
    BY <1>3 DEF CreaturesInv, ListsOK
  <2>2. \A c \in Creatures : vector[c] # -1 => vector[c] \in Vectors
    BY Objects
  <2>3. \A c \in Creatures : vector[c] # -1 => c \in ToSet(vectors'[vector[c]])
    BY <1>3, <2>2 DEF CreaturesInv, ListsOK
  <2>. QED BY <1>1, <1>3, <1>6, <2>1, <2>3 DEF ListsOK
<1>8. TypeOK'
  <2>1. index' \in Vectors /\ at' \in Nat
    BY <1>1, <1>2, VectorsOK
  <2>. QED BY <1>1, <1>5, <1>6, <2>1 DEF CreaturesInv, TypeOK
<1>9. References(refs', life', master', vector', pending', held')
      /\ Alive(refs', life') /\ Masters(master', life') /\ CheckedOK'
  BY <1>1 DEF CreaturesInv, CheckedOK
<1>. QED BY <1>7, <1>8, <1>9 DEF CreaturesInv

LEMMA onThinkKeeps ==
  ASSUME CreaturesInv, onThink
  PROVE  CreaturesInv'
<1>1. at' = at + 1 /\ UNCHANGED <<life, healthy, master, refs, held, pending, checked, vector,
                                  toAdd, vectors, index>>
  BY DEF onThink, objects, checks
<1>2. TypeOK'
  BY <1>1 DEF CreaturesInv, TypeOK
<1>3. References(refs', life', master', vector', pending', held')
      /\ Alive(refs', life') /\ Masters(master', life')
  BY <1>1 DEF CreaturesInv
<1>. QED BY <1>1, <1>2, <1>3 DEF CreaturesInv, CheckedOK, ListsOK

LEMMA UnlistKeeps ==
  ASSUME CreaturesInv, Unlist
  PROVE  CreaturesInv'
<1>. DEFINE c == Current
<1>1. /\ Walking /\ ~checked[c] /\ vector' = [vector EXCEPT ![c] = -1]
      /\ pending' = [pending EXCEPT ![c] = @ + 1]
      /\ vectors' = [vectors EXCEPT ![index] = RemoveAt(@, at)]
      /\ UNCHANGED <<life, healthy, master, refs, held, checked, toAdd, index, at>>
  BY DEF Unlist, walk
<1>2. /\ index \in Vectors /\ vectors \in [Vectors -> Seq(Creatures)]
      /\ vectors[index] \in Seq(Creatures) /\ Once(vectors[index])
      /\ at \in 1 .. Len(vectors[index]) /\ c = vectors[index][at]
  BY <1>1 DEF CreaturesInv, TypeOK, ListsOK, Walking, Current
<1>3. c \in Creatures /\ c \in ToSet(vectors[index])
  BY <1>2, EntriesOf
<1>. HIDE DEF c
<1>4. vector[c] = index /\ vector[c] # -1 /\ c \notin ToSet(toAdd)
      /\ \A v \in Vectors \ {index} : c \notin ToSet(vectors[v])
  BY <1>2, <1>3, VectorsOK DEF CreaturesInv, ListsOK
<1>5. /\ RemoveAt(vectors[index], at) \in Seq(Creatures) /\ Once(RemoveAt(vectors[index], at))
      /\ ToSet(RemoveAt(vectors[index], at)) = ToSet(vectors[index]) \ {c}
  BY <1>2, RemoveAtOnce
<1>6. /\ vectors' \in [Vectors -> Seq(Creatures)]
      /\ vectors'[index] = RemoveAt(vectors[index], at)
      /\ \A v \in Vectors \ {index} : vectors'[v] = vectors[v]
  BY <1>1, <1>2, <1>5
<1>7. /\ vector' \in [Creatures -> Vectors \cup {-1}] /\ vector'[c] = -1
      /\ \A x \in Creatures \ {c} : vector'[x] = vector[x]
  BY <1>1, <1>3, Objects
<1>8. ListsOK'
  <2>1. \A v \in Vectors : Once(vectors'[v])
    BY <1>5, <1>6 DEF CreaturesInv, ListsOK
  <2>2. /\ ToSet(toAdd) \subseteq Creatures
        /\ \A v \in Vectors : ToSet(vectors[v]) \subseteq Creatures
    BY <1>2, EntriesOf DEF CreaturesInv, TypeOK
  <2>3. \A x \in ToSet(toAdd) : vector'[x] # -1
    BY <1>4, <1>7, <2>2 DEF CreaturesInv, ListsOK
  <2>4. \A v \in Vectors : ToSet(vectors'[v]) = ToSet(vectors[v]) \ {c}
    BY <1>4, <1>5, <1>6
  <2>5. \A v \in Vectors : \A x \in ToSet(vectors'[v]) : vector'[x] = v /\ x \notin ToSet(toAdd)
    BY <1>7, <2>2, <2>4 DEF CreaturesInv, ListsOK
  <2>6. ASSUME NEW x \in Creatures, vector'[x] # -1
        PROVE  x \in ToSet(toAdd) \/ x \in ToSet(vectors'[vector'[x]])
    <3>1. x # c /\ vector'[x] = vector[x] /\ vector[x] \in Vectors
      BY <1>7, <2>6, Objects
    <3>. QED BY <2>4, <2>6, <3>1 DEF CreaturesInv, ListsOK
  <2>7. Once(toAdd)
    BY DEF CreaturesInv, ListsOK
  <2>. QED BY <1>1, <2>1, <2>3, <2>5, <2>6, <2>7 DEF ListsOK
<1>9. pending' \in [Creatures -> Nat] /\ pending'[c] = pending[c] + 1 /\ pending[c] \in Nat
      /\ \A x \in Creatures \ {c} : pending'[x] = pending[x]
  BY <1>1, <1>3, Objects
<1>10. References(refs', life', master', vector', pending', held')
  <2>1. ASSUME NEW x \in Creatures
        PROVE  refs'[x] = One(life'[x] = "placed") + One(vector'[x] # -1) + pending'[x]
                          + One(master'[x] # Null) + held'[x]
    <3>1. /\ refs[x] = One(life[x] = "placed") + One(vector[x] # -1) + pending[x]
                       + One(master[x] # Null) + held[x]
          /\ pending[x] \in Nat /\ held[x] \in Nat
      BY Objects DEF CreaturesInv, References
    <3>2. CASE x = c
      BY <1>1, <1>4, <1>7, <1>9, <3>1, <3>2 DEF One
    <3>3. CASE x # c
      BY <1>1, <1>7, <1>9, <3>1, <3>3
    <3>. QED BY <3>2, <3>3
  <2>. QED BY <2>1 DEF References
<1>11. CheckedOK'
  BY <1>1, <1>7 DEF CreaturesInv, CheckedOK
<1>12. TypeOK'
  BY <1>1, <1>6, <1>7, <1>9 DEF CreaturesInv, TypeOK
<1>13. Alive(refs', life') /\ Masters(master', life')
  BY <1>1 DEF CreaturesInv
<1>. QED BY <1>8, <1>10, <1>11, <1>12, <1>13 DEF CreaturesInv

LEMMA StepKeeps ==
  ASSUME CreaturesInv, [Next]_vars
  PROVE  CreaturesInv'
<1>1. CASE UNCHANGED vars
  <2>1. UNCHANGED <<life, healthy, master, refs, held, pending, checked, vector, toAdd, vectors,
                    index, at>>
    BY <1>1 DEF vars, objects, checks, walk
  <2>2. TypeOK'
    BY <2>1 DEF CreaturesInv, TypeOK
  <2>3. References(refs', life', master', vector', pending', held')
        /\ Alive(refs', life') /\ Masters(master', life')
    BY <2>1 DEF CreaturesInv
  <2>. QED BY <2>1, <2>2, <2>3 DEF CreaturesInv, CheckedOK, ListsOK
<1>2. CASE CheckDone \/ Cleanup
  <2>1. cleanup /\ UNCHANGED <<checks, index>> /\ at' \in Nat
    BY <1>2 DEF CheckDone, Cleanup, walk, CreaturesInv, TypeOK
  <2>. QED BY <2>1, cleanupKeeps
<1>. QED
  BY <1>1, <1>2, placeCreatureKeeps, removeCreatureKeeps, changeHealthKeeps, setIdleKeeps,
     destroySummonsKeeps, convinceCreatureKeeps, HoldKeeps, LetGoKeeps, checkCreaturesKeeps,
     onThinkKeeps, onDeathKeeps, UnlistKeeps, Zenon
  DEF Next

LEMMA InitKeeps ==
  ASSUME Init
  PROVE  CreaturesInv
<1>1. TypeOK
  BY VectorsOK, CreaturesAssumption DEF Init, TypeOK
<1>2. References(refs, life, master, vector, pending, held)
  BY DEF Init, References, One
<1>3. Alive(refs, life) /\ Masters(master, life) /\ CheckedOK
  BY DEF Init, Alive, Masters, CheckedOK
<1>4. ListsOK
  BY DEF Init, ListsOK, Once, ToSet
<1>. QED BY <1>1, <1>2, <1>3, <1>4 DEF CreaturesInv

THEOREM CreaturesInvariant == Spec => []CreaturesInv
<1>1. Init => CreaturesInv
  BY InitKeeps
<1>2. CreaturesInv /\ [Next]_vars => CreaturesInv'
  BY StepKeeps
<1>. QED BY <1>1, <1>2, PTL DEF Spec

(* Type correctness; no count of references is ever negative, and no vector is out of
   bounds. *)
THEOREM TypesCorrect == Spec => []TypeOK
<1>1. CreaturesInv => TypeOK
  BY DEF CreaturesInv
<1>. QED BY <1>1, CreaturesInvariant, PTL

-----------------------------------------------------------------------------
(* The entries and the references of a creature, counted. *)

LEMMA EntriesCount ==
  ASSUME CreaturesInv
  PROVE  EntriesCounted
<1>. DEFINE In(s, c) == Cardinality({i \in DOMAIN s : s[i] = c})
<1>1. ASSUME NEW c \in Creatures, NEW v \in Vectors
      PROVE  /\ In(vectors[v], c) = IF c \in ToSet(vectors[v]) THEN 1 ELSE 0
             /\ c \in ToSet(vectors[v]) => vector[c] = v
  BY CountOnce DEF CreaturesInv, TypeOK, ListsOK
<1>2. ASSUME NEW c \in Creatures
      PROVE  In(toAdd, c) = IF c \in ToSet(toAdd) THEN 1 ELSE 0
  BY CountOnce DEF CreaturesInv, TypeOK, ListsOK
<1>. HIDE DEF In
<1>3. ASSUME NEW c \in Creatures
      PROVE  In(toAdd, c) + Cardinality({v \in Vectors : In(vectors[v], c) = 1}) = One(vector[c] # -1)
  <2>. DEFINE listed == {v \in Vectors : In(vectors[v], c) = 1}
  <2>1. listed = {v \in Vectors : c \in ToSet(vectors[v])}
    BY <1>1
  <2>2. CASE vector[c] = -1
    <3>1. listed = {}
      BY <1>1, <2>1, <2>2, VectorsOK
    <3>2. In(toAdd, c) = 0
      BY <1>2, <2>2 DEF CreaturesInv, ListsOK
    <3>3. Cardinality(listed) = 0
      BY <3>1, FS_EmptySet
    <3>. QED BY <2>2, <3>2, <3>3 DEF One
  <2>3. CASE vector[c] # -1 /\ c \in ToSet(toAdd)
    <3>1. listed = {}
      BY <2>1, <2>3 DEF CreaturesInv, ListsOK
    <3>2. In(toAdd, c) = 1
      BY <1>2, <2>3
    <3>3. Cardinality(listed) = 0
      BY <3>1, FS_EmptySet
    <3>. QED BY <2>3, <3>2, <3>3 DEF One
  <2>4. CASE vector[c] # -1 /\ c \notin ToSet(toAdd)
    <3>1. vector[c] \in Vectors /\ c \in ToSet(vectors[vector[c]])
      BY <2>4, Objects DEF CreaturesInv, ListsOK
    <3>2. listed = {vector[c]}
      BY <1>1, <2>1, <3>1
    <3>3. In(toAdd, c) = 0
      BY <1>2, <2>4
    <3>4. Cardinality(listed) = 1
      BY <3>2, FS_Singleton
    <3>. QED BY <2>4, <3>3, <3>4 DEF One
  <2>. QED BY <2>2, <2>3, <2>4
<1>4. \A c \in Creatures : \A v \in Vectors : In(vectors[v], c) <= One(vector[c] = v)
  BY <1>1 DEF One
<1>5. \A c \in Creatures :
        /\ checked[c] => life[c] = "placed" /\ vector[c] # -1
        /\ master[c] # Null => life[c] # "none" /\ life[master[c]] # "none"
        /\ refs[c] = One(life[c] = "placed") + One(vector[c] # -1) + pending[c]
                     + One(master[c] # Null) + held[c]
        /\ life[c] = "none" <=> refs[c] = 0
  BY DEF CreaturesInv, CheckedOK, Masters, References, Alive
<1>. QED BY <1>3, <1>4, <1>5, Zenon DEF EntriesCounted, Quantify, In, One

(* A creature is listed once or not at all, where checkVector says, and its references are
   those that refCount counts. *)
THEOREM EntriesAreCounted == Spec => []EntriesCounted
BY EntriesCount, CreaturesInvariant, PTL
=============================================================================
