------------------------------- MODULE DecayProofs -------------------------------
(***************************************************************************)
(* What Decay guarantees for any items, any types that decay well and any  *)
(* number of buckets: the types, that no item is forgotten, that every     *)
(* reference to an item is counted, and that an item which is left alone   *)
(* decays in time.                                                         *)
(***************************************************************************)
EXTENDS Decay, FiniteSetTheorems, TLAPS

-----------------------------------------------------------------------------
(* Types.  An entry may be taken out of a bucket because what checkDecay has still to
   visit is in it; without that, TypeOK is not inductive. *)

WalkOK ==
  /\ pc = "idle" => left = None
  /\ pc # "idle" => \A i \in Items : left[i] <= decayItems[bucket][i]

(* Half of TypeOK: the items, and what cleanup() gives up. *)
ItemsOK ==
  /\ place \in [Items -> {"world", "removed", "unborn"}]
  /\ id \in [Items -> Types]
  /\ duration \in [Items -> Nat \cup {NoDuration}]
  /\ decaying \in [Items -> BOOLEAN]
  /\ refs \in [Items -> Nat]
  /\ releaseThings \in [Items -> Nat]
  /\ watched \subseteq Items
  /\ due \in [Items -> Int]

(* The other half: the lists and the loop. *)
ListsOK ==
  /\ decayItems \in [Ring -> [Items -> Nat]]
  /\ toDecayItems \in [Items -> Nat]
  /\ lastBucket \in Ring
  /\ pc \in {"idle", "walk", "decayed"}
  /\ left \in [Items -> Nat]
  /\ restart \in Items \cup {Nothing}

LEMMA TypeHalves == TypeOK <=> ItemsOK /\ ListsOK
BY DEF TypeOK, ItemsOK, ListsOK

LEMMA InRing ==
  /\ \A n \in Nat : n % Buckets \in Ring
  /\ lastBucket \in Ring => bucket \in Ring
<1>1. \A n \in Nat : n % Buckets \in Ring
  BY DecayAssumption DEF Ring
<1>. QED BY <1>1, DecayAssumption DEF Ring, bucket

LEMMA TransformTypes ==
  ASSUME ItemsOK, NEW i \in Items, NEW t \in Types, NEW rest \in Nat \cup {NoDuration},
         NEW result \in Items, NEW given \in Nat, TransformItem(i, t, rest, result, given)
  PROVE  ItemsOK'
<1>1. /\ watched' \subseteq Items
      /\ due' \in [Items -> Int]
  BY DEF TransformItem, Unwatch, ItemsOK
<1>2. DecayTime[t] \in Nat
  BY DecayAssumption
<1>3. CASE Class[id[i]] = Class[t] /\ ((id[i] \in OnTop) = (t \in OnTop))
  <2>1. /\ SetID(i, t, rest)
        /\ releaseThings' = Plus(releaseThings, i, given)
        /\ UNCHANGED <<place, refs>>
    BY <1>3 DEF TransformItem
  <2>2. /\ id' \in [Items -> Types]
        /\ duration' \in [Items -> Nat \cup {NoDuration}]
    BY <1>2, <2>1 DEF SetID, ItemsOK
  <2>3. decaying' \in [Items -> BOOLEAN]
    BY <2>1, Zenon DEF SetID, ItemsOK
  <2>4. releaseThings' \in [Items -> Nat]
    BY <2>1 DEF Plus, ItemsOK
  <2>. QED BY <1>1, <2>1, <2>2, <2>3, <2>4 DEF ItemsOK
<1>4. CASE ~(Class[id[i]] = Class[t] /\ ((id[i] \in OnTop) = (t \in OnTop)))
  <2>1. /\ Replace(i, result, t)
        /\ releaseThings' = Plus(releaseThings, i, given + 1)
    BY <1>4 DEF TransformItem
  <2>2. /\ place' \in [Items -> {"world", "removed", "unborn"}]
        /\ id' \in [Items -> Types]
        /\ duration' \in [Items -> Nat \cup {NoDuration}]
        /\ refs' \in [Items -> Nat]
    BY <1>2, <2>1 DEF Replace, ItemsOK
  <2>3. decaying' \in [Items -> BOOLEAN]
    BY <2>1, Zenon DEF Replace, ItemsOK
  <2>4. releaseThings' \in [Items -> Nat]
    BY <2>1 DEF Plus, ItemsOK
  <2>. QED BY <1>1, <2>2, <2>3, <2>4 DEF ItemsOK
<1>. QED BY <1>3, <1>4

LEMMA RemoveTypes ==
  ASSUME ItemsOK, NEW i \in Items, NEW given \in Nat, RemoveItem(i, given)
  PROVE  ItemsOK'
BY DEF RemoveItem, Unwatch, Plus, ItemsOK

LEMMA InternalDecayTypes ==
  ASSUME ItemsOK, NEW i \in Items, NEW rest \in Nat \cup {NoDuration}, NEW given \in Nat,
         NEW pending \in Items \cup {Nothing}, canDecay(i),
         InternalDecayItem(i, rest, given, pending)
  PROVE  ItemsOK' /\ restart' \in Items \cup {Nothing}
<1>1. CASE DecayTo[id[i]] = Gone
  BY <1>1, RemoveTypes DEF InternalDecayItem
<1>2. CASE DecayTo[id[i]] # Gone
  <2>1. PICK j \in Items :
          TransformItem(i, DecayTo[id[i]], rest, j, given) /\ restart' = j
    BY <1>2 DEF InternalDecayItem
  <2>2. DecayTo[id[i]] \in Types
    BY <1>2, DecayAssumption DEF canDecay, ItemsOK
  <2>. QED BY <2>1, <2>2, TransformTypes
<1>. QED BY <1>1, <1>2

LEMMA StartDecayTypes ==
  ASSUME TypeOK, WalkOK, NEW i \in Items, NEW pending \in Items \cup {Nothing},
         StartDecay(i, pending)
  PROVE  TypeOK' /\ WalkOK'
<1>1. UNCHANGED <<decayItems, lastBucket, pc, left>>
  BY DEF StartDecay
<1>2. WalkOK'
  BY <1>1 DEF WalkOK, bucket
<1>3. ItemsOK /\ ListsOK
  BY TypeHalves
<1>4. CASE ~canDecay(i) \/ decaying[i]
  <2>1. /\ restart' = pending
        /\ UNCHANGED <<attributes, refs, toDecayItems, releaseThings, history>>
    BY <1>4, Zenon DEF StartDecay
  <2>2. ItemsOK' /\ ListsOK'
    BY <1>1, <1>3, <2>1 DEF ItemsOK, ListsOK, attributes, history
  <2>. QED BY <1>2, <2>2, TypeHalves DEF TypeOK, ItemsOK, ListsOK
<1>5. CASE canDecay(i) /\ ~decaying[i] /\ getDuration(i) > 0
  <2>1. /\ List(i)
        /\ restart' = pending
        /\ UNCHANGED <<place, id, duration, releaseThings>>
    BY <1>5, Zenon DEF StartDecay
  <2>2. /\ refs' \in [Items -> Nat]
        /\ toDecayItems' \in [Items -> Nat]
    BY <1>3, <2>1 DEF List, Plus, ItemsOK, ListsOK
  <2>3. decaying' \in [Items -> BOOLEAN]
    BY <1>3, <2>1, Zenon DEF List, ItemsOK
  <2>4. /\ watched' \subseteq Items
        /\ due' \in [Items -> Int]
    <3>1. Calls(duration[i]) \in Int
      BY <1>3, DecayAssumption DEF Calls, ItemsOK, NoDuration
    <3>. QED BY <1>3, <2>1, <3>1 DEF List, history, ItemsOK
  <2>5. ItemsOK' /\ ListsOK'
    BY <1>1, <1>3, <2>1, <2>2, <2>3, <2>4 DEF ItemsOK, ListsOK
  <2>. QED BY <1>2, <2>5 DEF TypeOK, ItemsOK, ListsOK
<1>6. CASE canDecay(i) /\ ~decaying[i] /\ ~(getDuration(i) > 0)
  <2>1. /\ InternalDecayItem(i, duration[i], 0, pending)
        /\ toDecayItems' = toDecayItems
    BY <1>6, Zenon DEF StartDecay
  <2>2. ItemsOK' /\ restart' \in Items \cup {Nothing}
    BY <1>3, <1>6, <2>1, InternalDecayTypes DEF ItemsOK
  <2>3. ListsOK'
    BY <1>1, <1>3, <2>1, <2>2 DEF ListsOK
  <2>. QED BY <1>2, <2>2, <2>3 DEF TypeOK, ItemsOK, ListsOK
<1>. QED BY <1>4, <1>5, <1>6, Zenon

LEMMA CleanupTypes ==
  ASSUME TypeOK, NEW last \in Ring, Cleanup(last), UNCHANGED history
  PROVE  /\ ItemsOK'
         /\ decayItems' \in [Ring -> [Items -> Nat]]
         /\ toDecayItems' \in [Items -> Nat]
<1>1. /\ place' \in [Items -> {"world", "removed", "unborn"}]
      /\ id' \in [Items -> Types]
      /\ duration' \in [Items -> Nat \cup {NoDuration}]
  BY DecayAssumption DEF Cleanup, TypeOK, SomeType
<1>2. decaying' \in [Items -> BOOLEAN]
  BY Zenon DEF Cleanup
<1>3. refs' \in [Items -> Nat]
  <2>1. \A i \in Items : i \notin Deleted => refs[i] - releaseThings[i] \in Nat
    BY DEF Deleted, TypeOK
  <2>. QED BY <2>1 DEF Cleanup
<1>4. /\ releaseThings' \in [Items -> Nat]
      /\ toDecayItems' \in [Items -> Nat]
      /\ decayItems' \in [Ring -> [Items -> Nat]]
  BY DEF Cleanup, None, TypeOK
<1>. QED BY <1>1, <1>2, <1>3, <1>4 DEF TypeOK, ItemsOK, history

(* The rest of the game leaves the loop of checkDecay alone. *)
LEMMA GameTypes ==
  ASSUME TypeOK, WalkOK, Game \/ Restart
  PROVE  TypeOK' /\ WalkOK'
<1>1. ItemsOK /\ ListsOK
  BY TypeHalves
<1>2. ASSUME UNCHANGED <<lists, pc, left, restart>>, ItemsOK'
      PROVE  TypeOK' /\ WalkOK'
  <2>1. ListsOK'
    BY <1>1, <1>2 DEF ListsOK, lists
  <2>2. WalkOK'
    BY <1>2 DEF WalkOK, lists, bucket
  <2>. QED BY <1>2, <2>1, <2>2 DEF TypeOK, ItemsOK, ListsOK
<1>3. ASSUME NEW i \in Items, NEW t \in Types, Create(i, t)
      PROVE  TypeOK' /\ WalkOK'
  <2>1. /\ place' \in [Items -> {"world", "removed", "unborn"}]
        /\ id' \in [Items -> Types]
        /\ duration' \in [Items -> Nat \cup {NoDuration}]
        /\ refs' \in [Items -> Nat]
    BY <1>1, <1>3, DecayAssumption DEF Create, ItemsOK
  <2>2. decaying' \in [Items -> BOOLEAN]
    BY <1>1, <1>3, Zenon DEF Create, ItemsOK
  <2>. QED BY <1>1, <1>2, <1>3, <2>1, <2>2 DEF Create, ItemsOK, history
<1>4. ASSUME NEW i \in Items, NEW t \in Types, GameTransforms(i, t)
      PROVE  TypeOK' /\ WalkOK'
  <2>1. PICK j \in Items : TransformItem(i, t, duration[i], j, 0)
    BY <1>4 DEF GameTransforms
  <2>2. ItemsOK'
    BY <1>1, <2>1, TransformTypes DEF ItemsOK
  <2>. QED BY <1>2, <1>4, <2>2 DEF GameTransforms
<1>5. ASSUME NEW i \in Items, GameRemoves(i)
      PROVE  TypeOK' /\ WalkOK'
  BY <1>1, <1>2, <1>5, RemoveTypes DEF GameRemoves
<1>6. ASSUME NEW i \in Items, GameStartsDecay(i)
      PROVE  TypeOK' /\ WalkOK'
  BY <1>1, <1>6, StartDecayTypes DEF GameStartsDecay, ListsOK
<1>7. CASE Restart
  BY <1>1, <1>7, StartDecayTypes DEF Restart, ListsOK
<1>8. CASE CreatureTaskEnds
  <2>1. /\ ItemsOK'
        /\ decayItems' \in [Ring -> [Items -> Nat]]
        /\ toDecayItems' \in [Items -> Nat]
    BY <1>1, <1>8, CleanupTypes DEF CreatureTaskEnds, ListsOK
  <2>2. WalkOK'
    BY <1>8 DEF CreatureTaskEnds, WalkOK
  <2>. QED BY <1>1, <1>8, <2>1, <2>2 DEF CreatureTaskEnds, TypeOK, ItemsOK, ListsOK
<1>. QED BY <1>3, <1>4, <1>5, <1>6, <1>7, <1>8 DEF Game

(* An entry that the loop visits is in the bucket, and is still to be visited. *)
LEMMA Visited ==
  ASSUME TypeOK, WalkOK, NEW i \in Items, Walks(i)
  PROVE  /\ left' \in [Items -> Nat]
         /\ decayItems[bucket][i] > 0
         /\ left'[i] = left[i] - 1
         /\ \A j \in Items : left'[j] <= left[j] /\ left[j] <= decayItems[bucket][j]
<1>1. left[i] > 0 /\ left' = Plus(left, i, -1) /\ pc # "idle"
  BY DEF Walks
<1>2. \A j \in Items : left[j] \in Nat /\ left[j] <= decayItems[bucket][j]
  BY <1>1 DEF WalkOK, TypeOK
<1>3. decayItems[bucket][i] \in Nat
  BY InRing DEF TypeOK
<1>. QED BY <1>1, <1>2, <1>3 DEF Plus, TypeOK

LEMMA ErasesTypes ==
  ASSUME TypeOK, WalkOK, NEW i \in Items, Walks(i), Erases(i)
  PROVE  /\ decayItems' \in [Ring -> [Items -> Nat]]
         /\ \A j \in Items : left'[j] <= decayItems'[bucket][j]
<1>1. bucket \in Ring
  BY InRing DEF TypeOK
<1>2. decayItems' = [decayItems EXCEPT ![bucket][i] = @ - 1]
  BY DEF Erases
<1>3. /\ decayItems[bucket] \in [Items -> Nat]
      /\ decayItems[bucket][i] - 1 \in Nat
  BY <1>1, Visited DEF TypeOK
<1>4. decayItems' \in [Ring -> [Items -> Nat]]
  BY <1>1, <1>2, <1>3 DEF TypeOK
<1>5. \A j \in Items :
        decayItems'[bucket][j] = IF j = i THEN decayItems[bucket][i] - 1 ELSE decayItems[bucket][j]
  BY <1>1, <1>2, <1>3 DEF TypeOK
<1>6. \A j \in Items : left'[j] \in Int /\ left[j] \in Int /\ decayItems[bucket][j] \in Int
  BY <1>3, Visited DEF TypeOK
<1>7. left'[i] = left[i] - 1 /\ \A j \in Items : left'[j] <= left[j] /\ left[j] <= decayItems[bucket][j]
  BY Visited
<1>. QED BY <1>4, <1>5, <1>6, <1>7

LEMMA RemainingTypes ==
  ASSUME TypeOK, NEW i \in Items
  PROVE  /\ Remaining(i) \in Nat
         /\ Decreased(i) \in Nat \cup {NoDuration}
         /\ (bucket + Remaining(i)) % Buckets \in Ring
<1>1. duration[i] \in Nat \/ duration[i] = NoDuration
  BY DEF TypeOK
<1>2. Remaining(i) \in Nat
  BY <1>1, DecayAssumption DEF Remaining, getDuration, NoDuration
<1>3. bucket \in Nat
  BY InRing DEF TypeOK, Ring
<1>. QED BY <1>2, <1>3, InRing DEF Decreased

LEMMA OtherBucket ==
  ASSUME NEW b \in Ring, NEW n \in 1..(Buckets - 1)
  PROVE  (b + n) % Buckets \in Ring \ {b}
<1>1. b \in 0..(Buckets - 1) /\ (b + n) % Buckets \in Ring
  BY InRing, DecayAssumption DEF Ring
<1>2. (b + n) % Buckets # b
  BY <1>1, DecayAssumption
<1>. QED BY <1>1, <1>2

(* An item that moves takes its entry to another bucket. *)
LEMMA MovesTypes ==
  ASSUME TypeOK, WalkOK, NEW i \in Items, WalkMoves(i)
  PROVE  /\ decayItems' \in [Ring -> [Items -> Nat]]
         /\ \A j \in Items : left'[j] <= decayItems'[bucket][j]
         /\ \A b \in Ring, j \in Items : j # i => decayItems'[b][j] = decayItems[b][j]
         /\ \E b \in Ring : decayItems'[b][i] > 0
<1>1. Walks(i) /\ bucket \in Ring
  BY InRing DEF WalkMoves, TypeOK
<1>2. /\ left'[i] = left[i] - 1
      /\ \A j \in Items : left'[j] <= left[j] /\ left[j] <= decayItems[bucket][j]
      /\ \A j \in Items : left'[j] \in Int /\ left[j] \in Int /\ decayItems[bucket][j] \in Int
      /\ decayItems[bucket] \in [Items -> Nat]
      /\ decayItems[bucket][i] > 0
  BY <1>1, Visited DEF TypeOK
<1>3. CASE Remaining(i) < Buckets
  <2>1. Remaining(i) \in 1..(Buckets - 1)
    BY <1>3, RemainingTypes, DecayAssumption DEF WalkMoves
  <2>2. PICK there \in Ring \ {bucket} :
          decayItems' = [decayItems EXCEPT ![bucket][i] = @ - 1, ![there][i] = @ + 1]
    BY <1>1, <1>3, <2>1, OtherBucket DEF WalkMoves
  <2>3. /\ decayItems[bucket][i] - 1 \in Nat
        /\ decayItems[there] \in [Items -> Nat]
        /\ decayItems[there][i] \in Nat
        /\ decayItems[there][i] + 1 \in Nat
    BY <1>2, <2>2 DEF TypeOK
  <2>4. \A b \in Ring, j \in Items :
          decayItems'[b][j] = IF j # i THEN decayItems[b][j]
                              ELSE IF b = bucket THEN decayItems[b][j] - 1
                              ELSE IF b = there THEN decayItems[b][j] + 1
                              ELSE decayItems[b][j]
    BY <1>1, <2>2 DEF TypeOK
  <2>5. decayItems' \in [Ring -> [Items -> Nat]]
    BY <1>1, <1>2, <2>2, <2>3 DEF TypeOK
  <2>6. decayItems'[there][i] > 0
    <3>1. decayItems'[there][i] = decayItems[there][i] + 1
      BY <2>2, <2>4
    <3>. QED BY <2>3, <3>1
  <2>7. \A j \in Items : left'[j] <= decayItems'[bucket][j]
    BY <1>1, <1>2, <2>4
  <2>8. \A b \in Ring, j \in Items : j # i => decayItems'[b][j] = decayItems[b][j]
    BY <2>4
  <2>9. \E b \in Ring : decayItems'[b][i] > 0
    BY <2>2, <2>6, Zenon
  <2>. QED BY <2>5, <2>7, <2>8, <2>9, Zenon
<1>4. CASE ~(Remaining(i) < Buckets)
  <2>1. decayItems' = decayItems
    BY <1>4 DEF WalkMoves
  <2>. QED BY <1>1, <1>2, <2>1 DEF TypeOK
<1>. QED BY <1>3, <1>4

LEMMA CheckDecayTypes ==
  ASSUME TypeOK, WalkOK, CheckDecay
  PROVE  TypeOK' /\ WalkOK'
<1>1. ItemsOK /\ ListsOK /\ bucket \in Ring
  BY TypeHalves, InRing DEF ListsOK
<1>2. CASE CheckDecayBegins
  <2>1. /\ decayItems[bucket] \in [Items -> Nat]
        /\ due' \in [Items -> Int]
    BY <1>1, <1>2 DEF CheckDecayBegins, ItemsOK, ListsOK
  <2>2. ItemsOK' /\ ListsOK'
    BY <1>1, <1>2, <2>1 DEF CheckDecayBegins, ItemsOK, ListsOK, attributes, lists
  <2>3. WalkOK'
    BY <1>2, <2>1 DEF CheckDecayBegins, WalkOK, bucket, lists
  <2>. QED BY <2>2, <2>3 DEF TypeOK, ItemsOK, ListsOK
<1>3. ASSUME NEW i \in Items, WalkDrops(i)
      PROVE  TypeOK' /\ WalkOK'
  <2>1. Walks(i) /\ Erases(i)
    BY <1>3 DEF WalkDrops
  <2>2. decaying' \in [Items -> BOOLEAN]
    BY <1>1, <1>3, Zenon DEF WalkDrops, Drops, ItemsOK
  <2>3. releaseThings' \in [Items -> Nat]
    BY <1>1, <1>3 DEF WalkDrops, Drops, Plus, ItemsOK
  <2>4. ItemsOK'
    BY <1>1, <1>3, <2>2, <2>3 DEF WalkDrops, ItemsOK, history
  <2>5. ListsOK'
    BY <1>1, <1>3, <2>1, ErasesTypes, Visited DEF WalkDrops, ListsOK
  <2>6. WalkOK'
    BY <1>3, <2>1, ErasesTypes DEF WalkDrops, WalkOK, bucket
  <2>. QED BY <2>4, <2>5, <2>6 DEF TypeOK, ItemsOK, ListsOK
<1>4. ASSUME NEW i \in Items, WalkDecays(i)
      PROVE  TypeOK' /\ WalkOK'
  <2>1. Walks(i) /\ Erases(i) /\ canDecay(i)
    BY <1>4 DEF WalkDecays
  <2>2. ItemsOK' /\ restart' \in Items \cup {Nothing}
    BY <1>1, <1>4, <2>1, InternalDecayTypes, RemainingTypes DEF WalkDecays
  <2>3. ListsOK'
    BY <1>1, <1>4, <2>1, <2>2, ErasesTypes, Visited DEF WalkDecays, ListsOK
  <2>4. WalkOK'
    BY <1>4, <2>1, ErasesTypes DEF WalkDecays, WalkOK, bucket
  <2>. QED BY <2>2, <2>3, <2>4 DEF TypeOK, ItemsOK, ListsOK
<1>5. ASSUME NEW i \in Items, WalkMoves(i)
      PROVE  TypeOK' /\ WalkOK'
  <2>1. Walks(i) /\ duration' \in [Items -> Nat \cup {NoDuration}]
    BY <1>1, <1>5, RemainingTypes DEF WalkMoves, ItemsOK
  <2>2. ItemsOK'
    BY <1>1, <1>5, <2>1 DEF WalkMoves, ItemsOK, history
  <2>3. ListsOK'
    BY <1>1, <1>5, <2>1, MovesTypes, Visited DEF WalkMoves, ListsOK
  <2>4. WalkOK'
    BY <1>5, MovesTypes DEF WalkMoves, WalkOK, bucket
  <2>. QED BY <2>2, <2>3, <2>4 DEF TypeOK, ItemsOK, ListsOK
<1>6. CASE CheckDecayEnds
  <2>1. Cleanup(bucket) /\ UNCHANGED history
    BY <1>6 DEF CheckDecayEnds
  <2>2. ItemsOK'
    BY <1>1, <2>1, CleanupTypes
  <2>3. ListsOK'
    BY <1>1, <1>6, <2>1, CleanupTypes DEF CheckDecayEnds, ListsOK
  <2>4. WalkOK'
    BY <1>6 DEF CheckDecayEnds, WalkOK, None
  <2>. QED BY <2>2, <2>3, <2>4 DEF TypeOK, ItemsOK, ListsOK
<1>. QED BY <1>2, <1>3, <1>4, <1>5, <1>6 DEF CheckDecay

LEMMA StepTypes ==
  ASSUME TypeOK, WalkOK, [Next]_vars
  PROVE  TypeOK' /\ WalkOK'
<1>1. CASE UNCHANGED vars
  BY <1>1
  DEF vars, attributes, lists, history, TypeOK, WalkOK, bucket
<1>. QED BY <1>1, GameTypes, CheckDecayTypes DEF Next

LEMMA InitTypes == Init => TypeOK /\ WalkOK
<1>1. SUFFICES ASSUME Init
               PROVE  TypeOK /\ WalkOK
  OBVIOUS
<1>2. None \in [Items -> Nat] /\ None \in [Items -> Int]
  BY DEF None
<1>3. SomeType \in Types /\ 0 \in Ring
  BY DecayAssumption DEF SomeType, Ring
<1>4. ItemsOK
  BY <1>1, <1>2, <1>3 DEF Init, ItemsOK
<1>5. ListsOK
  BY <1>1, <1>2, <1>3 DEF Init, ListsOK
<1>6. WalkOK
  BY <1>1 DEF Init, WalkOK
<1>. QED BY <1>4, <1>5, <1>6, TypeHalves

(* Every variable of Decay has its type, whatever the items, the types and the number of
   buckets are: in particular no list holds an entry a negative number of times. *)
THEOREM TypeCorrect == Spec => []TypeOK
<1>. QED BY InitTypes, StepTypes, PTL DEF Spec

-----------------------------------------------------------------------------
(* No item is forgotten.  The mark is set only together with an entry; an entry is taken
   out of a bucket only if the item loses its mark, leaves the world, or gets an entry
   elsewhere. *)

(* The items that are marked and in the world. *)
Marked(i) == place[i] = "world" /\ decaying[i]

LEMMA TransformMarks ==
  ASSUME ItemsOK, NEW i \in Items, NEW t, NEW rest, NEW result \in Items, NEW given,
         TransformItem(i, t, rest, result, given)
  PROVE  \A j \in Items : Marked(j)' => Marked(j)
<1>1. CASE SetID(i, t, rest) /\ UNCHANGED place
  BY <1>1, Zenon DEF SetID, Marked, ItemsOK
<1>2. CASE Replace(i, result, t)
  <2>1. /\ ~decaying'[result]
        /\ place'[i] = "removed" \/ i = result
        /\ \A j \in Items \ {i, result} : place'[j] = place[j] /\ (decaying'[j] <=> decaying[j])
    BY <1>2 DEF Replace, ItemsOK
  <2>. QED BY <2>1 DEF Marked
<1>. QED BY <1>1, <1>2, Zenon DEF TransformItem

LEMMA InternalDecayMarks ==
  ASSUME ItemsOK, NEW i \in Items, NEW rest, NEW given, NEW pending, canDecay(i),
         InternalDecayItem(i, rest, given, pending)
  PROVE  /\ \A j \in Items : Marked(j)' => Marked(j)
         /\ ~Marked(i)'
<1>1. CASE DecayTo[id[i]] = Gone
  <2>1. RemoveItem(i, given)
    BY <1>1 DEF InternalDecayItem
  <2>. QED BY <2>1, Zenon DEF RemoveItem, Marked, ItemsOK
<1>2. CASE DecayTo[id[i]] # Gone
  <2>. DEFINE t == DecayTo[id[i]]
  <2>1. PICK j \in Items : TransformItem(i, t, rest, j, given)
    BY <1>2 DEF InternalDecayItem
  <2>2. /\ id[i] \in Types /\ t \in Types
        /\ DecayTime[t] \in Nat
        /\ DecayTime[id[i]] > 0
    BY <1>2, DecayAssumption DEF canDecay, ItemsOK
  <2>3. Erased(t) \/ Restarts(i, t)
    BY <2>2, DecayAssumption DEF DecaysWell, Erased, Restarts
  <2>4. SetID(i, t, rest) => ~Marked(i)'
    BY <2>3, Zenon DEF SetID, Marked, ItemsOK
  <2>5. ASSUME Replace(i, j, t)
        PROVE  ~Marked(i)'
    <3>1. i # j
      BY <2>5 DEF Replace, canDecay
    <3>2. place'[i] = "removed"
      BY <2>5, <3>1 DEF Replace, ItemsOK
    <3>. QED BY <3>2 DEF Marked
  <2>6. ~Marked(i)'
    BY <2>1, <2>4, <2>5, Zenon DEF TransformItem
  <2>. QED BY <2>1, <2>6, TransformMarks
<1>. QED BY <1>1, <1>2

LEMMA StartDecayForgets ==
  ASSUME TypeOK, NoneForgotten, NEW i \in Items, NEW pending, StartDecay(i, pending)
  PROVE  NoneForgotten'
<1>1. ItemsOK /\ ListsOK /\ UNCHANGED decayItems
  BY TypeHalves DEF StartDecay
<1>2. ASSUME \A j \in Items : Marked(j)' => Marked(j), UNCHANGED toDecayItems
      PROVE  NoneForgotten'
  BY <1>1, <1>2 DEF NoneForgotten, Marked, Listed
<1>3. CASE ~canDecay(i) \/ decaying[i]
  <2>1. UNCHANGED <<attributes, toDecayItems>>
    BY <1>3, Zenon DEF StartDecay
  <2>. QED BY <1>2, <2>1 DEF attributes, Marked
<1>4. CASE canDecay(i) /\ ~decaying[i] /\ getDuration(i) > 0
  <2>1. List(i) /\ UNCHANGED place
    BY <1>4, Zenon DEF StartDecay
  <2>2. /\ toDecayItems'[i] > 0
        /\ \A j \in Items \ {i} : toDecayItems'[j] = toDecayItems[j] /\ (decaying'[j] <=> decaying[j])
    BY <1>1, <2>1 DEF List, Plus, ItemsOK, ListsOK
  <2>. QED BY <1>1, <2>1, <2>2 DEF NoneForgotten, Listed
<1>5. CASE canDecay(i) /\ ~decaying[i] /\ ~(getDuration(i) > 0)
  <2>1. InternalDecayItem(i, duration[i], 0, pending) /\ UNCHANGED toDecayItems
    BY <1>5, Zenon DEF StartDecay
  <2>. QED BY <1>1, <1>2, <1>5, <2>1, InternalDecayMarks
<1>. QED BY <1>3, <1>4, <1>5, Zenon

(* cleanup() takes every item of toDecayItems to a bucket. *)
LEMMA CleanupForgets ==
  ASSUME TypeOK, NoneForgotten, NEW last \in Ring, Cleanup(last)
  PROVE  NoneForgotten'
<1>1. SUFFICES ASSUME NEW i \in Items, Marked(i)'
               PROVE  Listed(i)'
  BY DEF NoneForgotten, Marked
<1>2. Marked(i)
  <2>1. i \notin Deleted /\ decaying[i]
    BY <1>1, Zenon DEF Cleanup, Marked
  <2>2. place'[i] = place[i]
    BY <2>1 DEF Cleanup
  <2>. QED BY <1>1, <2>1, <2>2 DEF Marked
<1>3. Target(i, last) \in Ring
  <2>1. getDuration(i) \in Nat /\ last \in Nat
    BY DEF TypeOK, getDuration, Ring, NoDuration
  <2>. QED BY <2>1, InRing DEF Target
<1>4. \A b \in Ring :
        decayItems'[b][i] = decayItems[b][i] + IF Target(i, last) = b THEN toDecayItems[i] ELSE 0
  BY DEF Cleanup
<1>5. toDecayItems[i] \in Nat /\ \A b \in Ring : decayItems[b][i] \in Nat
  BY DEF TypeOK
<1>6. Listed(i)
  BY <1>2 DEF NoneForgotten, Marked
<1>. QED BY <1>3, <1>4, <1>5, <1>6 DEF Listed

LEMMA StepForgets ==
  ASSUME TypeOK, WalkOK, NoneForgotten, [Next]_vars
  PROVE  NoneForgotten'
<1>1. ItemsOK /\ ListsOK /\ bucket \in Ring
  BY TypeHalves, InRing DEF ListsOK
<1>2. ASSUME \A j \in Items : Marked(j)' => Marked(j), UNCHANGED <<decayItems, toDecayItems>>
      PROVE  NoneForgotten'
  BY <1>2 DEF NoneForgotten, Marked, Listed
<1>3. ASSUME NEW i \in Items, ~Marked(i)', \A j \in Items : Marked(j)' => Marked(j),
             Erases(i), UNCHANGED toDecayItems
      PROVE  NoneForgotten'
  <2>1. \A j \in Items \ {i}, b \in Ring : decayItems'[b][j] = decayItems[b][j]
    BY <1>1, <1>3 DEF Erases, ListsOK
  <2>. QED BY <1>3, <2>1 DEF NoneForgotten, Marked, Listed
<1>4. ASSUME NEW i \in Items, NEW t \in Types, Create(i, t)
      PROVE  NoneForgotten'
  <2>1. /\ ~decaying'[i]
        /\ \A j \in Items \ {i} : place'[j] = place[j] /\ (decaying'[j] <=> decaying[j])
    BY <1>1, <1>4 DEF Create, ItemsOK
  <2>. QED BY <1>2, <1>4, <2>1 DEF Create, lists, Marked
<1>5. ASSUME NEW i \in Items, NEW t \in Types, GameTransforms(i, t)
      PROVE  NoneForgotten'
  <2>1. PICK j \in Items : TransformItem(i, t, duration[i], j, 0)
    BY <1>5 DEF GameTransforms
  <2>. QED BY <1>1, <1>2, <1>5, <2>1, TransformMarks DEF GameTransforms, lists
<1>6. ASSUME NEW i \in Items, GameRemoves(i)
      PROVE  NoneForgotten'
  <2>1. RemoveItem(i, 0)
    BY <1>6 DEF GameRemoves
  <2>2. \A j \in Items : Marked(j)' => Marked(j)
    BY <1>1, <2>1, Zenon DEF RemoveItem, Marked, ItemsOK
  <2>. QED BY <1>2, <1>6, <2>2 DEF GameRemoves, lists
<1>7. CASE Restart \/ \E i \in Items : GameStartsDecay(i)
  <2>1. PICK i \in Items, pending \in Items \cup {Nothing} : StartDecay(i, pending)
    BY <1>1, <1>7 DEF Restart, GameStartsDecay, ListsOK
  <2>. QED BY <2>1, StartDecayForgets
<1>8. CASE CreatureTaskEnds \/ CheckDecayEnds
  <2>1. PICK last \in Ring : Cleanup(last)
    BY <1>1, <1>8 DEF CreatureTaskEnds, CheckDecayEnds, ListsOK
  <2>. QED BY <2>1, CleanupForgets
<1>9. CASE CheckDecayBegins \/ UNCHANGED vars
  BY <1>2, <1>9 DEF CheckDecayBegins, vars, attributes, lists, Marked
<1>10. ASSUME NEW i \in Items, WalkDrops(i)
       PROVE  NoneForgotten'
  <2>1. ~Marked(i)' /\ \A j \in Items : Marked(j)' => Marked(j)
    BY <1>1, <1>10, Zenon DEF WalkDrops, Drops, Marked, ItemsOK
  <2>. QED BY <1>3, <1>10, <2>1 DEF WalkDrops
<1>11. ASSUME NEW i \in Items, WalkDecays(i)
       PROVE  NoneForgotten'
  <2>1. canDecay(i) /\ InternalDecayItem(i, Decreased(i), 1, Nothing)
    BY <1>11 DEF WalkDecays
  <2>2. ~Marked(i)' /\ \A j \in Items : Marked(j)' => Marked(j)
    BY <1>1, <2>1, InternalDecayMarks
  <2>. QED BY <1>3, <1>11, <2>2 DEF WalkDecays
<1>12. ASSUME NEW i \in Items, WalkMoves(i)
       PROVE  NoneForgotten'
  <2>1. UNCHANGED <<place, decaying, toDecayItems>>
    BY <1>12 DEF WalkMoves
  <2>. QED BY <1>12, <2>1, MovesTypes DEF NoneForgotten, Listed
<1>. QED
  BY <1>4, <1>5, <1>6, <1>7, <1>8, <1>9, <1>10, <1>11, <1>12 DEF Next, Game, CheckDecay

(* An item that is marked as decaying is in a list, however it was transformed, moved
   between the lists or interrupted by scripts: it will be visited. *)
THEOREM NothingForgotten == Spec => []NoneForgotten
<1>1. Init => NoneForgotten
  BY DEF Init, NoneForgotten
<1>2. /\ Init => TypeOK /\ WalkOK /\ NoneForgotten
      /\ TypeOK /\ WalkOK /\ NoneForgotten /\ [Next]_vars
           => TypeOK' /\ WalkOK' /\ NoneForgotten'
  BY <1>1, InitTypes, StepTypes, StepForgets
<1>. QED BY <1>2, PTL DEF Spec

-----------------------------------------------------------------------------
(* References.  The entries of an item are counted by adding and removing elements of a
   set; column is what the buckets hold of one item. *)

EntriesOf(column) == UNION {{b} \X (1..column[b]) : b \in Ring}

Column(i) == [b \in Ring |-> decayItems[b][i]]

LEMMA EntriesOfColumn ==
  /\ \A i : Entries(i) = EntriesOf(Column(i))
  /\ \A i : Entries(i)' = EntriesOf(Column(i)')
BY DEF Entries, EntriesOf, Column

LEMMA EntryIs ==
  ASSUME NEW column, NEW e
  PROVE  e \in EntriesOf(column) <=> \E b \in Ring : \E k \in 1..column[b] : e = <<b, k>>
BY DEF EntriesOf

LEMMA IntervalSize ==
  ASSUME NEW m \in Nat, NEW n \in Nat
  PROVE  /\ IsFiniteSet((m + 1)..(m + n))
         /\ Cardinality((m + 1)..(m + n)) = n
<1>. DEFINE a == m + 1
            b == m + n
<1>1. a \in Int /\ b \in Int /\ (IF a > b THEN 0 ELSE b - a + 1) = n
  OBVIOUS
<1>. HIDE DEF a, b
<1>2. IsFiniteSet(a..b) /\ Cardinality(a..b) = IF a > b THEN 0 ELSE b - a + 1
  BY <1>1, FS_Interval, Zenon
<1>. QED BY <1>1, <1>2 DEF a, b

LEMMA MoreEntries ==
  ASSUME NEW f \in [Ring -> Nat], NEW c \in Ring, NEW n \in Nat, IsFiniteSet(EntriesOf(f))
  PROVE  LET g == [f EXCEPT ![c] = @ + n]
         IN  /\ IsFiniteSet(EntriesOf(g))
             /\ Cardinality(EntriesOf(g)) = Cardinality(EntriesOf(f)) + n
<1>. DEFINE g == [f EXCEPT ![c] = @ + n]
            added == {c} \X ((f[c] + 1)..(f[c] + n))
<1>1. \A b \in Ring : f[b] \in Nat /\ g[b] = IF b = c THEN f[c] + n ELSE f[b]
  OBVIOUS
<1>2. \A b \in Ring : \A k :
        k \in 1..g[b] <=> k \in 1..f[b] \/ (b = c /\ k \in (f[c] + 1)..(f[c] + n))
  BY <1>1
<1>3. \A e : e \in added <=> \E k \in (f[c] + 1)..(f[c] + n) : e = <<c, k>>
  OBVIOUS
<1>. HIDE DEF g, added
<1>4. EntriesOf(g) = EntriesOf(f) \cup added
  BY <1>2, <1>3, EntryIs
<1>5. EntriesOf(f) \cap added = {}
  BY <1>1, <1>3, EntryIs
<1>6. IsFiniteSet(added) /\ Cardinality(added) = n
  <2>. DEFINE range == (f[c] + 1)..(f[c] + n)
  <2>1. IsFiniteSet(range) /\ Cardinality(range) = n
    BY <1>1, IntervalSize
  <2>2. IsFiniteSet({c}) /\ Cardinality({c}) = 1
    BY FS_Singleton
  <2>3. added = {c} \X range
    BY DEF added
  <2>. HIDE DEF range
  <2>4. /\ IsFiniteSet({c} \X range)
        /\ Cardinality({c} \X range) = Cardinality({c}) * Cardinality(range)
    BY <2>1, <2>2, FS_Product
  <2>. QED BY <2>1, <2>2, <2>3, <2>4
<1>7. Cardinality(EntriesOf(f)) \in Nat /\ Cardinality({}) = 0
  BY FS_CardinalityType, FS_EmptySet
<1>8. /\ IsFiniteSet(EntriesOf(f) \cup added)
      /\ Cardinality(EntriesOf(f) \cup added)
           = Cardinality(EntriesOf(f)) + Cardinality(added) - Cardinality(EntriesOf(f) \cap added)
  BY <1>6, FS_Union
<1>9. Cardinality(EntriesOf(f) \cup added) = Cardinality(EntriesOf(f)) + n
  <2>1. Cardinality(EntriesOf(f) \cap added) = 0
    BY <1>5, <1>7, Zenon
  <2>. QED BY <1>6, <1>7, <1>8, <2>1
<1>. QED BY <1>4, <1>8, <1>9 DEF g

LEMMA OneEntryLess ==
  ASSUME NEW f \in [Ring -> Nat], NEW c \in Ring, f[c] > 0, IsFiniteSet(EntriesOf(f))
  PROVE  LET g == [f EXCEPT ![c] = @ - 1]
         IN  /\ IsFiniteSet(EntriesOf(g))
             /\ Cardinality(EntriesOf(g)) = Cardinality(EntriesOf(f)) - 1
<1>. DEFINE g == [f EXCEPT ![c] = @ - 1]
<1>1. \A b \in Ring : f[b] \in Nat /\ g[b] = IF b = c THEN f[c] - 1 ELSE f[b]
  OBVIOUS
<1>2. \A b \in Ring : \A k : k \in 1..g[b] <=> k \in 1..f[b] /\ ~(b = c /\ k = f[c])
  BY <1>1
<1>3. <<c, f[c]>> \in EntriesOf(f)
  BY <1>1, EntryIs
<1>. HIDE DEF g
<1>4. EntriesOf(g) = EntriesOf(f) \ {<<c, f[c]>>}
  BY <1>2, EntryIs
<1>. QED BY <1>3, <1>4, FS_RemoveElement DEF g

(* An object that is free has no references left; and what a list holds is finite. *)
CountOK ==
  /\ \A i \in Items : IsFiniteSet(Entries(i)) /\ Cardinality(Entries(i)) \in Nat
  /\ \A i \in Items : place[i] = "unborn" => refs[i] = 0

(* The references to an item that are neither its place in the world nor given up. *)
Held(i) == refs[i] - releaseThings[i] - (IF place[i] = "world" THEN 1 ELSE 0)

LEMMA HeldByLists ==
  /\ ItemsOK /\ ListsOK /\ CountOK => (RefsCounted <=> \A i \in Items : Held(i) = InLists(i))
  /\ (ItemsOK /\ ListsOK /\ CountOK)' => (RefsCounted' <=> \A i \in Items : Held(i)' = InLists(i)')
BY DEF ItemsOK, ListsOK, CountOK, RefsCounted, Held, InLists

(* Entries change only where the lists do. *)
LEMMA SameEntries ==
  ASSUME NEW i, \A b \in Ring : decayItems'[b][i] = decayItems[b][i]
  PROVE  Entries(i)' = Entries(i)
BY DEF Entries

LEMMA ErasesEntries ==
  ASSUME TypeOK, WalkOK, CountOK, NEW i \in Items, Walks(i), Erases(i), NEW j \in Items
  PROVE  /\ IsFiniteSet(Entries(j)')
         /\ Cardinality(Entries(j)') = Cardinality(Entries(j)) - (IF j = i THEN 1 ELSE 0)
<1>1. bucket \in Ring /\ decayItems[bucket][i] > 0
  BY Visited, InRing DEF TypeOK
<1>2. CASE j # i
  <2>1. \A b \in Ring : decayItems'[b][j] = decayItems[b][j]
    BY <1>1, <1>2 DEF Erases, TypeOK
  <2>. QED BY <1>2, <2>1, SameEntries DEF CountOK
<1>3. CASE j = i
  <2>1. Column(i) \in [Ring -> Nat]
    BY DEF Column, TypeOK
  <2>2. Column(i)' = [Column(i) EXCEPT ![bucket] = @ - 1]
    BY <1>1 DEF Column, Erases, TypeOK
  <2>3. IsFiniteSet(EntriesOf(Column(i))) /\ Column(i)[bucket] > 0
    BY <1>1, EntriesOfColumn DEF CountOK, Column
  <2>4. /\ IsFiniteSet(EntriesOf(Column(i)'))
        /\ Cardinality(EntriesOf(Column(i)')) = Cardinality(EntriesOf(Column(i))) - 1
    BY <1>1, <2>1, <2>2, <2>3, OneEntryLess
  <2>. QED BY <1>3, <2>4, EntriesOfColumn
<1>. QED BY <1>2, <1>3

LEMMA MovesEntries ==
  ASSUME TypeOK, WalkOK, CountOK, NEW i \in Items, WalkMoves(i), NEW j \in Items
  PROVE  /\ IsFiniteSet(Entries(j)')
         /\ Cardinality(Entries(j)') = Cardinality(Entries(j))
<1>1. Walks(i) /\ bucket \in Ring /\ decayItems[bucket][i] > 0
  BY Visited, InRing DEF TypeOK, WalkMoves
<1>2. CASE j # i
  <2>1. \A b \in Ring : decayItems'[b][j] = decayItems[b][j]
    BY <1>2, MovesTypes
  <2>. QED BY <2>1, SameEntries DEF CountOK
<1>3. CASE j = i /\ ~(Remaining(i) < Buckets)
  <2>1. decayItems' = decayItems
    BY <1>3 DEF WalkMoves
  <2>. QED BY <2>1, SameEntries DEF CountOK
<1>4. CASE j = i /\ Remaining(i) < Buckets
  <2>1. Remaining(i) \in 1..(Buckets - 1)
    BY <1>4, RemainingTypes, DecayAssumption DEF WalkMoves
  <2>2. PICK there \in Ring \ {bucket} :
          decayItems' = [decayItems EXCEPT ![bucket][i] = @ - 1, ![there][i] = @ + 1]
    BY <1>1, <1>4, <2>1, OtherBucket DEF WalkMoves
  <2>. DEFINE f == Column(i)
              g == [f EXCEPT ![bucket] = @ - 1]
              h == [g EXCEPT ![there] = @ + 1]
  <2>3. f \in [Ring -> Nat] /\ f[bucket] > 0
    BY <1>1 DEF Column, TypeOK
  <2>4. g \in [Ring -> Nat]
    BY <1>1, <2>3
  <2>5. Column(i)' = h
    BY <1>1, <2>2 DEF Column, TypeOK
  <2>6. IsFiniteSet(EntriesOf(f)) /\ Cardinality(EntriesOf(f)) \in Nat
    BY EntriesOfColumn DEF CountOK
  <2>. HIDE DEF f
  <2>7. IsFiniteSet(EntriesOf(g)) /\ Cardinality(EntriesOf(g)) = Cardinality(EntriesOf(f)) - 1
    BY <1>1, <2>3, <2>6, OneEntryLess
  <2>. HIDE DEF g
  <2>8. IsFiniteSet(EntriesOf(h)) /\ Cardinality(EntriesOf(h)) = Cardinality(EntriesOf(g)) + 1
    BY <2>2, <2>4, <2>7, MoreEntries
  <2>. HIDE DEF h
  <2>9. /\ IsFiniteSet(EntriesOf(Column(i)'))
        /\ Cardinality(EntriesOf(Column(i)')) = Cardinality(EntriesOf(f))
    BY <2>5, <2>6, <2>7, <2>8
  <2>. QED BY <1>4, <2>9, EntriesOfColumn DEF f
<1>. QED BY <1>2, <1>3, <1>4

LEMMA CleanupEntries ==
  ASSUME TypeOK, CountOK, NEW last \in Ring, Cleanup(last), NEW i \in Items
  PROVE  /\ IsFiniteSet(Entries(i)')
         /\ Cardinality(Entries(i)') = Cardinality(Entries(i)) + toDecayItems[i]
<1>1. Target(i, last) \in Ring
  <2>1. getDuration(i) \in Nat /\ last \in Nat
    BY DEF TypeOK, getDuration, Ring, NoDuration
  <2>. QED BY <2>1, InRing DEF Target
<1>. DEFINE f == Column(i)
            c == Target(i, last)
            n == toDecayItems[i]
<1>2. f \in [Ring -> Nat] /\ n \in Nat
  BY DEF Column, TypeOK
<1>3. Column(i)' = [f EXCEPT ![c] = @ + n]
  <2>1. \A b \in Ring : decayItems'[b][i] = decayItems[b][i] + IF c = b THEN n ELSE 0
    BY DEF Cleanup
  <2>2. \A b \in Ring : decayItems'[b][i] = IF c = b THEN f[b] + n ELSE f[b]
    BY <1>2, <2>1 DEF Column
  <2>3. Column(i)' = [b \in Ring |-> decayItems'[b][i]]
    BY DEF Column
  <2>. HIDE DEF f, c, n
  <2>. QED BY <1>2, <2>2, <2>3
<1>4. IsFiniteSet(EntriesOf(f))
  BY EntriesOfColumn DEF CountOK
<1>5. c \in Ring
  BY <1>1
<1>. HIDE DEF f, c, n
<1>. DEFINE g == [f EXCEPT ![c] = @ + n]
<1>6. IsFiniteSet(EntriesOf(g)) /\ Cardinality(EntriesOf(g)) = Cardinality(EntriesOf(f)) + n
  BY <1>2, <1>4, <1>5, MoreEntries
<1>. HIDE DEF g
<1>7. Column(i)' = g
  BY <1>3 DEF g
<1>. QED BY <1>6, <1>7, EntriesOfColumn DEF f, n

(* Transforming an item takes `given' of the references to it from those who hold them. *)
LEMMA TransformHeld ==
  ASSUME ItemsOK, ListsOK, CountOK, RefsCounted, NEW i \in Items, NEW t, NEW rest,
         NEW result \in Items, NEW given \in Nat, place[i] = "world",
         TransformItem(i, t, rest, result, given)
  PROVE  \A j \in Items : /\ Held(j)' = Held(j) - (IF j = i THEN given ELSE 0)
                          /\ place'[j] = "unborn" => refs'[j] = 0
<1>1. ASSUME SetID(i, t, rest), releaseThings' = Plus(releaseThings, i, given),
             UNCHANGED <<place, refs>>
      PROVE  \A j \in Items : /\ Held(j)' = Held(j) - (IF j = i THEN given ELSE 0)
                              /\ place'[j] = "unborn" => refs'[j] = 0
  BY <1>1 DEF Plus, Held, ItemsOK, CountOK
<1>2. ASSUME Replace(i, result, t), releaseThings' = Plus(releaseThings, i, given + 1)
      PROVE  \A j \in Items : /\ Held(j)' = Held(j) - (IF j = i THEN given ELSE 0)
                              /\ place'[j] = "unborn" => refs'[j] = 0
  <2>1. place[result] = "unborn" /\ result # i
    BY <1>2 DEF Replace
  <2>2. refs[result] = 0 /\ releaseThings[result] = 0
    <3>1. refs[result] = 0 /\ InLists(result) \in Nat /\ releaseThings[result] \in Nat
      BY <2>1 DEF CountOK, InLists, ItemsOK, ListsOK
    <3>2. refs[result] = InLists(result) + releaseThings[result] + 0
      BY <2>1 DEF RefsCounted
    <3>. QED BY <3>1, <3>2
  <2>3. /\ place' = [place EXCEPT ![i] = "removed", ![result] = "world"]
        /\ refs' = [refs EXCEPT ![result] = 1]
    BY <1>2 DEF Replace
  <2>4. releaseThings'[i] = releaseThings[i] + given + 1
    BY <1>2 DEF Plus, ItemsOK
  <2>5. \A j \in Items \ {i} : releaseThings'[j] = releaseThings[j]
    BY <1>2 DEF Plus, ItemsOK
  <2>6. Held(i)' = Held(i) - given
    BY <2>1, <2>3, <2>4 DEF Held, ItemsOK
  <2>7. Held(result)' = Held(result)
    BY <2>1, <2>2, <2>3, <2>5 DEF Held, ItemsOK
  <2>8. \A j \in Items \ {i, result} : Held(j)' = Held(j)
    BY <2>3, <2>5 DEF Held, ItemsOK
  <2>9. \A j \in Items : place'[j] = "unborn" => refs'[j] = 0
    BY <2>3 DEF ItemsOK, CountOK
  <2>. QED BY <2>1, <2>6, <2>7, <2>8, <2>9 DEF Held, ItemsOK
<1>. QED BY <1>1, <1>2 DEF TransformItem

LEMMA RemoveHeld ==
  ASSUME ItemsOK, CountOK, NEW i \in Items, NEW given \in Nat, place[i] = "world",
         RemoveItem(i, given)
  PROVE  \A j \in Items : /\ Held(j)' = Held(j) - (IF j = i THEN given ELSE 0)
                          /\ place'[j] = "unborn" => refs'[j] = 0
BY DEF RemoveItem, Plus, Held, ItemsOK, CountOK

LEMMA InternalDecayHeld ==
  ASSUME ItemsOK, ListsOK, CountOK, RefsCounted, NEW i \in Items, NEW rest,
         NEW given \in Nat, NEW pending, canDecay(i),
         InternalDecayItem(i, rest, given, pending)
  PROVE  \A j \in Items : /\ Held(j)' = Held(j) - (IF j = i THEN given ELSE 0)
                          /\ place'[j] = "unborn" => refs'[j] = 0
<1>1. place[i] = "world"
  BY DEF canDecay
<1>2. CASE DecayTo[id[i]] = Gone
  BY <1>1, <1>2, RemoveHeld DEF InternalDecayItem
<1>3. CASE DecayTo[id[i]] # Gone
  <2>1. PICK j \in Items : TransformItem(i, DecayTo[id[i]], rest, j, given)
    BY <1>3 DEF InternalDecayItem
  <2>. QED BY <1>1, <2>1, TransformHeld
<1>. QED BY <1>2, <1>3

(* What is to be shown of a step: each item is held by its entries afterwards. *)
LEMMA StillCounted ==
  ASSUME TypeOK',
         \A i \in Items : /\ IsFiniteSet(Entries(i)')
                          /\ Held(i)' = toDecayItems'[i] + Cardinality(Entries(i)')
                          /\ place'[i] = "unborn" => refs'[i] = 0
  PROVE  CountOK' /\ RefsCounted'
<1>1. (ItemsOK /\ ListsOK)'
  BY DEF TypeOK, ItemsOK, ListsOK
<1>2. CountOK'
  <2>1. \A i \in Items : Cardinality(Entries(i)') \in Nat
    BY FS_CardinalityType
  <2>. QED BY <2>1 DEF CountOK
<1>3. \A i \in Items : Held(i)' = InLists(i)'
  BY DEF InLists
<1>4. (ItemsOK /\ ListsOK /\ CountOK)'
  BY <1>1, <1>2
<1>5. RefsCounted'
  BY <1>3, <1>4, HeldByLists
<1>. QED BY <1>2, <1>5

LEMMA SameLists ==
  ASSUME TypeOK, CountOK, RefsCounted, TypeOK', UNCHANGED <<decayItems, toDecayItems>>,
         \A i \in Items : Held(i)' = Held(i) /\ (place'[i] = "unborn" => refs'[i] = 0)
  PROVE  CountOK' /\ RefsCounted'
<1>1. \A i \in Items : Entries(i)' = Entries(i)
  BY SameEntries
<1>2. \A i \in Items : Held(i) = InLists(i)
  BY TypeHalves, HeldByLists
<1>3. \A i \in Items : IsFiniteSet(Entries(i)') /\ Held(i)' = toDecayItems'[i] + Cardinality(Entries(i)')
  BY <1>1, <1>2 DEF CountOK, InLists
<1>. QED BY <1>3, StillCounted

LEMMA StartDecayCounts ==
  ASSUME TypeOK, CountOK, RefsCounted, TypeOK', NEW i \in Items, NEW pending,
         StartDecay(i, pending)
  PROVE  CountOK' /\ RefsCounted'
<1>1. ItemsOK /\ ListsOK /\ UNCHANGED decayItems
  BY TypeHalves DEF StartDecay
<1>2. \A j \in Items : Held(j) = InLists(j)
  BY <1>1, HeldByLists
<1>3. CASE ~canDecay(i) \/ decaying[i]
  <2>1. UNCHANGED <<place, refs, toDecayItems, releaseThings>>
    BY <1>3, Zenon DEF StartDecay, attributes
  <2>. QED BY <1>1, <2>1, SameLists DEF Held, CountOK
<1>4. CASE canDecay(i) /\ ~decaying[i] /\ getDuration(i) > 0
  <2>1. List(i) /\ UNCHANGED <<place, releaseThings>>
    BY <1>4, Zenon DEF StartDecay
  <2>2. /\ refs' = [refs EXCEPT ![i] = @ + 1]
        /\ toDecayItems' = [toDecayItems EXCEPT ![i] = @ + 1]
    BY <2>1 DEF List, Plus
  <2>3. \A j \in Items : Entries(j)' = Entries(j)
    BY <1>1, SameEntries
  <2>4. \A j \in Items :
          /\ Held(j)' = Held(j) + (IF j = i THEN 1 ELSE 0)
          /\ toDecayItems'[j] = toDecayItems[j] + (IF j = i THEN 1 ELSE 0)
    BY <1>1, <2>1, <2>2 DEF Held, ItemsOK, ListsOK
  <2>5. \A j \in Items : place'[j] = "unborn" => refs'[j] = 0
    BY <1>1, <1>4, <2>1, <2>2 DEF CountOK, ItemsOK, canDecay
  <2>6. ASSUME NEW j \in Items
        PROVE  Held(j)' = toDecayItems'[j] + Cardinality(Entries(j)')
    <3>1. toDecayItems[j] \in Nat /\ Cardinality(Entries(j)) \in Nat
      BY <1>1 DEF ListsOK, CountOK
    <3>. QED BY <1>2, <2>3, <2>4, <3>1 DEF InLists
  <2>. QED BY <2>3, <2>5, <2>6, StillCounted DEF CountOK
<1>5. CASE canDecay(i) /\ ~decaying[i] /\ ~(getDuration(i) > 0)
  <2>1. InternalDecayItem(i, duration[i], 0, pending) /\ UNCHANGED toDecayItems
    BY <1>5, Zenon DEF StartDecay
  <2>2. \A j \in Items : /\ Held(j)' = Held(j) - (IF j = i THEN 0 ELSE 0)
                         /\ place'[j] = "unborn" => refs'[j] = 0
    BY <1>1, <1>5, <2>1, InternalDecayHeld
  <2>3. \A j \in Items : Held(j) \in Int
    BY <1>1 DEF Held, ItemsOK
  <2>4. \A j \in Items : Held(j)' = Held(j) /\ (place'[j] = "unborn" => refs'[j] = 0)
    BY <2>2, <2>3
  <2>. QED BY <1>1, <2>1, <2>4, SameLists
<1>. QED BY <1>3, <1>4, <1>5, Zenon

(* cleanup() deletes only what nothing refers to any more. *)
LEMMA CleanupCounts ==
  ASSUME TypeOK, CountOK, RefsCounted, TypeOK', NEW last \in Ring, Cleanup(last)
  PROVE  CountOK' /\ RefsCounted'
<1>1. SUFFICES ASSUME NEW i \in Items
               PROVE  /\ Held(i)' = toDecayItems'[i] + Cardinality(Entries(i)')
                      /\ place'[i] = "unborn" => refs'[i] = 0
  BY CleanupEntries, StillCounted
<1>. DEFINE world == IF place[i] = "world" THEN 1 ELSE 0
            n == Cardinality(Entries(i))
<1>2. /\ refs[i] \in Nat /\ releaseThings[i] \in Nat /\ toDecayItems[i] \in Nat
      /\ n \in Nat /\ world \in {0, 1}
  BY DEF TypeOK, CountOK
<1>3. refs[i] = toDecayItems[i] + n + releaseThings[i] + world
  BY DEF RefsCounted, InLists
<1>4. /\ toDecayItems'[i] = 0 /\ releaseThings'[i] = 0
      /\ refs'[i] = IF i \in Deleted THEN 0 ELSE refs[i] - releaseThings[i]
      /\ place'[i] = IF i \in Deleted THEN "unborn" ELSE place[i]
  BY DEF Cleanup, None
<1>5. Cardinality(Entries(i)') = n + toDecayItems[i]
  BY CleanupEntries
<1>6. CASE i \in Deleted
  <2>1. refs[i] <= releaseThings[i]
    BY <1>6 DEF Deleted
  <2>2. toDecayItems[i] = 0 /\ n = 0
    BY <1>2, <1>3, <2>1
  <2>. QED BY <1>4, <1>5, <1>6, <2>2 DEF Held
<1>7. CASE i \notin Deleted
  <2>1. refs'[i] = refs[i] - releaseThings[i] /\ place'[i] = place[i]
    BY <1>4, <1>7
  <2>2. Held(i)' = refs[i] - releaseThings[i] - world
    BY <1>2, <1>4, <2>1 DEF Held
  <2>3. Held(i)' = toDecayItems'[i] + Cardinality(Entries(i)')
    BY <1>2, <1>3, <1>4, <1>5, <2>2
  <2>4. place'[i] = "unborn" => refs'[i] = 0
    <3>1. ASSUME place[i] = "unborn"
          PROVE  refs[i] = 0 /\ releaseThings[i] = 0
      <4>1. refs[i] = 0
        BY <3>1 DEF CountOK
      <4>2. refs[i] = InLists(i) + releaseThings[i] + 0
        BY <3>1 DEF RefsCounted
      <4>3. InLists(i) \in Nat
        BY <1>2 DEF InLists
      <4>. QED BY <1>2, <4>1, <4>2, <4>3
    <3>. QED BY <1>2, <2>1, <3>1
  <2>. QED BY <2>3, <2>4
<1>. QED BY <1>6, <1>7

(* What checkDecay takes out of a bucket gives up its reference. *)
LEMMA ErasesCounts ==
  ASSUME TypeOK, WalkOK, CountOK, RefsCounted, TypeOK', NEW i \in Items,
         Walks(i), Erases(i), UNCHANGED toDecayItems,
         \A j \in Items : /\ Held(j)' = Held(j) - (IF j = i THEN 1 ELSE 0)
                          /\ place'[j] = "unborn" => refs'[j] = 0
  PROVE  CountOK' /\ RefsCounted'
<1>1. SUFFICES ASSUME NEW j \in Items
               PROVE  Held(j)' = toDecayItems'[j] + Cardinality(Entries(j)')
  BY ErasesEntries, StillCounted
<1>2. Held(j) = InLists(j)
  BY TypeHalves, HeldByLists
<1>3. toDecayItems'[j] = toDecayItems[j] /\ toDecayItems[j] \in Nat
  BY DEF TypeOK
<1>4. Cardinality(Entries(j)) \in Nat
  BY DEF CountOK
<1>5. Cardinality(Entries(j)') = Cardinality(Entries(j)) - (IF j = i THEN 1 ELSE 0)
  BY ErasesEntries
<1>. QED BY <1>2, <1>3, <1>4, <1>5 DEF InLists

LEMMA StepCounts ==
  ASSUME TypeOK, WalkOK, CountOK, RefsCounted, [Next]_vars
  PROVE  CountOK' /\ RefsCounted'
<1>1. /\ ItemsOK /\ ListsOK /\ bucket \in Ring
      /\ TypeOK'
  BY TypeHalves, InRing, StepTypes DEF ListsOK
<1>2. \A i \in Items : Held(i) \in Int /\ (place[i] = "unborn" => refs[i] = 0)
  BY <1>1 DEF Held, ItemsOK, CountOK
<1>3. ASSUME NEW i \in Items, NEW t \in Types, Create(i, t)
      PROVE  CountOK' /\ RefsCounted'
  <2>1. UNCHANGED <<decayItems, toDecayItems, releaseThings>>
    BY <1>3 DEF Create, lists
  <2>2. /\ place[i] = "unborn"
        /\ place' = [place EXCEPT ![i] = "world"]
        /\ refs' = [refs EXCEPT ![i] = 1]
    BY <1>3 DEF Create
  <2>3. refs[i] = 0 /\ releaseThings[i] = 0
    <3>1. refs[i] = 0 /\ InLists(i) \in Nat /\ releaseThings[i] \in Nat
      BY <1>1, <2>2 DEF CountOK, InLists, ItemsOK, ListsOK
    <3>2. refs[i] = InLists(i) + releaseThings[i] + 0
      BY <2>2 DEF RefsCounted
    <3>. QED BY <3>1, <3>2
  <2>4. Held(i)' = Held(i)
    BY <1>1, <2>1, <2>2, <2>3 DEF Held, ItemsOK
  <2>5. \A j \in Items \ {i} : Held(j)' = Held(j)
    BY <1>1, <2>1, <2>2 DEF Held, ItemsOK
  <2>6. \A j \in Items : place'[j] = "unborn" => refs'[j] = 0
    BY <1>1, <1>2, <2>2 DEF ItemsOK
  <2>. QED BY <1>1, <2>1, <2>4, <2>5, <2>6, SameLists
<1>4. ASSUME NEW i \in Items, NEW t \in Types, GameTransforms(i, t)
      PROVE  CountOK' /\ RefsCounted'
  <2>1. PICK result \in Items : TransformItem(i, t, duration[i], result, 0)
    BY <1>4 DEF GameTransforms
  <2>2. place[i] = "world" /\ UNCHANGED <<decayItems, toDecayItems>>
    BY <1>4 DEF GameTransforms, lists
  <2>3. \A j \in Items : /\ Held(j)' = Held(j) - (IF j = i THEN 0 ELSE 0)
                         /\ place'[j] = "unborn" => refs'[j] = 0
    BY <1>1, <2>1, <2>2, TransformHeld
  <2>4. \A j \in Items : Held(j)' = Held(j) /\ (place'[j] = "unborn" => refs'[j] = 0)
    BY <1>2, <2>3
  <2>. QED BY <1>1, <2>2, <2>4, SameLists
<1>5. ASSUME NEW i \in Items, GameRemoves(i)
      PROVE  CountOK' /\ RefsCounted'
  <2>1. /\ place[i] = "world" /\ RemoveItem(i, 0)
        /\ UNCHANGED <<decayItems, toDecayItems>>
    BY <1>5 DEF GameRemoves, lists
  <2>2. \A j \in Items : /\ Held(j)' = Held(j) - (IF j = i THEN 0 ELSE 0)
                         /\ place'[j] = "unborn" => refs'[j] = 0
    BY <1>1, <2>1, RemoveHeld
  <2>3. \A j \in Items : Held(j)' = Held(j) /\ (place'[j] = "unborn" => refs'[j] = 0)
    BY <1>2, <2>2
  <2>. QED BY <1>1, <2>1, <2>3, SameLists
<1>6. CASE Restart \/ \E i \in Items : GameStartsDecay(i)
  <2>1. PICK i \in Items, pending \in Items \cup {Nothing} : StartDecay(i, pending)
    BY <1>1, <1>6 DEF Restart, GameStartsDecay, ListsOK
  <2>. QED BY <1>1, <2>1, StartDecayCounts
<1>7. CASE CreatureTaskEnds \/ CheckDecayEnds
  <2>1. PICK last \in Ring : Cleanup(last)
    BY <1>1, <1>7 DEF CreatureTaskEnds, CheckDecayEnds, ListsOK
  <2>. QED BY <1>1, <2>1, CleanupCounts
<1>8. CASE CheckDecayBegins \/ UNCHANGED vars
  <2>1. UNCHANGED <<place, refs, decayItems, toDecayItems, releaseThings>>
    BY <1>8 DEF CheckDecayBegins, vars, attributes, lists
  <2>. QED BY <1>1, <1>2, <2>1, SameLists DEF Held
<1>9. ASSUME NEW i \in Items, WalkDrops(i)
      PROVE  CountOK' /\ RefsCounted'
  <2>1. /\ Walks(i) /\ Erases(i)
        /\ releaseThings' = Plus(releaseThings, i, 1)
        /\ UNCHANGED <<place, refs, toDecayItems>>
    BY <1>9 DEF WalkDrops, Drops
  <2>2. \A j \in Items : /\ Held(j)' = Held(j) - (IF j = i THEN 1 ELSE 0)
                         /\ place'[j] = "unborn" => refs'[j] = 0
    BY <1>1, <1>2, <2>1 DEF Held, Plus, ItemsOK
  <2>. QED BY <1>1, <2>1, <2>2, ErasesCounts
<1>10. ASSUME NEW i \in Items, WalkDecays(i)
       PROVE  CountOK' /\ RefsCounted'
  <2>1. /\ Walks(i) /\ Erases(i) /\ canDecay(i) /\ UNCHANGED toDecayItems
        /\ InternalDecayItem(i, Decreased(i), 1, Nothing)
    BY <1>10 DEF WalkDecays
  <2>2. \A j \in Items : /\ Held(j)' = Held(j) - (IF j = i THEN 1 ELSE 0)
                         /\ place'[j] = "unborn" => refs'[j] = 0
    BY <1>1, <2>1, InternalDecayHeld
  <2>. QED BY <1>1, <2>1, <2>2, ErasesCounts
<1>11. ASSUME NEW i \in Items, WalkMoves(i)
       PROVE  CountOK' /\ RefsCounted'
  <2>1. UNCHANGED <<place, refs, releaseThings, toDecayItems>>
    BY <1>11 DEF WalkMoves
  <2>2. \A j \in Items : Held(j)' = Held(j) /\ Held(j) = InLists(j)
    BY <1>1, <2>1, HeldByLists DEF Held
  <2>3. \A j \in Items : /\ IsFiniteSet(Entries(j)')
                         /\ Held(j)' = toDecayItems'[j] + Cardinality(Entries(j)')
    BY <1>11, <2>1, <2>2, MovesEntries DEF InLists
  <2>. QED BY <1>1, <1>2, <2>1, <2>3, StillCounted
<1>. QED
  BY <1>3, <1>4, <1>5, <1>6, <1>7, <1>8, <1>9, <1>10, <1>11 DEF Next, Game, CheckDecay

LEMMA InitCounts == Init => CountOK /\ RefsCounted
<1>1. SUFFICES ASSUME Init
               PROVE  CountOK /\ RefsCounted
  OBVIOUS
<1>2. ASSUME NEW i \in Items
      PROVE  /\ Entries(i) = {}
             /\ place[i] = "unborn" /\ refs[i] = 0
             /\ toDecayItems[i] = 0 /\ releaseThings[i] = 0
  BY <1>1 DEF Init, None, Entries
<1>3. IsFiniteSet({}) /\ Cardinality({}) = 0
  BY FS_EmptySet
<1>4. CountOK
  BY <1>2, <1>3 DEF CountOK
<1>5. \A i \in Items : InLists(i) = 0
  BY <1>2, <1>3 DEF InLists
<1>. QED BY <1>2, <1>4, <1>5 DEF RefsCounted

(* Every reference to an item is counted once.  So cleanup() never deletes an item that
   is in the world, in a bucket or in toDecayItems (no list of checkDecay holds a deleted
   item), and an item that nothing refers to any more does not stay. *)
THEOREM EveryReferenceCounted == Spec => []RefsCounted
<1>1. /\ Init => TypeOK /\ WalkOK /\ CountOK /\ RefsCounted
      /\ TypeOK /\ WalkOK /\ CountOK /\ RefsCounted /\ [Next]_vars
           => TypeOK' /\ WalkOK' /\ CountOK' /\ RefsCounted'
  BY InitTypes, InitCounts, StepTypes, StepCounts
<1>. QED BY <1>1, PTL DEF Spec

-----------------------------------------------------------------------------
(* Time.  An item that is left alone is in one list, once, and the call of checkDecay in
   which it will decay can be told from its duration and from how far its bucket is. *)

(* The calls of checkDecay from the one that walked `from' to the one that walks b. *)
Distance(from, b) == IF b > from THEN b - from ELSE b - from + Buckets

(* The calls until the item's bucket is walked. *)
CallsLeft(i, b) ==
  IF pc = "idle" THEN Distance(lastBucket, b)
  ELSE IF b = bucket /\ left[i] = 0 THEN Buckets
  ELSE Distance(lastBucket, b) - 1

(* The calls until the item decays. *)
EndsIn(i, b) ==
  CallsLeft(i, b) + (IF duration[i] < Buckets THEN 0 ELSE duration[i] - Buckets)

Intact(i) == canDecay(i) /\ decaying[i] /\ duration[i] \in Nat \ {0}

Waits(i) ==
  /\ toDecayItems[i] = 1
  /\ \A b \in Ring : decayItems[b][i] = 0
  /\ due[i] = Calls(duration[i]) \/ (pc # "idle" /\ due[i] = Calls(duration[i]) - 1)

InBucket(i, b) ==
  /\ toDecayItems[i] = 0
  /\ \A c \in Ring : decayItems[c][i] = IF c = b THEN 1 ELSE 0
  /\ due[i] = EndsIn(i, b) \/ due[i] = EndsIn(i, b) - 1

Scheduled(i) == Intact(i) /\ (Waits(i) \/ \E b \in Ring : InBucket(i, b))

OnSchedule == \A i \in watched : Scheduled(i)

(* The way round the ring. *)
LEMMA Modulo ==
  /\ \A n \in Ring : n % Buckets = n
  /\ \A n \in Ring : (n + Buckets) % Buckets = n
BY DecayAssumption DEF Ring

LEMMA Steps ==
  ASSUME NEW from \in Ring, NEW n \in 1..Buckets
  PROVE  Distance(from, (from + n) % Buckets) = n
<1>1. from \in Nat /\ from < Buckets /\ Buckets \in Nat \ {0}
  BY DecayAssumption DEF Ring
<1>2. CASE from + n < Buckets
  <2>1. from + n \in Ring
    BY <1>1, <1>2 DEF Ring
  <2>. QED BY <1>1, <2>1, Modulo DEF Distance
<1>3. CASE from + n >= Buckets
  <2>1. from + n - Buckets \in Ring
    BY <1>1, <1>3 DEF Ring
  <2>2. (from + n - Buckets) + Buckets = from + n
    BY <1>1
  <2>3. (from + n) % Buckets = from + n - Buckets
    BY <2>1, <2>2, Modulo
  <2>. QED BY <1>1, <2>3 DEF Distance
<1>. QED BY <1>1, <1>2, <1>3

LEMMA NextBucket ==
  ASSUME lastBucket \in Ring, NEW b \in Ring
  PROVE  /\ Distance(lastBucket, b) \in 1..Buckets
         /\ Distance(lastBucket, bucket) = 1
         /\ Distance(bucket, bucket) = Buckets
         /\ b # bucket => Distance(bucket, b) = Distance(lastBucket, b) - 1
<1>1. lastBucket \in 0..(Buckets - 1) /\ b \in 0..(Buckets - 1) /\ Buckets \in Nat \ {0}
  BY DecayAssumption DEF Ring
<1>2. bucket = IF lastBucket + 1 = Buckets THEN 0 ELSE lastBucket + 1
  <2>1. CASE lastBucket + 1 = Buckets
    BY <1>1, <2>1, Modulo DEF bucket, Ring
  <2>2. CASE lastBucket + 1 # Buckets
    <3>1. lastBucket + 1 \in Ring
      BY <1>1, <2>2 DEF Ring
    <3>. QED BY <2>2, <3>1, Modulo DEF bucket
  <2>. QED BY <2>1, <2>2
<1>. QED BY <1>1, <1>2 DEF Distance

(* What a step leaves alone stays on schedule. *)
SameItem(i) ==
  /\ place'[i] = place[i] /\ id'[i] = id[i] /\ duration'[i] = duration[i]
  /\ decaying[i] => decaying'[i]
  /\ due'[i] = due[i]

SameEntry(i) ==
  /\ toDecayItems'[i] = toDecayItems[i]
  /\ \A b \in Ring : decayItems'[b][i] = decayItems[b][i]
  /\ left'[i] = left[i]

SameLoop ==
  /\ lastBucket' = lastBucket
  /\ pc = "idle" <=> pc' = "idle"

LEMMA StaysIntact ==
  ASSUME NEW i \in Items, Intact(i), SameItem(i)
  PROVE  Intact(i)'
BY DEF Intact, SameItem, canDecay

LEMMA StaysScheduled ==
  ASSUME NEW i \in Items, Scheduled(i), SameItem(i), SameEntry(i), SameLoop
  PROVE  Scheduled(i)'
<1>1. Intact(i)'
  BY StaysIntact DEF Scheduled
<1>2. Waits(i) => Waits(i)'
  BY DEF Waits, SameItem, SameEntry, SameLoop, Calls
<1>3. ASSUME NEW b \in Ring, InBucket(i, b)
      PROVE  InBucket(i, b)'
  <2>1. EndsIn(i, b)' = EndsIn(i, b)
    BY DEF EndsIn, CallsLeft, SameItem, SameEntry, SameLoop, bucket, Distance
  <2>. QED BY <1>3, <2>1 DEF InBucket, SameItem, SameEntry
<1>. QED BY <1>1, <1>2, <1>3 DEF Scheduled

(* Transforming or removing an item interferes with no other one in the world. *)
LEMMA TransformSpares ==
  ASSUME ItemsOK, NEW i \in Items, NEW t, NEW rest, NEW result \in Items, NEW given,
         TransformItem(i, t, rest, result, given)
  PROVE  /\ watched' = watched \ {i}
         /\ \A j \in Items \ {i} : place[j] = "world" => SameItem(j)
<1>1. /\ watched' = watched \ {i}
      /\ \A j \in Items \ {i} : due'[j] = due[j]
  BY DEF TransformItem, Unwatch, ItemsOK
<1>2. ASSUME SetID(i, t, rest), UNCHANGED place, NEW j \in Items \ {i}
      PROVE  SameItem(j)
  <2>1. place'[j] = place[j] /\ id'[j] = id[j] /\ duration'[j] = duration[j]
    BY <1>2 DEF SetID, ItemsOK
  <2>2. decaying'[j] = decaying[j]
    BY <1>2, Zenon DEF SetID, ItemsOK
  <2>. QED BY <1>1, <2>1, <2>2 DEF SameItem
<1>3. ASSUME Replace(i, result, t), NEW j \in Items \ {i}, place[j] = "world"
      PROVE  SameItem(j)
  <2>1. j # result
    BY <1>3 DEF Replace
  <2>2. place'[j] = place[j] /\ id'[j] = id[j] /\ duration'[j] = duration[j]
    BY <1>3, <2>1 DEF Replace, ItemsOK
  <2>3. decaying'[j] = decaying[j]
    BY <1>3, <2>1, Zenon DEF Replace, ItemsOK
  <2>. QED BY <1>1, <2>2, <2>3 DEF SameItem
<1>. QED BY <1>1, <1>2, <1>3 DEF TransformItem

LEMMA RemoveSpares ==
  ASSUME ItemsOK, NEW i \in Items, NEW given, RemoveItem(i, given)
  PROVE  /\ watched' = watched \ {i}
         /\ \A j \in Items \ {i} : SameItem(j)
BY DEF RemoveItem, Unwatch, SameItem, ItemsOK

LEMMA InternalDecaySpares ==
  ASSUME ItemsOK, NEW i \in Items, NEW rest, NEW given, NEW pending,
         InternalDecayItem(i, rest, given, pending)
  PROVE  /\ watched' = watched \ {i}
         /\ \A j \in Items \ {i} : place[j] = "world" => SameItem(j)
<1>1. CASE DecayTo[id[i]] = Gone
  BY <1>1, RemoveSpares DEF InternalDecayItem
<1>2. CASE DecayTo[id[i]] # Gone
  <2>1. PICK j \in Items : TransformItem(i, DecayTo[id[i]], rest, j, given)
    BY <1>2 DEF InternalDecayItem
  <2>. QED BY <2>1, TransformSpares
<1>. QED BY <1>1, <1>2

(* It is enough to look at the items that a step does not leave alone. *)
LEMMA OthersScheduled ==
  ASSUME OnSchedule, SameLoop, NEW rest \in SUBSET watched, watched \subseteq Items,
         \A i \in rest : place[i] = "world" => SameItem(i) /\ SameEntry(i)
  PROVE  \A i \in rest : Scheduled(i)'
BY StaysScheduled DEF OnSchedule, Scheduled, Intact, canDecay

LEMMA StartDecayScheduled ==
  ASSUME TypeOK, OnSchedule, NEW i \in Items, NEW pending, StartDecay(i, pending)
  PROVE  OnSchedule'
<1>1. /\ ItemsOK /\ ListsOK /\ watched \subseteq Items
      /\ UNCHANGED <<decayItems, lastBucket, pc, left>>
      /\ SameLoop
  BY TypeHalves DEF StartDecay, SameLoop, ItemsOK
<1>2. ASSUME NEW rest \in SUBSET watched, UNCHANGED toDecayItems,
             \A j \in rest : place[j] = "world" => SameItem(j)
      PROVE  \A j \in rest : Scheduled(j)'
  <2>1. \A j \in rest : SameEntry(j)
    BY <1>1, <1>2 DEF SameEntry
  <2>. QED BY <1>1, <1>2, <2>1, OthersScheduled
<1>3. CASE ~canDecay(i) \/ decaying[i]
  <2>1. UNCHANGED <<attributes, toDecayItems, history>>
    BY <1>3, Zenon DEF StartDecay
  <2>2. watched' = watched /\ \A j \in Items : SameItem(j)
    BY <2>1 DEF attributes, history, SameItem
  <2>. QED BY <1>1, <1>2, <2>1, <2>2 DEF OnSchedule
<1>4. CASE canDecay(i) /\ ~decaying[i] /\ getDuration(i) > 0
  <2>1. List(i) /\ UNCHANGED <<place, id, duration>>
    BY <1>4, Zenon DEF StartDecay
  <2>2. i \notin watched
    BY <1>4 DEF OnSchedule, Scheduled, Intact
  <2>3. toDecayItems' = [toDecayItems EXCEPT ![i] = @ + 1]
    BY <2>1 DEF List, Plus
  <2>4. \A j \in Items \ {i} : toDecayItems'[j] = toDecayItems[j]
    BY <1>1, <2>3 DEF ListsOK
  <2>5. /\ \A j \in Items : decaying[j] => decaying'[j]
        /\ decaying'[i]
    BY <1>1, <2>1, Zenon DEF List, ItemsOK
  <2>6. \A j \in Items \ {i} : due'[j] = due[j]
    BY <1>1, <2>1 DEF List, ItemsOK, history
  <2>7. \A j \in watched : SameItem(j) /\ SameEntry(j)
    BY <1>1, <2>1, <2>2, <2>4, <2>5, <2>6 DEF SameItem, SameEntry
  <2>8. \A j \in watched : Scheduled(j)'
    BY <1>1, <2>7, OthersScheduled
  <2>9. CASE Listed(i)
    <3>1. watched' = watched
      BY <2>1, <2>9 DEF List, history
    <3>. QED BY <2>8, <3>1 DEF OnSchedule
  <2>10. CASE ~Listed(i)
    <3>1. watched' = watched \cup {i} /\ due' = [due EXCEPT ![i] = Calls(duration[i])]
      BY <2>1, <2>10 DEF List
    <3>2. Intact(i)'
      <4>1. duration[i] \in Nat \ {0}
        BY <1>1, <1>4 DEF getDuration, ItemsOK, NoDuration
      <4>. QED BY <1>4, <2>1, <2>5, <4>1 DEF Intact, canDecay
    <3>3. Waits(i)'
      <4>1. toDecayItems[i] = 0 /\ \A b \in Ring : decayItems[b][i] = 0
        BY <1>1, <2>10 DEF Listed, ListsOK
      <4>2. toDecayItems'[i] = 1
        BY <1>1, <2>3, <4>1 DEF ListsOK
      <4>3. due'[i] = Calls(duration[i])
        BY <1>1, <3>1 DEF ItemsOK
      <4>. QED BY <1>1, <2>1, <4>1, <4>2, <4>3 DEF Waits, Calls
    <3>. QED BY <2>8, <3>1, <3>2, <3>3 DEF OnSchedule, Scheduled
  <2>. QED BY <2>9, <2>10
<1>5. CASE canDecay(i) /\ ~decaying[i] /\ ~(getDuration(i) > 0)
  <2>1. InternalDecayItem(i, duration[i], 0, pending) /\ UNCHANGED toDecayItems
    BY <1>5, Zenon DEF StartDecay
  <2>2. /\ watched' = watched \ {i}
        /\ \A j \in Items \ {i} : place[j] = "world" => SameItem(j)
    BY <1>1, <2>1, InternalDecaySpares
  <2>. QED BY <1>1, <1>2, <2>1, <2>2 DEF OnSchedule
<1>. QED BY <1>3, <1>4, <1>5, Zenon

(* An item in the world is not deleted. *)
LEMMA KeptByCleanup ==
  ASSUME TypeOK, CountOK, RefsCounted, NEW last, Cleanup(last), UNCHANGED history,
         NEW i \in Items, place[i] = "world"
  PROVE  SameItem(i)
<1>1. i \notin Deleted
  <2>1. InLists(i) \in Nat /\ refs[i] \in Nat /\ releaseThings[i] \in Nat
    BY DEF TypeOK, CountOK, InLists
  <2>2. refs[i] = InLists(i) + releaseThings[i] + 1
    BY DEF RefsCounted
  <2>. QED BY <2>1, <2>2 DEF Deleted
<1>2. decaying[i] => decaying'[i]
  BY <1>1, Zenon DEF Cleanup
<1>. QED BY <1>1, <1>2 DEF Cleanup, SameItem, history

(* cleanup() puts an item where the calls that are left to it end its duration. *)
LEMMA CleanupScheduled ==
  ASSUME TypeOK, CountOK, RefsCounted, OnSchedule, NEW last \in Ring, Cleanup(last),
         UNCHANGED history, pc' = "idle", lastBucket' = last,
         \/ pc = "idle" /\ last = lastBucket
         \/ pc # "idle" /\ last = bucket /\ left = None
  PROVE  OnSchedule'
<1>1. SUFFICES ASSUME NEW i \in watched
               PROVE  Scheduled(i)'
  BY DEF OnSchedule, history
<1>2. i \in Items /\ lastBucket \in Ring /\ Scheduled(i)
  BY DEF TypeOK, OnSchedule
<1>3. SameItem(i)
  BY <1>2, KeptByCleanup DEF Scheduled, Intact, canDecay
<1>4. Intact(i)'
  BY <1>2, <1>3, StaysIntact DEF Scheduled
<1>5. /\ toDecayItems'[i] = 0
      /\ \A b \in Ring : decayItems'[b][i] =
           decayItems[b][i] + IF Target(i, last) = b THEN toDecayItems[i] ELSE 0
  BY <1>2 DEF Cleanup, None
<1>6. duration[i] \in Nat \ {0} /\ duration'[i] = duration[i] /\ due'[i] = due[i]
  BY <1>2, <1>3 DEF Scheduled, Intact, SameItem
<1>7. \A b \in Ring : CallsLeft(i, b)' = Distance(last, b)
  BY DEF CallsLeft, Distance
<1>8. CASE Waits(i)
  <2>1. getDuration(i) = duration[i]
    BY <1>6 DEF getDuration, NoDuration
  <2>2. /\ Target(i, last) \in Ring
        /\ Distance(last, Target(i, last)) = IF duration[i] < Buckets THEN duration[i] + 1 ELSE Buckets
    <3>1. CASE duration[i] < Buckets
      <4>1. /\ duration[i] + 1 \in 1..Buckets
            /\ last + 1 + duration[i] = last + (duration[i] + 1)
            /\ last + (duration[i] + 1) \in Nat
        BY <1>6, <3>1, DecayAssumption DEF Ring
      <4>2. Target(i, last) = (last + (duration[i] + 1)) % Buckets
        BY <1>6, <2>1, <3>1, <4>1, DecayAssumption DEF Target
      <4>. QED BY <3>1, <4>1, <4>2, Steps, InRing
    <3>2. CASE ~(duration[i] < Buckets)
      <4>1. Target(i, last) = last
        BY <1>6, <2>1, <3>2, DecayAssumption DEF Target
      <4>2. Distance(last, last) = Buckets
        BY DecayAssumption DEF Distance, Ring
      <4>. QED BY <3>2, <4>1, <4>2
    <3>. QED BY <3>1, <3>2
  <2>3. PICK b \in Ring : b = Target(i, last)
    BY <2>2
  <2>4. \A c \in Ring : decayItems'[c][i] = IF c = b THEN 1 ELSE 0
    BY <1>5, <1>8, <2>3 DEF Waits
  <2>5. EndsIn(i, b)' = Calls(duration[i])
    BY <1>6, <1>7, <2>2, <2>3, DecayAssumption DEF EndsIn, Calls
  <2>6. InBucket(i, b)'
    BY <1>5, <1>6, <1>8, <2>4, <2>5 DEF InBucket, Waits
  <2>. QED BY <1>4, <2>6 DEF Scheduled
<1>9. ASSUME NEW b \in Ring, InBucket(i, b)
      PROVE  Scheduled(i)'
  <2>1. CallsLeft(i, b) = Distance(last, b)
    BY <1>2, NextBucket DEF CallsLeft, None
  <2>2. EndsIn(i, b)' = EndsIn(i, b)
    BY <1>6, <1>7, <2>1 DEF EndsIn
  <2>3. \A c \in Ring : decayItems'[c][i] = IF c = b THEN 1 ELSE 0
    BY <1>5, <1>9 DEF InBucket
  <2>4. InBucket(i, b)'
    BY <1>5, <1>6, <1>9, <2>2, <2>3 DEF InBucket
  <2>. QED BY <1>4, <2>4 DEF Scheduled
<1>. QED BY <1>2, <1>8, <1>9 DEF Scheduled

(* A call of checkDecay begins: one less is left to every item. *)
LEMMA BeginScheduled ==
  ASSUME TypeOK, OnSchedule, CheckDecayBegins
  PROVE  OnSchedule'
<1>1. SUFFICES ASSUME NEW i \in watched
               PROVE  Scheduled(i)'
  BY DEF OnSchedule, CheckDecayBegins
<1>2. i \in Items /\ lastBucket \in Ring /\ bucket \in Ring /\ Scheduled(i) /\ due[i] \in Int
  BY InRing DEF TypeOK, OnSchedule
<1>3. /\ pc = "idle" /\ pc' = "walk"
      /\ left'[i] = decayItems[bucket][i]
      /\ UNCHANGED <<place, id, duration, decaying, decayItems, toDecayItems, lastBucket>>
      /\ due'[i] = due[i] - 1
  BY <1>2 DEF CheckDecayBegins, attributes, lists
<1>4. Intact(i)'
  BY <1>2, <1>3 DEF Scheduled, Intact, canDecay
<1>5. Waits(i) => Waits(i)'
  BY <1>3 DEF Waits, Calls
<1>6. ASSUME NEW b \in Ring, InBucket(i, b)
      PROVE  InBucket(i, b)'
  <2>1. duration[i] \in Nat /\ Distance(lastBucket, b) \in Int
    BY <1>2, NextBucket DEF Scheduled, Intact
  <2>2. CallsLeft(i, b)' = CallsLeft(i, b) - 1
    BY <1>2, <1>3, <1>6 DEF CallsLeft, InBucket, bucket, Distance
  <2>3. EndsIn(i, b)' = EndsIn(i, b) - 1
    BY <1>3, <2>1, <2>2, DecayAssumption DEF EndsIn, CallsLeft
  <2>. QED BY <1>2, <1>3, <1>6, <2>3 DEF InBucket
<1>. QED BY <1>2, <1>4, <1>5, <1>6 DEF Scheduled

(* checkDecay visits an item that is left alone in the call that its schedule says. *)
LEMMA VisitedOnSchedule ==
  ASSUME TypeOK, WalkOK, NEW i \in Items, Scheduled(i), pc # "idle", left[i] > 0
  PROVE  /\ InBucket(i, bucket)
         /\ left[i] = 1
         /\ EndsIn(i, bucket) = IF duration[i] < Buckets THEN 0 ELSE duration[i] - Buckets
<1>1. bucket \in Ring /\ lastBucket \in Ring /\ left[i] \in Nat
  BY InRing DEF TypeOK
<1>2. left[i] <= decayItems[bucket][i] /\ decayItems[bucket][i] \in Nat
  BY <1>1 DEF WalkOK, TypeOK
<1>3. ~Waits(i)
  BY <1>1, <1>2 DEF Waits
<1>4. PICK b \in Ring : InBucket(i, b)
  BY <1>3 DEF Scheduled
<1>5. b = bucket
  BY <1>1, <1>2, <1>4 DEF InBucket
<1>6. left[i] = 1
  BY <1>1, <1>2, <1>4 DEF InBucket
<1>7. CallsLeft(i, bucket) = 0
  BY <1>1, <1>6, NextBucket DEF CallsLeft
<1>8. duration[i] \in Nat /\ Buckets \in Nat
  BY DecayAssumption DEF Scheduled, Intact
<1>. QED BY <1>4, <1>5, <1>6, <1>7, <1>8 DEF EndsIn

LEMMA WalkSpares ==
  ASSUME TypeOK, WalkOK, NEW i \in Items, Walks(i), Erases(i), UNCHANGED toDecayItems,
         NEW j \in Items \ {i}
  PROVE  SameEntry(j)
<1>1. left'[j] = left[j]
  BY DEF Walks, Plus, TypeOK
<1>2. \A b \in Ring : decayItems'[b][j] = decayItems[b][j]
  BY InRing DEF Erases, TypeOK
<1>. QED BY <1>1, <1>2 DEF SameEntry

LEMMA MovesScheduled ==
  ASSUME TypeOK, WalkOK, NEW i \in Items, WalkMoves(i), Scheduled(i)
  PROVE  Scheduled(i)'
<1>1. /\ pc # "idle" /\ pc' # "idle" /\ left[i] > 0
      /\ left' = Plus(left, i, -1)
      /\ duration' = [duration EXCEPT ![i] = Remaining(i)]
      /\ Remaining(i) > 0
      /\ UNCHANGED <<place, id, decaying, toDecayItems, lastBucket, due>>
  BY DEF WalkMoves, Walks, history
<1>2. /\ bucket \in Ring /\ lastBucket \in Ring /\ bucket' = bucket
      /\ duration[i] \in Nat \ {0} /\ Buckets \in Nat \ {0}
  BY <1>1, InRing, DecayAssumption DEF TypeOK, Scheduled, Intact, bucket
<1>3. /\ InBucket(i, bucket) /\ left[i] = 1
      /\ EndsIn(i, bucket) = IF duration[i] < Buckets THEN 0 ELSE duration[i] - Buckets
  BY <1>1, VisitedOnSchedule
<1>4. Remaining(i) = duration[i] - Buckets /\ Remaining(i) \in Nat \ {0}
  BY <1>1, <1>2 DEF Remaining, getDuration, NoDuration
<1>5. duration'[i] = Remaining(i) /\ left'[i] = 0
  BY <1>1, <1>3 DEF Plus, TypeOK
<1>6. Intact(i)'
  BY <1>1, <1>4, <1>5 DEF Scheduled, Intact, canDecay
<1>7. EndsIn(i, bucket) = Remaining(i)
  BY <1>2, <1>3, <1>4
<1>8. due[i] = Remaining(i) \/ due[i] = Remaining(i) - 1
  BY <1>3, <1>7 DEF InBucket
<1>9. CASE Remaining(i) < Buckets
  <2>1. Remaining(i) \in 1..(Buckets - 1)
    BY <1>2, <1>4, <1>9
  <2>2. PICK b \in Ring \ {bucket} : b = (bucket + Remaining(i)) % Buckets
    BY <1>2, <2>1, OtherBucket
  <2>3. Distance(bucket, b) = Remaining(i)
    BY <1>2, <2>1, <2>2, Steps
  <2>4. Distance(lastBucket, b) - 1 = Remaining(i)
    BY <1>2, <2>2, <2>3, NextBucket
  <2>5. decayItems' = [decayItems EXCEPT ![bucket][i] = @ - 1, ![b][i] = @ + 1]
    BY <1>9, <2>2 DEF WalkMoves
  <2>6. \A c \in Ring : decayItems'[c][i] = IF c = b THEN decayItems[c][i] + 1
                                            ELSE IF c = bucket THEN decayItems[c][i] - 1
                                            ELSE decayItems[c][i]
    BY <1>2, <2>2, <2>5 DEF TypeOK
  <2>7. \A c \in Ring : decayItems'[c][i] = IF c = b THEN 1 ELSE 0
    BY <1>2, <1>3, <2>2, <2>6 DEF InBucket
  <2>8. CallsLeft(i, b)' = Distance(lastBucket, b) - 1
    BY <1>1, <1>2, <2>2 DEF CallsLeft, Distance
  <2>9. EndsIn(i, b)' = Remaining(i)
    BY <1>2, <1>4, <1>5, <1>9, <2>4, <2>8 DEF EndsIn
  <2>10. InBucket(i, b)'
    BY <1>1, <1>3, <1>8, <2>7, <2>9 DEF InBucket
  <2>. QED BY <1>6, <2>10 DEF Scheduled
<1>10. CASE ~(Remaining(i) < Buckets)
  <2>1. PICK b \in Ring : b = bucket
    BY <1>2
  <2>2. decayItems' = decayItems
    BY <1>10 DEF WalkMoves
  <2>3. CallsLeft(i, b)' = Buckets
    BY <1>1, <1>2, <1>5, <2>1 DEF CallsLeft
  <2>4. EndsIn(i, b)' = Remaining(i)
    BY <1>2, <1>4, <1>5, <1>10, <2>3 DEF EndsIn
  <2>5. InBucket(i, b)'
    BY <1>1, <1>3, <1>8, <2>1, <2>2, <2>4 DEF InBucket
  <2>. QED BY <1>6, <2>5 DEF Scheduled
<1>. QED BY <1>9, <1>10

LEMMA StepScheduled ==
  ASSUME TypeOK, WalkOK, CountOK, RefsCounted, OnSchedule, [Next]_vars
  PROVE  OnSchedule'
<1>1. /\ ItemsOK /\ ListsOK /\ bucket \in Ring /\ watched \subseteq Items
      /\ \A i \in watched : place[i] = "world" /\ canDecay(i)
  BY TypeHalves, InRing DEF ItemsOK, ListsOK, OnSchedule, Scheduled, Intact, canDecay
<1>2. ASSUME SameLoop, watched' \subseteq watched,
             \A i \in watched' : SameItem(i) /\ SameEntry(i)
      PROVE  OnSchedule'
  BY <1>1, <1>2, StaysScheduled DEF OnSchedule
<1>3. ASSUME UNCHANGED <<lists, pc, left>>, watched' \subseteq watched,
             \A i \in watched' : SameItem(i)
      PROVE  OnSchedule'
  <2>1. SameLoop /\ \A i \in watched' : SameEntry(i)
    BY <1>3 DEF SameLoop, SameEntry, lists
  <2>. QED BY <1>2, <1>3, <2>1
<1>4. ASSUME NEW i \in Items, NEW t \in Types, Create(i, t)
      PROVE  OnSchedule'
  <2>1. i \notin watched /\ watched' = watched /\ due' = due
    BY <1>1, <1>4 DEF Create, history
  <2>2. \A j \in Items \ {i} : place'[j] = place[j] /\ id'[j] = id[j] /\ duration'[j] = duration[j]
    BY <1>1, <1>4 DEF Create, ItemsOK
  <2>3. \A j \in Items \ {i} : decaying'[j] = decaying[j]
    BY <1>1, <1>4, Zenon DEF Create, ItemsOK
  <2>4. \A j \in watched : SameItem(j)
    BY <1>1, <2>1, <2>2, <2>3 DEF SameItem
  <2>. QED BY <1>3, <1>4, <2>1, <2>4 DEF Create
<1>5. ASSUME NEW i \in Items, NEW t \in Types, GameTransforms(i, t)
      PROVE  OnSchedule'
  <2>1. PICK result \in Items : TransformItem(i, t, duration[i], result, 0)
    BY <1>5 DEF GameTransforms
  <2>2. watched' = watched \ {i} /\ \A j \in watched' : SameItem(j)
    BY <1>1, <2>1, TransformSpares
  <2>. QED BY <1>3, <1>5, <2>2 DEF GameTransforms
<1>6. ASSUME NEW i \in Items, GameRemoves(i)
      PROVE  OnSchedule'
  <2>1. watched' = watched \ {i} /\ \A j \in watched' : SameItem(j)
    BY <1>1, <1>6, RemoveSpares DEF GameRemoves
  <2>. QED BY <1>3, <1>6, <2>1 DEF GameRemoves
<1>7. CASE Restart \/ \E i \in Items : GameStartsDecay(i)
  <2>1. PICK i \in Items, pending \in Items \cup {Nothing} : StartDecay(i, pending)
    BY <1>1, <1>7 DEF Restart, GameStartsDecay, ListsOK
  <2>. QED BY <2>1, StartDecayScheduled
<1>8. CASE CreatureTaskEnds
  <2>1. /\ Cleanup(lastBucket) /\ UNCHANGED history
        /\ pc = "idle" /\ pc' = "idle" /\ lastBucket' = lastBucket /\ lastBucket \in Ring
    BY <1>1, <1>8 DEF CreatureTaskEnds, ListsOK
  <2>. QED BY <2>1, CleanupScheduled
<1>9. CASE CheckDecayEnds
  <2>1. /\ Cleanup(bucket) /\ UNCHANGED history
        /\ pc # "idle" /\ pc' = "idle" /\ lastBucket' = bucket /\ left = None
    BY <1>9 DEF CheckDecayEnds
  <2>. QED BY <1>1, <2>1, CleanupScheduled
<1>10. CASE CheckDecayBegins
  BY <1>10, BeginScheduled
<1>11. CASE UNCHANGED vars
  <2>1. UNCHANGED <<lists, pc, left>> /\ watched' = watched /\ \A i \in Items : SameItem(i)
    BY <1>11 DEF vars, attributes, history, SameItem
  <2>. QED BY <1>1, <1>3, <2>1
<1>12. ASSUME NEW i \in Items, WalkDrops(i)
       PROVE  OnSchedule'
  <2>1. i \notin watched /\ UNCHANGED <<place, id, duration, toDecayItems, history>>
    BY <1>1, <1>12 DEF WalkDrops
  <2>2. Walks(i) /\ Erases(i) /\ SameLoop
    BY <1>12 DEF WalkDrops, SameLoop, Walks
  <2>3. \A j \in Items \ {i} : decaying'[j] = decaying[j]
    BY <1>1, <1>12, Zenon DEF WalkDrops, Drops, ItemsOK
  <2>4. \A j \in Items \ {i} : SameEntry(j)
    BY <2>1, <2>2, WalkSpares
  <2>5. \A j \in watched : SameItem(j) /\ SameEntry(j)
    BY <1>1, <2>1, <2>3, <2>4 DEF SameItem, history
  <2>. QED BY <1>2, <2>1, <2>2, <2>5 DEF history
<1>13. ASSUME NEW i \in Items, WalkDecays(i)
       PROVE  OnSchedule'
  <2>1. /\ Walks(i) /\ Erases(i) /\ SameLoop /\ UNCHANGED toDecayItems
        /\ InternalDecayItem(i, Decreased(i), 1, Nothing)
    BY <1>13 DEF WalkDecays, SameLoop, Walks
  <2>2. watched' = watched \ {i} /\ \A j \in watched' : SameItem(j)
    BY <1>1, <2>1, InternalDecaySpares
  <2>3. \A j \in Items \ {i} : SameEntry(j)
    BY <2>1, WalkSpares
  <2>. QED BY <1>1, <1>2, <2>1, <2>2, <2>3
<1>14. ASSUME NEW i \in Items, WalkMoves(i)
       PROVE  OnSchedule'
  <2>1. SameLoop /\ UNCHANGED <<place, id, decaying, toDecayItems, history>>
    BY <1>14 DEF WalkMoves, Walks, SameLoop
  <2>2. \A j \in Items \ {i} : duration'[j] = duration[j] /\ left'[j] = left[j]
    BY <1>1, <1>14 DEF WalkMoves, Walks, Plus, ItemsOK, ListsOK
  <2>3. \A j \in Items \ {i} : SameItem(j)
    BY <2>1, <2>2 DEF SameItem, history
  <2>4. \A j \in Items \ {i} : SameEntry(j)
    BY <1>14, <2>1, <2>2, MovesTypes DEF SameEntry
  <2>5. \A j \in watched \ {i} : Scheduled(j)'
    BY <1>1, <2>1, <2>3, <2>4, StaysScheduled DEF OnSchedule
  <2>6. i \in watched => Scheduled(i)'
    BY <1>14, MovesScheduled DEF OnSchedule
  <2>. QED BY <2>1, <2>5, <2>6 DEF OnSchedule, history
<1>. QED
  BY <1>4, <1>5, <1>6, <1>7, <1>8, <1>9, <1>10, <1>11, <1>12, <1>13, <1>14
  DEF Next, Game, CheckDecay

LEMMA ScheduledInTime ==
  ASSUME TypeOK, WalkOK, OnSchedule
  PROVE  InTime
<1>1. SUFFICES ASSUME NEW i \in watched
               PROVE  /\ due[i] >= -1
                      /\ pc # "idle" /\ left[i] > 0 /\ canDecay(i) /\ Remaining(i) = 0
                           => due[i] <= 0
  BY DEF InTime
<1>2. i \in Items /\ Scheduled(i) /\ due[i] \in Int /\ lastBucket \in Ring
  BY DEF TypeOK, OnSchedule
<1>3. duration[i] \in Nat \ {0} /\ Buckets \in Nat \ {0}
  BY <1>2, DecayAssumption DEF Scheduled, Intact
<1>4. due[i] >= -1
  <2>1. Waits(i) => due[i] >= -1
    BY <1>3 DEF Waits, Calls
  <2>2. ASSUME NEW b \in Ring, InBucket(i, b)
        PROVE  due[i] >= -1
    <3>1. CallsLeft(i, b) \in Nat
      BY <1>2, <1>3, NextBucket DEF CallsLeft
    <3>2. EndsIn(i, b) \in Nat
      BY <1>3, <3>1 DEF EndsIn
    <3>. QED BY <2>2, <3>2 DEF InBucket
  <2>. QED BY <1>2, <2>1, <2>2 DEF Scheduled
<1>5. ASSUME pc # "idle", left[i] > 0, Remaining(i) = 0
      PROVE  due[i] <= 0
  <2>1. EndsIn(i, bucket) = 0
    <3>1. duration[i] <= Buckets
      BY <1>3, <1>5 DEF Remaining, getDuration, NoDuration
    <3>. QED BY <1>2, <1>3, <1>5, <3>1, VisitedOnSchedule
  <2>. QED BY <1>2, <1>5, <2>1, VisitedOnSchedule DEF InBucket
<1>. QED BY <1>4, <1>5

(* An item that nobody interferes with decays in the call of checkDecay that ends its
   duration or in the one after, for any duration and any number of buckets. *)
THEOREM DecaysInTime == Spec => []InTime
<1>1. Init => OnSchedule
  BY DEF Init, OnSchedule
<1>2. /\ Init => TypeOK /\ WalkOK /\ CountOK /\ RefsCounted /\ OnSchedule
      /\ TypeOK /\ WalkOK /\ CountOK /\ RefsCounted /\ OnSchedule /\ [Next]_vars
           => TypeOK' /\ WalkOK' /\ CountOK' /\ RefsCounted' /\ OnSchedule'
      /\ TypeOK /\ WalkOK /\ OnSchedule => InTime
  BY <1>1, InitTypes, InitCounts, StepTypes, StepCounts, StepScheduled, ScheduledInTime
<1>. QED BY <1>2, PTL DEF Spec

=============================================================================
