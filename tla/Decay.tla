---------------------------------- MODULE Decay ----------------------------------
(***************************************************************************)
(* Items that decay (game.cpp): a ring of buckets, one of which checkDecay *)
(* walks every second, and the things that wait for cleanup() to give up a *)
(* reference to them.  Time is counted in calls of checkDecay, durations   *)
(* in its interval (the durations of the items are whole seconds, so the   *)
(* rounding in checkDecay and cleanup is exact).                           *)
(*                                                                         *)
(* Everything runs in the dispatcher thread.  A step may come inside       *)
(* another one only where the code calls scripts: while an item is removed *)
(* or transformed.  The order inside a list does not matter, so a list is  *)
(* the number of times each item is in it.                                 *)
(***************************************************************************)
EXTENDS Integers, FiniteSets

CONSTANTS Items,      \* Item objects
          Types,      \* item types (items.xml)
          DecayTime,  \* decayTime of a type, 0 for none
          DecayTo,    \* decayTo of a type: a type, or Gone (0), or Stays (-1)
          StopTime,   \* types with stopTime
          Class,      \* `type' of a type: within a class items transform in place
          OnTop,      \* types with alwaysOnTop
          Buckets,    \* EVENT_DECAYBUCKETS
          MaxEntries  \* bound: the game lists no item that is in the lists that often

Gone == "gone"
Stays == "stays"
Nothing == "nothing"

(* A type that decays into another one does not stop the time, and the other one has a
   time of its own or stays as it is: otherwise the item would keep the mark of decaying
   with no time left. *)
DecaysWell(t) ==
  LET next == DecayTo[t]
  IN  /\ next # t
      /\ t \notin StopTime /\ next \notin StopTime
      /\ DecayTime[next] > 0 \/ DecayTo[next] = Stays

ASSUME DecayAssumption ==
  /\ IsFiniteSet(Items) /\ Nothing \notin Items
  /\ Types # {} /\ {Gone, Stays} \cap Types = {}
  /\ DecayTime \in [Types -> Nat]
  /\ DecayTo \in [Types -> Types \cup {Gone, Stays}]
  /\ StopTime \subseteq Types /\ OnTop \subseteq Types
  /\ \A t \in Types : DecayTime[t] > 0 /\ DecayTo[t] \in Types => DecaysWell(t)
  /\ Buckets \in Nat \ {0} /\ MaxEntries \in Nat \ {0}

VARIABLES
  place,     \* "world", "removed" (also with what it lay in), or "unborn"
  id,        \* the type of the item
  duration,  \* attribute, or NoDuration
  decaying,  \* attribute: DECAYING_TRUE
  refs,      \* refCount
  decayItems, toDecayItems, releaseThings,
  lastBucket,
  pc,        \* checkDecay: "idle", "walk", or "decayed" (scripts may run)
  left,      \* checkDecay: the entries of the bucket that are still to be visited
  restart,   \* internalDecayItem: the new item that startDecay will be called for
  watched, due  \* history: the items that nobody interfered with since they were listed,
                \* and how many calls of checkDecay are left until they should decay

attributes == <<place, id, duration, decaying>>
lists == <<decayItems, toDecayItems, lastBucket>>
history == <<watched, due>>
vars == <<attributes, refs, lists, releaseThings, pc, left, restart, history>>

Ring == 0..(Buckets - 1)
NoDuration == -1
None == [i \in Items |-> 0]

SomeType == CHOOSE t \in Types : TRUE  \* of an object that is not an item yet

TypeOK ==
  /\ place \in [Items -> {"world", "removed", "unborn"}]
  /\ id \in [Items -> Types]
  /\ duration \in [Items -> Nat \cup {NoDuration}]
  /\ decaying \in [Items -> BOOLEAN]
  /\ refs \in [Items -> Nat]
  /\ decayItems \in [Ring -> [Items -> Nat]]
  /\ toDecayItems \in [Items -> Nat]
  /\ releaseThings \in [Items -> Nat]
  /\ lastBucket \in Ring
  /\ pc \in {"idle", "walk", "decayed"}
  /\ left \in [Items -> Nat]
  /\ restart \in Items \cup {Nothing}
  /\ watched \subseteq Items
  /\ due \in [Items -> Int]

Init ==
  /\ place = [i \in Items |-> "unborn"]
  /\ id = [i \in Items |-> SomeType]
  /\ duration = [i \in Items |-> NoDuration]
  /\ decaying = [i \in Items |-> FALSE]
  /\ refs = None
  /\ decayItems = [b \in Ring |-> None] /\ toDecayItems = None /\ releaseThings = None
  /\ lastBucket = 0
  /\ pc = "idle" /\ left = None /\ restart = Nothing
  /\ watched = {} /\ due = None

-----------------------------------------------------------------------------
(* Reading an item. *)

Listed(i) == toDecayItems[i] > 0 \/ \E b \in Ring : decayItems[b][i] > 0

(* The entries of an item in the buckets, numbered in each of them. *)
Entries(i) == UNION {{b} \X (1..decayItems[b][i]) : b \in Ring}

InLists(i) == toDecayItems[i] + Cardinality(Entries(i))

getDuration(i) == IF duration[i] = NoDuration THEN 0 ELSE duration[i]

(* The items of the map that canDecay also excludes, for their unique or action id, never
   come into the lists: they stand for items of a type without a time. *)
canDecay(i) ==
  place[i] = "world" /\ DecayTo[id[i]] # Stays /\ DecayTime[id[i]] > 0

Plus(list, i, n) == [list EXCEPT ![i] = @ + n]

-----------------------------------------------------------------------------
(* Transforming and removing an item.  Both may refuse and leave everything as it is: the
   item is not in its parent, or it is a door (canTransform) or a depot or a bed without
   house (canRemove).  A refusal is a stuttering step of GameTransforms and GameRemoves.
   InternalDecayItem meets none: an item that canDecay lies in its parent, and no door,
   bed or depot of items.xml has a decayTo or a duration. *)

(* What Item::setID leaves of the attributes. *)
Erased(t) == DecayTime[t] = 0 /\ t \notin StopTime /\ DecayTo[t] = Stays

Restarts(i, t) ==
  DecayTime[t] > 0 /\ (id[i] \notin StopTime \/ duration[i] = NoDuration)

Unwatch(i) == watched' = watched \ {i} /\ due' = [due EXCEPT ![i] = 0]

(* Mutation of SetID: the item goes on as decaying when its time starts again. *)
SetIDOnly(i, t, rest) ==
  /\ id' = [id EXCEPT ![i] = t]
  /\ duration' = [duration EXCEPT ![i] =
       IF Erased(t) THEN NoDuration ELSE IF Restarts(i, t) THEN DecayTime[t] ELSE rest]
  /\ decaying' = [decaying EXCEPT ![i] = @ /\ ~Erased(t)]

(* The item keeps its place, its identity and its entries in the lists; `rest' is what
   its duration has come to. *)
SetID(i, t, rest) ==
  /\ id' = [id EXCEPT ![i] = t]
  /\ duration' = [duration EXCEPT ![i] =
       IF Erased(t) THEN NoDuration ELSE IF Restarts(i, t) THEN DecayTime[t] ELSE rest]
  /\ decaying' = [decaying EXCEPT ![i] = @ /\ ~Erased(t) /\ ~Restarts(i, t)]

(* Another item takes the place.  It has the duration of its type, or none when it is
   added anew with the attributes of the old one. *)
Replace(i, j, t) ==
  /\ place[j] = "unborn"
  /\ place' = [place EXCEPT ![i] = "removed", ![j] = "world"]
  /\ id' = [id EXCEPT ![j] = t]
  /\ duration' = [duration EXCEPT ![j] =
       IF DecayTime[t] = 0 \/ (id[i] \in OnTop) # (t \in OnTop)
       THEN NoDuration ELSE DecayTime[t]]
  /\ decaying' = [decaying EXCEPT ![j] = FALSE]
  /\ refs' = [refs EXCEPT ![j] = 1]

(* transformItem and the item that is there afterwards; the caller gives up `given'
   references to the old one.  An item that changes in place calls scripts before the
   change too (postRemoveNotification); what these do is taken to come before or after
   the whole step. *)
TransformItem(i, t, rest, result, given) ==
  /\ IF Class[id[i]] = Class[t] /\ ((id[i] \in OnTop) = (t \in OnTop))
     THEN /\ result = i
          /\ SetID(i, t, rest)
          /\ releaseThings' = Plus(releaseThings, i, given)
          /\ UNCHANGED <<place, refs>>
     ELSE /\ Replace(i, result, t)
          /\ releaseThings' = Plus(releaseThings, i, given + 1)
  /\ Unwatch(i)

(* internalRemoveItem.  What is in a removed container, or with a player who leaves, is
   removed too, and given up when cleanup() deletes its owner. *)
RemoveItem(i, given) ==
  /\ place' = [place EXCEPT ![i] = "removed"]
  /\ releaseThings' = Plus(releaseThings, i, given + 1)
  /\ Unwatch(i)
  /\ UNCHANGED <<id, duration, decaying, refs>>

-----------------------------------------------------------------------------
(* Decaying. *)

(* internalDecayItem, up to the scripts that its change of the item calls. *)
InternalDecayItem(i, rest, given, pending) ==
  IF DecayTo[id[i]] = Gone
  THEN RemoveItem(i, given) /\ restart' = pending
  ELSE \E j \in Items :
         TransformItem(i, DecayTo[id[i]], rest, j, given) /\ restart' = j

(* The calls of checkDecay that make up a duration.  The time to the first of them may be
   short: a duration of less than a turn of the ring gets one more, a longer one none. *)
Calls(d) == IF d < Buckets THEN d + 1 ELSE d

(* startDecay lists the item for cleanup(). *)
List(i) ==
  /\ refs' = Plus(refs, i, 1)
  /\ decaying' = [decaying EXCEPT ![i] = TRUE]
  /\ toDecayItems' = Plus(toDecayItems, i, 1)
  /\ IF ~Listed(i)
     THEN watched' = watched \cup {i} /\ due' = [due EXCEPT ![i] = Calls(duration[i])]
     ELSE UNCHANGED history

(* startDecay; `pending' is the item for which an outer call is still to come. *)
StartDecay(i, pending) ==
  /\ UNCHANGED <<decayItems, lastBucket, pc, left>>
  /\ IF ~canDecay(i) \/ decaying[i]
     THEN /\ restart' = pending
          /\ UNCHANGED <<attributes, refs, toDecayItems, releaseThings, history>>
     ELSE IF getDuration(i) > 0
     THEN /\ List(i)
          /\ restart' = pending
          /\ UNCHANGED <<place, id, duration, releaseThings>>
     ELSE /\ pending = Nothing
          /\ InternalDecayItem(i, duration[i], 0, pending)
          /\ toDecayItems' = toDecayItems

-----------------------------------------------------------------------------
(* The rest of the game, in tasks of its own or in scripts. *)

Scripts == pc # "walk"

(* Bound: of the objects that are free, one is kept for each item in the world, to take
   its place. *)
Room(n) ==
  Cardinality({i \in Items : place[i] = "unborn"})
    >= Cardinality({i \in Items : place[i] = "world"}) + n

(* An item is made, with what was left of its duration if it comes from the database. *)
Create(i, t) ==
  /\ Scripts
  /\ place[i] = "unborn"
  /\ Room(2)
  /\ place' = [place EXCEPT ![i] = "world"]
  /\ id' = [id EXCEPT ![i] = t]
  /\ duration' \in {[duration EXCEPT ![i] = d] :
                      d \in IF DecayTime[t] = 0 THEN {NoDuration} ELSE 1..DecayTime[t]}
  /\ decaying' = [decaying EXCEPT ![i] = FALSE]
  /\ refs' = [refs EXCEPT ![i] = 1]
  /\ UNCHANGED <<lists, releaseThings, pc, left, restart, history>>

GameStartsDecay(i) ==
  /\ Scripts
  /\ place[i] = "world" /\ canDecay(i) /\ ~decaying[i]
  /\ InLists(i) < MaxEntries
  /\ StartDecay(i, restart)

GameTransforms(i, t) ==
  /\ Scripts
  /\ place[i] = "world"
  /\ t # id[i]
  /\ \E j \in Items : TransformItem(i, t, duration[i], j, 0) /\ (j = i \/ Room(1))
  /\ UNCHANGED <<lists, pc, left, restart>>

GameRemoves(i) ==
  /\ Scripts
  /\ place[i] = "world"
  /\ RemoveItem(i, 0)
  /\ UNCHANGED <<lists, pc, left, restart>>

(* internalDecayItem, after transformItem and its scripts. *)
Restart ==
  /\ restart # Nothing
  /\ StartDecay(restart, Nothing)

-----------------------------------------------------------------------------
(* cleanup() *)

(* Mutation of Target: an item listed just now is visited a second early. *)
TargetEarly(i, last) ==
  IF getDuration(i) >= Buckets THEN last ELSE (last + getDuration(i)) % Buckets

(* The bucket of an item that was just listed. *)
Target(i, last) ==
  IF getDuration(i) >= Buckets THEN last ELSE (last + 1 + getDuration(i)) % Buckets

Deleted == {i \in Items : releaseThings[i] > 0 /\ refs[i] <= releaseThings[i]}

Cleanup(last) ==
  /\ refs' = [i \in Items |-> IF i \in Deleted THEN 0 ELSE refs[i] - releaseThings[i]]
  /\ releaseThings' = None
  /\ place' = [i \in Items |-> IF i \in Deleted THEN "unborn" ELSE place[i]]
  /\ duration' = [i \in Items |-> IF i \in Deleted THEN NoDuration ELSE duration[i]]
  /\ decaying' = [i \in Items |-> i \notin Deleted /\ decaying[i]]
  /\ id' = [i \in Items |-> IF i \in Deleted THEN SomeType ELSE id[i]]
  /\ decayItems' = [b \in Ring |-> [i \in Items |->
       decayItems[b][i] + IF Target(i, last) = b THEN toDecayItems[i] ELSE 0]]
  /\ toDecayItems' = None

(* checkCreatureWalk and checkCreatures end with cleanup(), without decayMutex. *)
CreatureTaskEnds ==
  /\ pc = "idle" /\ restart = Nothing
  /\ releaseThings # None \/ toDecayItems # None
  /\ Cleanup(lastBucket)
  /\ UNCHANGED <<lastBucket, pc, left, restart, history>>

-----------------------------------------------------------------------------
(* checkDecay() *)

bucket == (lastBucket + 1) % Buckets

CheckDecayBegins ==
  /\ pc = "idle" /\ restart = Nothing
  /\ pc' = "walk"
  /\ left' = decayItems[bucket]
  /\ due' = [i \in Items |-> IF i \in watched THEN due[i] - 1 ELSE due[i]]
  /\ UNCHANGED <<attributes, refs, lists, releaseThings, restart, watched>>

Walks(i) ==
  /\ pc \in {"walk", "decayed"} /\ restart = Nothing
  /\ left[i] > 0
  /\ left' = Plus(left, i, -1)

(* Mutation of Erases: lastBucket is the bucket being walked. *)
ErasesFromLast(i) == decayItems' = [decayItems EXCEPT ![lastBucket][i] = @ - 1]

(* The entry leaves the bucket. *)
Erases(i) == decayItems' = [decayItems EXCEPT ![bucket][i] = @ - 1]

(* Mutation of Drops: the reference is not given up. *)
DropsOnly(i) ==
  /\ decaying' = [decaying EXCEPT ![i] = FALSE]
  /\ releaseThings' = releaseThings

(* The item cannot decay any more. *)
Drops(i) ==
  /\ decaying' = [decaying EXCEPT ![i] = FALSE]
  /\ releaseThings' = Plus(releaseThings, i, 1)

WalkDrops(i) ==
  /\ Walks(i)
  /\ ~canDecay(i)
  /\ Erases(i)
  /\ Drops(i)
  /\ pc' = "walk"
  /\ UNCHANGED <<place, id, duration, refs, toDecayItems, lastBucket, restart, history>>

(* Mutation of Remaining: an item that stays in its bucket keeps its duration. *)
RemainingOnce(i) == IF getDuration(i) > Buckets THEN getDuration(i) ELSE 0

(* What is left of the duration after one turn of the ring. *)
Remaining(i) == IF getDuration(i) > Buckets THEN getDuration(i) - Buckets ELSE 0

Decreased(i) == IF duration[i] = NoDuration THEN NoDuration ELSE Remaining(i)

WalkDecays(i) ==
  /\ Walks(i)
  /\ canDecay(i)
  /\ Remaining(i) = 0
  /\ Erases(i)
  /\ InternalDecayItem(i, Decreased(i), 1, Nothing)
  /\ pc' = "decayed"
  /\ UNCHANGED <<toDecayItems, lastBucket>>

(* The item goes to the bucket that comes round when its time is over, or stays for
   another turn. *)
WalkMoves(i) ==
  /\ Walks(i)
  /\ canDecay(i)
  /\ Remaining(i) > 0
  /\ duration' = [duration EXCEPT ![i] = Remaining(i)]
  /\ IF Remaining(i) < Buckets
     THEN decayItems' = [decayItems EXCEPT
            ![bucket][i] = @ - 1, ![(bucket + Remaining(i)) % Buckets][i] = @ + 1]
     ELSE decayItems' = decayItems
  /\ pc' = "walk"
  /\ UNCHANGED <<place, id, decaying, refs, toDecayItems, lastBucket, releaseThings,
                 restart, history>>

CheckDecayEnds ==
  /\ pc \in {"walk", "decayed"} /\ restart = Nothing
  /\ left = None
  /\ lastBucket' = bucket
  /\ Cleanup(bucket)
  /\ pc' = "idle"
  /\ UNCHANGED <<left, restart, history>>

CheckDecay ==
  \/ CheckDecayBegins
  \/ \E i \in Items : WalkDrops(i) \/ WalkDecays(i) \/ WalkMoves(i)
  \/ CheckDecayEnds

Game ==
  \/ \E i \in Items : GameStartsDecay(i) \/ GameRemoves(i)
  \/ \E i \in Items, t \in Types : Create(i, t) \/ GameTransforms(i, t)
  \/ CreatureTaskEnds

Next == Game \/ CheckDecay \/ Restart

Spec == Init /\ [][Next]_vars

(* checkDecay goes on once it has begun, and the scheduler calls it again and again. *)
Fairness == WF_vars(Restart) /\ SF_vars(CheckDecay)

FairSpec == Spec /\ Fairness

-----------------------------------------------------------------------------
(* Every reference to an item is counted once: its place in the world, each entry in
   the lists of decay and each reference that cleanup() will give up.  So an item that a
   list or startDecay still refers to is not deleted, and none is kept for ever. *)
RefsCounted ==
  \A i \in Items :
    refs[i] = InLists(i) + releaseThings[i] + (IF place[i] = "world" THEN 1 ELSE 0)

(* An item that is marked as decaying is in a list.  One that is not would never decay:
   startDecay leaves it alone. *)
NoneForgotten ==
  \A i \in Items : place[i] = "world" /\ decaying[i] => Listed(i)

(* An item that nobody interferes with decays in the call of checkDecay that ends its
   duration or in the one after (if that call came before the item was in a bucket),
   whatever buckets it has been through. *)
InTime ==
  \A i \in watched :
    /\ due[i] >= -1
    /\ pc # "idle" /\ left[i] > 0 /\ canDecay(i) /\ Remaining(i) = 0 => due[i] <= 0

(* An item does not stay marked as decaying for ever, whatever is done to it. *)
DecayingEnds == \A i \in Items : decaying[i] ~> ~decaying[i]

=============================================================================
