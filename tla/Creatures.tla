---------------------------------- MODULE Creatures ----------------------------------
(***************************************************************************)
(* The life of creatures: how they come into the game and leave it         *)
(* (game.cpp), the vectors from which checkCreatures() lets them think and *)
(* die, their summons (creature.cpp), and the references that keep the     *)
(* objects (thing.h).  While checkCreatures() walks a vector, what it runs *)
(* - thinking, dying, scripts - places, removes, hurts, summons and        *)
(* convinces other creatures: those actions are between two steps of the   *)
(* walk as well as between two tasks.  Everything runs in the dispatcher   *)
(* thread.                                                                 *)
(***************************************************************************)
EXTENDS Integers, SequencesExt, FiniteSetsExt, Subsequences

CONSTANTS Creatures,           \* places in the memory for Creature objects
          Null,                \* the pointer NULL
          EVENT_CREATURECOUNT, \* the number of vectors
          MaxHeld              \* bound: references of target lists, spawns, clients

ASSUME CreaturesAssumption ==
  /\ Null \notin Creatures
  /\ EVENT_CREATURECOUNT \in Nat \ {0} /\ MaxHeld \in Nat

VARIABLES
  life,      \* none: no object; placed: in the game (autoList); removed: not any more
  healthy,   \* getHealth() > 0
  master,    \* Creature::master; the master's summons are those who have it
  refs,      \* refCount
  held,      \* references that others than the lists below have
  pending,   \* how often it is in releaseThings
  checked,   \* Creature::checked
  vector,    \* Creature::checkVector
  toAdd,     \* toAddCheckCreatureVector
  vectors,   \* checkCreatureVectors
  index,     \* checkCreatureLastIndex
  at         \* the entry that the walk is at; 0 when nobody walks

objects == <<life, healthy, master, refs, held, pending>>
checks == <<checked, vector, toAdd, vectors>>
walk == <<index, at>>
vars == <<objects, checks, walk>>

Vectors == 0 .. EVENT_CREATURECOUNT - 1

TypeOK ==
  /\ life \in [Creatures -> {"none", "placed", "removed"}]
  /\ healthy \in [Creatures -> BOOLEAN]
  /\ master \in [Creatures -> Creatures \cup {Null}]
  /\ refs \in [Creatures -> Nat] /\ pending \in [Creatures -> Nat]
  /\ held \in [Creatures -> 0 .. MaxHeld]
  /\ checked \in [Creatures -> BOOLEAN]
  /\ vector \in [Creatures -> Vectors \cup {-1}]
  /\ toAdd \in Seq(Creatures) /\ vectors \in [Vectors -> Seq(Creatures)]
  /\ index \in Vectors /\ at \in Nat

Init ==
  /\ life = [c \in Creatures |-> "none"]
  /\ healthy = [c \in Creatures |-> TRUE]
  /\ master = [c \in Creatures |-> Null]
  /\ refs = [c \in Creatures |-> 0]
  /\ held = [c \in Creatures |-> 0]
  /\ pending = [c \in Creatures |-> 0]
  /\ checked = [c \in Creatures |-> FALSE]
  /\ vector = [c \in Creatures |-> -1]
  /\ toAdd = <<>>
  /\ vectors = [v \in Vectors |-> <<>>]
  /\ index = 0 /\ at = 0

-----------------------------------------------------------------------------
(* References. *)

summons(m) == {c \in Creatures : master[c] = m}

(* The objects, when the references are counted by r and the masters are m: unRef() deletes
   one that has none left, and its destructor releases its summons, which have none of
   their own. *)
Counts(r, m, l) ==
  LET Out(f) == {c \in Creatures : l[c] # "none" /\ f[c] <= 0}
      deleted == Out(r)
      left == [c \in Creatures |-> IF m[c] \in deleted THEN r[c] - 1 ELSE r[c]]
  IN  /\ refs' = left
      /\ life' = [c \in Creatures |-> IF c \in Out(left) THEN "none" ELSE l[c]]
      /\ master' = [c \in Creatures |->
                      IF c \in Out(left) \/ m[c] \in deleted THEN Null ELSE m[c]]

UnRef(set) == [c \in Creatures |-> IF c \in set THEN refs[c] - 1 ELSE refs[c]]

cleanup ==
  /\ Counts([c \in Creatures |-> refs[c] - pending[c]], master, life)
  /\ pending' = [c \in Creatures |-> 0]
  /\ UNCHANGED <<healthy, held>>

-----------------------------------------------------------------------------
(* Listing creatures for the checks. *)

(* Mutation of addCreatureCheck: it does not ask whether the creature is in a vector. *)
addCreatureCheckAgain(c) ==
  /\ checked' = [checked EXCEPT ![c] = TRUE]
  /\ toAdd' = Append(toAdd, c)
  /\ \E v \in Vectors : vector' = [vector EXCEPT ![c] = v]
  /\ refs' = [refs EXCEPT ![c] = @ + 1]

(* Mutation of Random: random_range includes its upper bound. *)
RandomOfAll == 0 .. EVENT_CREATURECOUNT

Random == 0 .. EVENT_CREATURECOUNT - 1

addCreatureCheck(c) ==
  /\ checked' = [checked EXCEPT ![c] = TRUE]
  /\ IF vector[c] >= 0 THEN UNCHANGED <<toAdd, vector, refs>>
     ELSE /\ toAdd' = Append(toAdd, c)
          /\ \E v \in Random : vector' = [vector EXCEPT ![c] = v]
          /\ refs' = [refs EXCEPT ![c] = @ + 1]

(* Mutation of Unchecked: nothing is done. *)
UncheckedNever(set) == checked

(* removeCreatureCheck of every creature in the set. *)
Unchecked(set) == [c \in Creatures |-> checked[c] /\ (c \in set => vector[c] = -1)]

-----------------------------------------------------------------------------
(* Coming and going. *)

(* A creature for the object c.  If it is a summon of m, m refers to it too (placeSummon;
   Monster::onThinkDefense). *)
placeCreature(c, m) ==
  /\ life[c] = "none"
  /\ m # Null => life[m] = "placed" /\ master[m] = Null /\ m # c
  /\ life' = [life EXCEPT ![c] = "placed"]
  /\ healthy' = [healthy EXCEPT ![c] = TRUE]
  /\ master' = [master EXCEPT ![c] = m]
  /\ checked' = [checked EXCEPT ![c] = TRUE]
  /\ toAdd' = Append(toAdd, c)
  /\ \E v \in Random : vector' = [vector EXCEPT ![c] = v]
  /\ refs' = [refs EXCEPT ![c] = IF m = Null THEN 2 ELSE 3]
  /\ UNCHANGED <<held, pending, vectors, walk>>

(* The creatures in the set leave the game; r counts the references and ms are the masters
   by now.  The reference of autoList goes to releaseThings. *)
Removed(set, r, ms) ==
  /\ Counts(r, ms, [c \in Creatures |-> IF c \in set THEN "removed" ELSE life[c]])
  /\ pending' = [c \in Creatures |-> IF c \in set THEN pending[c] + 1 ELSE pending[c]]
  /\ checked' = Unchecked(set)

(* Its summons go with it, but stay its summons: they leave only a master who is in the
   game (onRemovedCreature). *)
removeCreature(c) ==
  LET m == master[c]
      set == {c} \cup {s \in summons(c) : life[s] = "placed"}
  IN  /\ life[c] = "placed"
      /\ IF m # Null /\ life[m] = "placed"
         THEN Removed(set, UnRef({c}), [master EXCEPT ![c] = Null])
         ELSE Removed(set, refs, master)
      /\ UNCHANGED <<healthy, held, vector, toAdd, vectors, walk>>

(* Damage, or healing before the creature's next check. *)
changeHealth(c) ==
  /\ life[c] = "placed"
  /\ healthy' = [healthy EXCEPT ![c] = ~@]
  /\ UNCHANGED <<life, master, refs, held, pending, checks, walk>>

(* Monster::setIdle *)
setIdle(c, idle) ==
  /\ life[c] = "placed" /\ healthy[c]
  /\ IF idle THEN checked' = Unchecked({c}) /\ UNCHANGED <<toAdd, vector, refs>>
             ELSE addCreatureCheck(c)
  /\ UNCHANGED <<life, healthy, master, held, pending, vectors, walk>>

Freed(set) == [c \in Creatures |-> IF c \in set THEN Null ELSE master[c]]

(* The summons lose their health (changeHealth) and their master; that the damage wakes them
   up first is a setIdle(c, FALSE) of its own. *)
destroySummons(m) ==
  /\ life[m] = "placed" /\ summons(m) # {}
  /\ healthy' = [c \in Creatures |-> healthy[c] /\ c \notin summons(m)]
  /\ Counts(UnRef(summons(m)), Freed(summons(m)), life)
  /\ UNCHANGED <<held, pending, checks, walk>>

(* Monster::convinceCreature: c leaves its master, if that is another monster, loses its
   own summons, and becomes a summon of m. *)
convinceCreature(m, c) ==
  LET own == summons(c)
  IN  /\ life[m] = "placed" /\ life[c] = "placed" /\ m # c
      /\ master[m] = Null /\ master[c] # m
      /\ healthy' = [x \in Creatures |-> healthy[x] /\ x \notin own]
      /\ Counts([UnRef(own) EXCEPT ![c] = IF master[c] = Null THEN @ + 1 ELSE @],
                [Freed(own) EXCEPT ![c] = m], life)
      /\ UNCHANGED <<held, pending, checks, walk>>

(* Target and friend lists of monsters, spawns, clients. *)
Hold(c) ==
  /\ life[c] = "placed" /\ held[c] < MaxHeld
  /\ held' = [held EXCEPT ![c] = @ + 1]
  /\ refs' = [refs EXCEPT ![c] = @ + 1]
  /\ UNCHANGED <<life, healthy, master, pending, checks, walk>>

LetGo(c) ==
  /\ held[c] > 0
  /\ held' = [held EXCEPT ![c] = @ - 1]
  /\ Counts(UnRef({c}), master, life)
  /\ UNCHANGED <<healthy, pending, checks, walk>>

-----------------------------------------------------------------------------
(* checkCreatures: it takes the next vector, ... *)

checkCreatures ==
  /\ at = 0 /\ at' = 1
  /\ index' = (index + 1) % EVENT_CREATURECOUNT
  /\ vectors' = [v \in Vectors |->
                   vectors[v] \o Kept(toAdd, {i \in DOMAIN toAdd : vector[toAdd[i]] = v})]
  /\ toAdd' = <<>>
  /\ UNCHANGED <<objects, checked, vector>>

Current == vectors[index][at]

Walking == at \in 1 .. Len(vectors[index])

(* ... lets those think that are checked; one without health may be spared by a script
   (onDeath returns false) and then thinks too; ... *)
onThink ==
  /\ Walking /\ checked[Current]
  /\ at' = at + 1
  /\ UNCHANGED <<objects, checks, index>>

(* ... or dies: it leaves its master, its summons get no health, and it is removed; ... *)
onDeath ==
  /\ Walking /\ checked[Current] /\ ~healthy[Current]
  /\ at' = at + 1
  /\ LET c == Current
         own == summons(c)
         leaving == own \cup (IF master[c] = Null THEN {} ELSE {c})
     IN  /\ healthy' = [x \in Creatures |-> healthy[x] /\ x \notin own]
         /\ Removed({c}, UnRef(leaving), Freed(leaving))
  /\ UNCHANGED <<held, vector, toAdd, vectors, index>>

(* ... drops the others; ... *)
Unlist ==
  /\ Walking /\ ~checked[Current]
  /\ vector' = [vector EXCEPT ![Current] = -1]
  /\ pending' = [pending EXCEPT ![Current] = @ + 1]
  /\ vectors' = [vectors EXCEPT ![index] = RemoveAt(@, at)]
  /\ UNCHANGED <<life, healthy, master, refs, held, checked, toAdd, walk>>

(* ... and cleans up. *)
CheckDone ==
  /\ at > Len(vectors[index]) /\ at' = 0
  /\ cleanup
  /\ UNCHANGED <<checks, index>>

(* At the end of another task, or in the middle of the walk: onThink may make the first step
   of a walk at once (addEventWalk), which ends with cleanup(). *)
Cleanup == cleanup /\ UNCHANGED <<checks, walk>>

Next ==
  \/ \E c \in Creatures :
       \/ \E m \in Creatures \cup {Null} : placeCreature(c, m)
       \/ removeCreature(c) \/ changeHealth(c)
       \/ \E idle \in BOOLEAN : setIdle(c, idle)
       \/ destroySummons(c) \/ \E m \in Creatures : convinceCreature(m, c)
       \/ Hold(c) \/ LetGo(c)
  \/ checkCreatures \/ onThink \/ onDeath \/ Unlist \/ CheckDone \/ Cleanup

Spec == Init /\ [][Next]_vars

(* The scheduler calls checkCreatures again and again, and the call comes to its end; who
   holds a creature lets it go when it has left the game. *)
Fairness ==
  /\ WF_vars(checkCreatures) /\ WF_vars(onThink \/ Unlist) /\ WF_vars(CheckDone)
  /\ \A c \in Creatures : WF_vars(life[c] = "removed" /\ LetGo(c))

FairSpec == Spec /\ Fairness

-----------------------------------------------------------------------------
(* A creature is listed once if checkVector says so and not at all otherwise, where
   checkVector says; only creatures of the game are checked (onThink and onDeath are called
   for nobody else); and refCount is the number of references, so that nothing is deleted
   that a list still has, whatever the walk of a vector does to the creatures it visits. *)
EntriesCounted ==
  \A c \in Creatures :
    LET In(s) == Cardinality({i \in DOMAIN s : s[i] = c})
        Count(condition) == IF condition THEN 1 ELSE 0
    IN  /\ \A v \in Vectors : In(vectors[v]) <= Count(vector[c] = v)
        /\ In(toAdd) + Quantify(Vectors, LAMBDA v : In(vectors[v]) = 1) = Count(vector[c] # -1)
        /\ checked[c] => life[c] = "placed" /\ vector[c] # -1
        /\ master[c] # Null => life[c] # "none" /\ life[master[c]] # "none"
        /\ refs[c] = Count(life[c] = "placed") + Count(vector[c] # -1) + pending[c]
                     + Count(master[c] # Null) + held[c]
        /\ life[c] = "none" <=> refs[c] = 0

(* A creature that has left the game is deleted in the end: nobody's reference to it is
   forgotten, not its entry's, not its master's and not the one of a walk during which it
   was removed. *)
RemovedIsDeleted == \A c \in Creatures : life[c] = "removed" ~> life[c] = "none"
=============================================================================
