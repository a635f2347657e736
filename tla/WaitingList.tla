---------------------------------- MODULE WaitingList ----------------------------------
(***************************************************************************)
(* The waiting list (waitlist.cpp): who may log in when the game is full,  *)
(* or when others wait already.  A client that has to wait is disconnected *)
(* and told when to come back; its entry is kept until 15 seconds after    *)
(* that.  Here a character always comes from the same address, and an      *)
(* entry is late or not, whatever the numbers of seconds are.              *)
(***************************************************************************)
EXTENDS Naturals, SequencesExt, Subsequences

CONSTANTS Characters,
          Privileged,         \* PlayerFlag_CanAlwaysLogin
          Premium,            \* isPremium()
          MAX_PLAYERS,
          PREMIUM_SKIP_WAIT

ASSUME WaitingListAssumption ==
  /\ Privileged \cup Premium \subseteq Characters
  /\ MAX_PLAYERS \in Nat /\ PREMIUM_SKIP_WAIT \in BOOLEAN

VARIABLE waitList

Entries == [who : Characters, late : BOOLEAN]

WaitingListOK == waitList \in Seq(Entries)

WaitingListInit == waitList = <<>>

cleanup == Kept(waitList, {i \in DOMAIN waitList : ~waitList[i].late})

(* The slots at which c waits: one or none. *)
Slots(list, c) == {i \in DOMAIN list : list[i].who = c}

(* A premium player goes behind the premium players at the front. *)
Behind(list, c) ==
  IF c \notin Premium THEN Len(list) + 1
  ELSE CHOOSE i \in 1 .. Len(list) + 1 :
         /\ i \in DOMAIN list => list[i].who \notin Premium
         /\ \A j \in 1 .. i - 1 : list[j].who \in Premium

(* Mutation of NeedNotWait: newcomers do not look at the list. *)
NeverWaits(c, online) == c \in Privileged \/ online < MAX_PLAYERS

NeedNotWait(c, online) ==
  \/ c \in Privileged
  \/ waitList = <<>> /\ online < MAX_PLAYERS
  \/ PREMIUM_SKIP_WAIT /\ c \in Premium

(* login() of the character c, when there are so many players online: it returns true, ... *)
LetIn(c, online) ==
  IF NeedNotWait(c, online) THEN UNCHANGED waitList
  ELSE \E slot \in Slots(cleanup, c) :
         /\ online + slot <= MAX_PLAYERS
         /\ waitList' = RemoveAt(cleanup, slot)

(* ... or false. *)
Wait(c, online) ==
  /\ ~NeedNotWait(c, online)
  /\ IF Slots(cleanup, c) # {}
     THEN /\ \E slot \in Slots(cleanup, c) : online + slot > MAX_PLAYERS
          /\ waitList' = cleanup
     ELSE waitList' = InsertAt(cleanup, Behind(cleanup, c), [who |-> c, late |-> FALSE])

(* Time passes: an entry is too old. *)
Late(i) ==
  /\ ~waitList[i].late
  /\ waitList' = [waitList EXCEPT ![i].late = TRUE]
=============================================================================
