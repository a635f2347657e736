---------------------------------- MODULE Party ----------------------------------
(***************************************************************************)
(* Parties (party.cpp), the commands that act on them (game.cpp), and the  *)
(* party channel of the chat (chat.cpp).  A party is an object that is     *)
(* allocated for the first invitation and deletes itself when it is empty. *)
(* Players, parties and channels refer to each other by bare pointers;     *)
(* nothing counts them.  Everything runs in the dispatcher thread, one     *)
(* command at a time.                                                      *)
(***************************************************************************)
EXTENDS Naturals, SequencesExt

CONSTANTS Players,      \* Player objects; one that logs out may come back as a new one
          Parties,      \* places in the memory for Party objects, used again and again
          Null,         \* the pointer NULL
          Refused,      \* players in a dungeon: their PARTY_LEAVE scripts may return false
          Killed,       \* those of them who may be killed in there
          SelfInviters, \* players whose client sends their own id as the one to invite
          Talkers       \* players whose client opens the party channel

ASSUME PartyAssumption ==
  Null \notin Players \cup Parties /\ Killed \subseteq Refused
  /\ Refused \cup SelfInviters \cup Talkers \subseteq Players

VARIABLES
  online,   \* the players in the game: not removed
  group,    \* who is in which party, and who is invited
  sharing,  \* shared experience of each party
  channel   \* m_partyChannels: the users of the channel of each party

vars == <<online, group, sharing, channel>>

Groups ==
  [party : [Players -> Parties \cup {Null}],           \* Player::party
   invitations : [Players -> SUBSET Parties],          \* Player::invitePartyList
   leader : [Parties -> Players \cup {Null}],          \* Null: no object here
   members : [Parties -> Seq(Players)],                \* memberList
   invited : [Parties -> SUBSET Players]]              \* inviteList

Sharing == [active : BOOLEAN, enabled : BOOLEAN, points : SUBSET Players]

Unshared == [active |-> FALSE, enabled |-> FALSE, points |-> {}]

TypeOK ==
  /\ online \subseteq Players
  /\ group \in Groups
  /\ sharing \in [Parties -> Sharing]
  /\ channel \in [Parties -> (SUBSET Players) \cup {Null}]

Init ==
  /\ online = {}
  /\ group = [party |-> [p \in Players |-> Null],
              invitations |-> [p \in Players |-> {}],
              leader |-> [q \in Parties |-> Null],
              members |-> [q \in Parties |-> <<>>],
              invited |-> [q \in Parties |-> {}]]
  /\ sharing = [q \in Parties |-> Unshared]
  /\ channel = [q \in Parties |-> Null]

-----------------------------------------------------------------------------
(* Reading a party. *)

Members(g, q) == {g.members[q][i] : i \in DOMAIN g.members[q]}

People(g, q) == {g.leader[q]} \cup Members(g, q)

Exists(g, q) == g.leader[q] # Null

Leads(g, p) == g.party[p] # Null /\ g.leader[g.party[p]] = p

isInviting(g, p, x) == x \in online /\ Leads(g, p) /\ x \in g.invited[g.party[p]]

Without(s, p) ==
  IF \E i \in DOMAIN s : s[i] = p
  THEN RemoveAt(s, CHOOSE i \in DOMAIN s : s[i] = p)
  ELSE s

-----------------------------------------------------------------------------
(* The functions of Party, on the value g of group.  disband() forgets everybody that
   the party's lists name; the object is gone. *)

(* Mutation of Disband: the invited keep their invitations. *)
DisbandMembersOnly(g, q) ==
  [g EXCEPT !.party = [x \in Players |-> IF x \in People(g, q) THEN Null ELSE @[x]],
            !.leader[q] = Null, !.members[q] = <<>>, !.invited[q] = {}]

Disband(g, q) ==
  [party |-> [x \in Players |-> IF x \in People(g, q) THEN Null ELSE g.party[x]],
   invitations |-> [x \in Players |-> IF x \in g.invited[q] THEN g.invitations[x] \ {q}
                                                            ELSE g.invitations[x]],
   leader |-> [g.leader EXCEPT ![q] = Null],
   members |-> [g.members EXCEPT ![q] = <<>>],
   invited |-> [g.invited EXCEPT ![q] = {}]]

CanDisband(g, q) == g.members[q] = <<>> /\ g.invited[q] = {}

DisbandIf(condition, g, q) == IF condition THEN Disband(g, q) ELSE g

PassLeadership(g, q, p) ==
  [g EXCEPT !.leader[q] = p, !.members[q] = <<g.leader[q]>> \o Without(@, p)]

(* leave(): a leader hands over to the member at the front, and only then goes. *)
Missing(g, q, p) ==
  /\ g.leader[q] = p
  /\ \/ g.members[q] = <<>>
     \/ Len(g.members[q]) = 1 /\ g.invited[q] = {}

(* Mutation of HandOver: the leader is reset before he is put into the list. *)
HandOverReset(g, q, p) ==
  IF g.leader[q] = p /\ ~Missing(g, q, p) /\ Head(g.members[q]) \in online
  THEN PassLeadership([g EXCEPT !.leader[q] = Null], q, Head(g.members[q]))
  ELSE g

HandOver(g, q, p) ==
  IF g.leader[q] = p /\ ~Missing(g, q, p) /\ Head(g.members[q]) \in online
  THEN PassLeadership(g, q, Head(g.members[q]))
  ELSE g

Erase(g, q, p) ==
  [g EXCEPT !.members[q] = Without(@, p), !.invited[q] = @ \ {p}, !.party[p] = Null]

(* Mutation of Leave: only a leader's leaving can end the party. *)
LeaveOpen(g, p) ==
  LET q == g.party[p]
      h == Erase(HandOver(g, q, p), q, p)
  IN  DisbandIf(Missing(g, q, p), h, q)

Leave(g, p) ==
  LET q == g.party[p]
      h == Erase(HandOver(g, q, p), q, p)
  IN  DisbandIf(Missing(g, q, p) \/ CanDisband(h, q), h, q)

(* removeInvite() of each of the parties in set: they do not depend on each other, because
   a party that is disbanded here has nobody but its leader left.  A party in set may be
   gone, if p was his own guest there: the code then asks the deleted object whether p is
   invited, and here, as when the memory is as it was left or is another party's now, the
   answer is no. *)
RemoveInvites(g, set, p) ==
  LET from == {q \in set : p \in g.invited[q]}
      gone == {q \in from : g.members[q] = <<>> /\ g.invited[q] = {p}}
  IN  [g EXCEPT !.invitations[p] = @ \ set,
                !.invited = [q \in Parties |-> IF q \in from THEN @[q] \ {p} ELSE @[q]],
                !.party = [x \in Players |-> IF \E q \in gone : g.leader[q] = x
                                             THEN Null ELSE @[x]],
                !.leader = [q \in Parties |-> IF q \in gone THEN Null ELSE @[q]]]

clearPartyInvitations(g, p) == RemoveInvites(g, g.invitations[p], p)

-----------------------------------------------------------------------------
(* Shared experience.  Levels, distances and the time since the last deed are left out:
   what they decide is open, but without members, or with somebody who has no points,
   it cannot be enabled. *)

CanEnable(g, q, points) ==
  IF g.members[q] # <<>> /\ People(g, q) \subseteq points THEN BOOLEAN ELSE {FALSE}

(* Mutation of updateSharedExperience: what is enabled stays enabled. *)
enableSharedExperience(s, g, q) ==
  IF s.active /\ ~s.enabled THEN {[s EXCEPT !.enabled = e] : e \in CanEnable(g, q, s.points)}
                            ELSE {s}

updateSharedExperience(s, g, q) ==
  IF s.active THEN {[s EXCEPT !.enabled = e] : e \in CanEnable(g, q, s.points)} ELSE {s}

(* Everything about the group becomes g, and party q goes on with the record s. *)
Becomes(g, q, s) ==
  /\ group' = g
  /\ \E new \in updateSharedExperience(s, g, q) :
       sharing' = [r \in Parties |-> IF ~Exists(g, r) THEN Unshared
                                     ELSE IF r = q THEN new ELSE sharing[r]]

Same(g) ==
  /\ group' = g
  /\ sharing' = [r \in Parties |-> IF Exists(g, r) THEN sharing[r] ELSE Unshared]

ClearPoints(s, p) == [s EXCEPT !.points = @ \ {p}]

(* p leaves its party, if it has one and the scripts let it. *)
LeaveParty(g, p, refused) ==
  LET q == g.party[p]
  IN  IF q = Null THEN Same(g)
      ELSE \/ Becomes(Leave(g, p), q, ClearPoints(sharing[q], p))
           \/ p \in refused /\ Same(g)

-----------------------------------------------------------------------------
(* The commands. *)

(* A player may invite himself when he has no party: it becomes his, with him as its
   guest. *)
playerInviteToParty(p, x) ==
  /\ {p, x} \subseteq online
  /\ ~isInviting(group, x, p)
  /\ group.party[x] = Null
  /\ x = p => p \in SelfInviters
  /\ \/ /\ group.party[p] = Null
        /\ \E q \in Parties :
             /\ ~Exists(group, q)
             /\ Same([group EXCEPT !.leader[q] = p, !.party[p] = q,
                                   !.invited[q] = {x}, !.invitations[x] = @ \cup {q}])
     \/ /\ Leads(group, p)
        /\ x \notin group.invited[group.party[p]]
        /\ Same([group EXCEPT !.invited[group.party[p]] = @ \cup {x},
                              !.invitations[x] = @ \cup {group.party[p]}])
  /\ UNCHANGED <<online, channel>>

playerJoinParty(p, l) ==
  /\ p \in online /\ l \in online
  /\ isInviting(group, l, p)
  /\ group.party[p] = Null
  /\ LET q == group.party[l]
     IN  Becomes([group EXCEPT !.members[q] = Append(@, p), !.party[p] = q,
                               !.invitations[p] = @ \ {q}, !.invited[q] = @ \ {p}],
                 q, sharing[q])
  /\ UNCHANGED <<online, channel>>

playerRevokePartyInvitation(p, x) ==
  /\ {p, x} \subseteq online
  /\ isInviting(group, p, x)
  /\ Same(RemoveInvites(group, {group.party[p]}, x))
  /\ UNCHANGED <<online, channel>>

playerPassPartyLeadership(p, x) ==
  /\ {p, x} \subseteq online
  /\ Leads(group, p)
  /\ x # p /\ x \in Members(group, group.party[p]) /\ group.party[x] = group.party[p]
  /\ LET q == group.party[p]
     IN  Becomes(PassLeadership(group, q, x), q, sharing[q])
  /\ UNCHANGED <<online, channel>>

playerLeaveParty(p) ==
  /\ p \in online /\ group.party[p] # Null
  /\ LeaveParty(group, p, Refused)
  /\ UNCHANGED <<online, channel>>

(* Ghost mode (talkaction.cpp): out of all parties, but not out of the game. *)
Vanish(p) ==
  /\ p \in online
  /\ LeaveParty(clearPartyInvitations(group, p), p, Refused)
  /\ UNCHANGED <<online, channel>>

(* Mutation of RemoveUserFromAllChannels: only the channel of his party. *)
RemoveUserFromOwnChannel(p) ==
  [q \in Parties |-> IF q = group.party[p] /\ channel[q] # Null THEN channel[q] \ {p}
                                                               ELSE channel[q]]

RemoveUserFromAllChannels(p) ==
  [q \in Parties |-> IF channel[q] = Null THEN Null ELSE channel[q] \ {p}]

(* onCreatureDisappear of the player itself: a logout, a kick or a death. *)
Disappear(p) ==
  /\ p \in online
  /\ LeaveParty(clearPartyInvitations(group, p), p, Killed)
  /\ channel' = RemoveUserFromAllChannels(p)
  /\ online' = online \ {p}

(* A new Player object: it is in no list. *)
Appear(p) ==
  /\ p \notin online
  /\ online' = online \cup {p}
  /\ group' = [group EXCEPT !.party[p] = Null, !.invitations[p] = {}]
  /\ UNCHANGED <<sharing, channel>>

setSharedExperience(p, on) ==
  /\ p \in online /\ Leads(group, p)
  /\ LET q == group.party[p]
     IN  /\ sharing[q].active # on
         /\ Becomes(group, q, [sharing[q] EXCEPT !.active = on])
  /\ UNCHANGED <<online, channel>>

(* A blow at a monster, or a member healed: points; idle again: none. *)
Deserve(p) ==
  /\ p \in online /\ group.party[p] # Null
  /\ LET q == group.party[p]
     IN  Becomes(group, q, [sharing[q] EXCEPT !.points = @ \cup {p}])
  /\ UNCHANGED <<online, channel>>

onIdleStatus(p) ==
  /\ p \in online /\ group.party[p] # Null
  /\ LET q == group.party[p]
     IN  p \in sharing[q].points /\ Becomes(group, q, ClearPoints(sharing[q], p))
  /\ UNCHANGED <<online, channel>>

onCreatureMove(p) ==
  /\ p \in online /\ group.party[p] # Null
  /\ Becomes(group, group.party[p], sharing[group.party[p]])
  /\ UNCHANGED <<online, channel>>

-----------------------------------------------------------------------------
(* The party channel: it is found by the address of the party.  The list of channels
   creates it; leaving the party does not take a user out of it, nor does the end of the
   party delete it. *)

getChannelList(p) ==
  /\ p \in online /\ group.party[p] # Null
  /\ channel[group.party[p]] = Null
  /\ channel' = [channel EXCEPT ![group.party[p]] = {}]
  /\ UNCHANGED <<online, group, sharing>>

playerOpenChannel(p) ==
  /\ p \in Talkers
  /\ p \in online /\ group.party[p] # Null
  /\ LET q == group.party[p]
     IN  /\ channel[q] # Null
         /\ p \notin channel[q]
         /\ channel' = [channel EXCEPT ![q] = @ \cup {p}]
  /\ UNCHANGED <<online, group, sharing>>

playerCloseChannel(p) ==
  /\ p \in online /\ group.party[p] # Null
  /\ LET q == group.party[p]
     IN  /\ channel[q] # Null
         /\ p \in channel[q]
         /\ channel' = [channel EXCEPT ![q] = @ \ {p}]
  /\ UNCHANGED <<online, group, sharing>>

Next ==
  \/ \E p \in Players :
       \/ Appear(p) \/ Disappear(p) \/ Vanish(p) \/ playerLeaveParty(p)
       \/ \E on \in BOOLEAN : setSharedExperience(p, on)
       \/ Deserve(p) \/ onIdleStatus(p) \/ onCreatureMove(p)
       \/ getChannelList(p) \/ playerOpenChannel(p) \/ playerCloseChannel(p)
  \/ \E p, x \in Players :
       \/ playerInviteToParty(p, x) \/ playerJoinParty(p, x)
       \/ playerRevokePartyInvitation(p, x) \/ playerPassPartyLeadership(p, x)

Spec == Init /\ [][Next]_vars

-----------------------------------------------------------------------------
(* The bare pointers agree, in both directions: a player's party is the one that lists
   the player, once, as its leader or as a member (setParty in the constructor, join,
   leave and disband); whoever a party invites knows it, and a party that somebody
   believes to be invited to exists and says the same; nobody is invited to the party he
   is in; and no party holds a player that has left the game, whose object is deleted
   (Player::onCreatureDisappear).  Players who have invited themselves are excepted in
   two places, where the code does not hold it: they are guests of their own party, and
   when they leave it their invitation outlives its half in inviteList (party.cpp:111),
   so their invitePartyList may name a party that is deleted. *)
PartiesAgree ==
  \A q \in Parties :
    /\ \A p \in Players : group.party[p] = q <=> Exists(group, q) /\ p \in People(group, q)
    /\ group.leader[q] \notin Members(group, q)
    /\ \A i, j \in DOMAIN group.members[q] : group.members[q][i] = group.members[q][j] => i = j
    /\ \A p \in Players : p \in group.invited[q] => q \in group.invitations[p]
    /\ \A p \in Players \ SelfInviters : q \in group.invitations[p] => p \in group.invited[q]
    /\ group.invited[q] \cap People(group, q) \subseteq SelfInviters
    /\ group.invited[q] \subseteq online /\ Members(group, q) \subseteq online
    /\ Exists(group, q) => group.leader[q] \in online
    /\ ~Exists(group, q) => group.members[q] = <<>> /\ group.invited[q] = {}

(* Between two commands no party is left with its leader alone and nobody invited: such an
   object would never be deleted, and its leader could not be invited elsewhere. *)
NoneAlone == \A q \in Parties : Exists(group, q) => ~CanDisband(group, q)

(* While experience is shared (isSharedExperienceActive and isSharedExperienceEnabled),
   everybody who gets a share has points, whoever joined, left or took over the lead since
   it was switched on; and pointMap keeps nobody who is not of the party. *)
SharersEarned ==
  \A q \in Parties : Exists(group, q) =>
    /\ sharing[q].points \subseteq People(group, q)
    /\ sharing[q].active /\ sharing[q].enabled =>
         group.members[q] # <<>> /\ People(group, q) \subseteq sharing[q].points

(* talk() sends to every user of a channel by a bare pointer: none of them has left the
   game, although players may leave the party of the channel, and the party may be gone. *)
ChannelUsersLive ==
  \A q \in Parties : channel[q] # Null => channel[q] \subseteq online

(* "You must leave from the Dungeon to log out": the scripts that refuse to let a player
   leave the party count on the player's staying in the game.  So everybody whom a party
   lists should be in the game. *)
NoneLeftBehind ==
  \A q \in Parties : Exists(group, q) => People(group, q) \subseteq online
=============================================================================
