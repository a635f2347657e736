------------------------------- MODULE PartyProofs -------------------------------
(***************************************************************************)
(* What Party guarantees for any players and any number of parties, when   *)
(* nobody is killed in a dungeon whose scripts keep him in the party.  The *)
(* functions of Party work on the value of group; for each of them a lemma *)
(* says that its result agrees again.                                      *)
(***************************************************************************)
EXTENDS Party, SequenceTheorems, TLAPS

-----------------------------------------------------------------------------
(* Lists without repetitions, and how they lose an element. *)

Listed(s) == {s[i] : i \in DOMAIN s}

Once(s) == \A i, j \in DOMAIN s : s[i] = s[j] => i = j

LEMMA RemoveAtElements ==
  ASSUME NEW S, NEW s \in Seq(S), NEW k \in 1..Len(s)
  PROVE  /\ RemoveAt(s, k) \in Seq(S)
         /\ Len(RemoveAt(s, k)) = Len(s) - 1
         /\ \A i \in 1..Len(s) - 1 : RemoveAt(s, k)[i] = IF i < k THEN s[i] ELSE s[i + 1]
<1>. DEFINE a == SubSeq(s, 1, k - 1)
            b == SubSeq(s, k + 1, Len(s))
<1>1. /\ a \in Seq(S) /\ Len(a) = k - 1
      /\ \A i \in 1..k - 1 : a[i] = s[i]
  BY LenProperties, SubSeqProperties
<1>2. /\ b \in Seq(S) /\ Len(b) = Len(s) - k
      /\ \A i \in 1..Len(s) - k : b[i] = s[k + i]
  BY LenProperties, SubSeqProperties
<1>3. RemoveAt(s, k) = a \o b
  BY DEF RemoveAt
<1>. HIDE DEF a, b
<1>4. Len(a \o b) = Len(s) - 1 /\ a \o b \in Seq(S)
  <2>1. a \o b \in Seq(S) /\ Len(a \o b) = Len(a) + Len(b)
    BY <1>1, <1>2, ConcatProperties
  <2>2. Len(s) \in Nat
    BY LenProperties
  <2>3. (k - 1) + (Len(s) - k) = Len(s) - 1
    BY <2>2
  <2>. QED BY <2>1, <2>3, <1>1, <1>2
<1>5. ASSUME NEW i \in 1..Len(s) - 1
      PROVE  (a \o b)[i] = IF i < k THEN s[i] ELSE s[i + 1]
  <2>1. CASE i < k
    BY <2>1, <1>1, <1>2, ConcatProperties, LenProperties
  <2>2. CASE ~(i < k)
    <3>1. (a \o b)[i] = b[i - (k - 1)]
      BY <2>2, <1>1, <1>2, ConcatProperties, LenProperties
    <3>2. i - (k - 1) \in 1..Len(s) - k /\ k + (i - (k - 1)) = i + 1
      BY <2>2, LenProperties
    <3>. QED BY <3>1, <3>2, <2>2, <1>2
  <2>. QED BY <2>1, <2>2
<1>6. \A i \in 1..Len(s) - 1 : (a \o b)[i] = IF i < k THEN s[i] ELSE s[i + 1]
  BY <1>5
<1>. QED BY <1>3, <1>4, <1>6, Zenon

LEMMA WithoutElements ==
  ASSUME NEW S, NEW s \in Seq(S), NEW p
  PROVE  /\ Without(s, p) \in Seq(S)
         /\ Once(s) => Once(Without(s, p)) /\ Listed(Without(s, p)) = Listed(s) \ {p}
<1>1. CASE \A i \in DOMAIN s : s[i] # p
  BY <1>1 DEF Without, Listed
<1>2. CASE \E i \in DOMAIN s : s[i] = p
  <2>1. PICK k \in DOMAIN s : s[k] = p /\ Without(s, p) = RemoveAt(s, k)
    BY <1>2 DEF Without
  <2>. DEFINE r == RemoveAt(s, k)
              n == Len(s)
  <2>2. DOMAIN s = 1..n /\ n \in Nat /\ k \in 1..n
    BY LenProperties
  <2>3. /\ r \in Seq(S) /\ DOMAIN r = 1..n - 1
        /\ \A i \in 1..n - 1 : r[i] = IF i < k THEN s[i] ELSE s[i + 1]
    <3>1. k \in 1..Len(s)
      BY <2>2
    <3>2. /\ RemoveAt(s, k) \in Seq(S) /\ Len(RemoveAt(s, k)) = Len(s) - 1
          /\ \A i \in 1..Len(s) - 1 : RemoveAt(s, k)[i] = IF i < k THEN s[i] ELSE s[i + 1]
      BY <3>1, RemoveAtElements, Zenon
    <3>. QED BY <3>2, LenProperties
  <2>. HIDE DEF r, n
  <2>4. ASSUME Once(s) PROVE Once(r)
    <3>1. SUFFICES ASSUME NEW i \in 1..n - 1, NEW j \in 1..n - 1, r[i] = r[j] PROVE i = j
      BY <2>3 DEF Once
    <3>2. \A x, y \in 1..n : s[x] = s[y] => x = y
      BY <2>4, <2>2 DEF Once
    <3>3. i \in 1..n /\ i + 1 \in 1..n /\ j \in 1..n /\ j + 1 \in 1..n
      BY <2>2
    <3>4. /\ r[i] = IF i < k THEN s[i] ELSE s[i + 1]
          /\ r[j] = IF j < k THEN s[j] ELSE s[j + 1]
      BY <2>3
    <3>5. CASE i < k /\ j < k
      BY <3>1, <3>2, <3>3, <3>4, <3>5
    <3>6. CASE i < k /\ ~(j < k)
      <4>1. i = j + 1
        BY <3>1, <3>2, <3>3, <3>4, <3>6
      <4>. QED BY <4>1, <3>6, <2>2
    <3>7. CASE ~(i < k) /\ j < k
      <4>1. i + 1 = j
        BY <3>1, <3>2, <3>3, <3>4, <3>7
      <4>. QED BY <4>1, <3>7, <2>2
    <3>8. CASE ~(i < k) /\ ~(j < k)
      <4>1. i + 1 = j + 1
        BY <3>1, <3>2, <3>3, <3>4, <3>8
      <4>. QED BY <4>1
    <3>. QED BY <3>5, <3>6, <3>7, <3>8
  <2>5. ASSUME Once(s) PROVE Listed(r) = Listed(s) \ {p}
    <3>1. ASSUME NEW i \in 1..n - 1 PROVE r[i] \in Listed(s) \ {p}
      <4>1. i \in 1..n /\ i + 1 \in 1..n
        BY <2>2
      <4>2. i < k => i # k
        BY <2>2
      <4>3. ~(i < k) => i + 1 # k
        BY <2>2
      <4>. QED BY <4>1, <4>2, <4>3, <2>1, <2>2, <2>3, <2>5 DEF Once, Listed
    <3>2. ASSUME NEW i \in 1..n, s[i] # p PROVE \E j \in 1..n - 1 : r[j] = s[i]
      <4>1. CASE i < k
        <5>1. i \in 1..n - 1
          BY <4>1, <2>2
        <5>. QED BY <5>1, <4>1, <2>3
      <4>2. CASE ~(i < k)
        <5>1. i # k
          BY <3>2, <2>1
        <5>2. i - 1 \in 1..n - 1 /\ ~(i - 1 < k) /\ (i - 1) + 1 = i
          BY <5>1, <4>2, <2>2
        <5>. QED BY <5>2, <2>3
      <4>. QED BY <4>1, <4>2
    <3>3. Listed(r) \subseteq Listed(s) \ {p}
      BY <3>1, <2>3 DEF Listed
    <3>4. Listed(s) \ {p} \subseteq Listed(r)
      BY <3>2, <2>2, <2>3 DEF Listed
    <3>. QED BY <3>3, <3>4
  <2>. QED BY <2>1, <2>3, <2>4, <2>5 DEF r
<1>. QED BY <1>1, <1>2
LEMMA PrependElements ==
  ASSUME NEW S, NEW s \in Seq(S), NEW e \in S, e \notin Listed(s), Once(s)
  PROVE  LET r == <<e>> \o s
         IN  r \in Seq(S) /\ r # <<>> /\ Once(r) /\ Listed(r) = {e} \cup Listed(s)
<1>. DEFINE r == <<e>> \o s
            n == Len(s)
<1>1. DOMAIN s = 1..n /\ n \in Nat
  BY LenProperties
<1>2. <<e>> \in Seq(S) /\ Len(<<e>>) = 1 /\ <<e>>[1] = e
  OBVIOUS
<1>3. r \in Seq(S) /\ Len(r) = n + 1 /\ r[1] = e
  BY <1>2, <1>1, ConcatProperties
<1>4. DOMAIN r = 1..n + 1
  BY <1>3, LenProperties
<1>5. ASSUME NEW i \in 1..n + 1, i # 1 PROVE i - 1 \in 1..n /\ r[i] = s[i - 1]
  BY <1>1, <1>2, <1>5, ConcatProperties
<1>. HIDE DEF r, n
<1>6. Once(r)
  <2>1. SUFFICES ASSUME NEW i \in 1..n + 1, NEW j \in 1..n + 1, r[i] = r[j] PROVE i = j
    BY <1>4 DEF Once
  <2>2. \A x, y \in 1..n : s[x] = s[y] => x = y
    BY <1>1 DEF Once
  <2>3. \A x \in 1..n : s[x] # e
    BY <1>1 DEF Listed
  <2>4. CASE i = 1 /\ j # 1
    BY <2>1, <2>3, <2>4, <1>3, <1>5
  <2>5. CASE i # 1 /\ j = 1
    BY <2>1, <2>3, <2>5, <1>3, <1>5
  <2>6. CASE i # 1 /\ j # 1
    <3>1. i - 1 = j - 1
      BY <2>1, <2>2, <2>6, <1>5
    <3>. QED BY <3>1
  <2>. QED BY <2>4, <2>5, <2>6
<1>7. Listed(r) \subseteq {e} \cup Listed(s)
  <2>1. ASSUME NEW i \in 1..n + 1 PROVE r[i] \in {e} \cup Listed(s)
    BY <1>1, <1>3, <1>5 DEF Listed
  <2>. QED BY <2>1, <1>4 DEF Listed
<1>8. {e} \cup Listed(s) \subseteq Listed(r)
  <2>1. e \in Listed(r)
    BY <1>1, <1>3, <1>4 DEF Listed
  <2>2. ASSUME NEW i \in 1..n PROVE s[i] \in Listed(r)
    <3>1. i + 1 \in 1..n + 1 /\ i + 1 # 1 /\ (i + 1) - 1 = i
      BY <1>1
    <3>. QED BY <3>1, <1>4, <1>5 DEF Listed
  <2>. QED BY <2>1, <2>2, <1>1 DEF Listed
<1>9. r # <<>>
  BY <1>3, <1>1, EmptySeq
<1>. QED BY <1>3, <1>6, <1>7, <1>8, <1>9 DEF r

LEMMA AppendElements ==
  ASSUME NEW S, NEW s \in Seq(S), NEW e \in S, e \notin Listed(s), Once(s)
  PROVE  LET r == Append(s, e)
         IN  r \in Seq(S) /\ r # <<>> /\ Once(r) /\ Listed(r) = Listed(s) \cup {e}
<1>. DEFINE r == Append(s, e)
            n == Len(s)
<1>1. DOMAIN s = 1..n /\ n \in Nat
  BY LenProperties
<1>2. /\ r \in Seq(S) /\ r # <<>> /\ Len(r) = n + 1 /\ r[n + 1] = e
      /\ \A i \in 1..n : r[i] = s[i]
  BY <1>1, AppendProperties
<1>3. DOMAIN r = 1..n + 1
  BY <1>2, LenProperties
<1>. HIDE DEF r, n
<1>4. \A i \in 1..n + 1 : i = n + 1 \/ i \in 1..n
  BY <1>1
<1>5. Once(r)
  <2>1. SUFFICES ASSUME NEW i \in 1..n + 1, NEW j \in 1..n + 1, r[i] = r[j] PROVE i = j
    BY <1>3 DEF Once
  <2>2. \A x, y \in 1..n : s[x] = s[y] => x = y
    BY <1>1 DEF Once
  <2>3. \A x \in 1..n : s[x] # e
    BY <1>1 DEF Listed
  <2>. QED BY <2>1, <2>2, <2>3, <1>2, <1>4
<1>6. Listed(r) \subseteq Listed(s) \cup {e}
  BY <1>1, <1>2, <1>3, <1>4 DEF Listed
<1>7. Listed(s) \cup {e} \subseteq Listed(r)
  <2>1. n + 1 \in 1..n + 1 /\ \A i \in 1..n : i \in 1..n + 1
    BY <1>1
  <2>. QED BY <2>1, <1>1, <1>2, <1>3 DEF Listed
<1>. QED BY <1>2, <1>5, <1>6, <1>7 DEF r

LEMMA EmptyList ==
  ASSUME NEW S, NEW s \in Seq(S)
  PROVE  (Listed(s) = {} <=> s = <<>>) /\ (s # <<>> => Head(s) \in Listed(s))
<1>1. s = <<>> => Listed(s) = {}
  BY DEF Listed
<1>2. s # <<>> => Len(s) \in Nat /\ Len(s) > 0 /\ DOMAIN s = 1..Len(s)
  BY EmptySeq, LenProperties
<1>3. s # <<>> => s[1] \in Listed(s) /\ Head(s) \in Listed(s)
  BY <1>2 DEF Listed
<1>. QED BY <1>1, <1>3

-----------------------------------------------------------------------------
(* The pointers of one party, and of all of them, in the value g of group while the players
   in on are in the game. *)

PartyAgrees(g, on, q) ==
  /\ \A p \in Players : g.party[p] = q <=> Exists(g, q) /\ p \in People(g, q)
  /\ g.leader[q] \notin Members(g, q)
  /\ Once(g.members[q])
  /\ \A p \in Players : p \in g.invited[q] => q \in g.invitations[p]
  /\ \A p \in Players \ SelfInviters : q \in g.invitations[p] => p \in g.invited[q]
  /\ g.invited[q] \cap People(g, q) \subseteq SelfInviters
  /\ g.invited[q] \subseteq on /\ Members(g, q) \subseteq on
  /\ Exists(g, q) => g.leader[q] \in on
  /\ ~Exists(g, q) => g.members[q] = <<>> /\ g.invited[q] = {}

Agree(g, on) ==
  /\ g \in Groups /\ on \subseteq Players
  /\ \A q \in Parties : PartyAgrees(g, on, q)

LEMMA AgreeIsPartiesAgree ==
  ASSUME TypeOK
  PROVE  Agree(group, online) <=> PartiesAgree
BY DEF Agree, PartyAgrees, PartiesAgree, TypeOK, Once

LEMMA GroupTypes ==
  ASSUME NEW g \in Groups, NEW q \in Parties
  PROVE  /\ g.leader[q] \in Players \cup {Null} /\ g.members[q] \in Seq(Players)
         /\ g.invited[q] \subseteq Players
         /\ Members(g, q) \subseteq Players /\ Members(g, q) = Listed(g.members[q])
         /\ Null \notin Players /\ Null \notin Parties
         /\ g.party \in [Players -> Parties \cup {Null}]
         /\ g.invitations \in [Players -> SUBSET Parties]
         /\ g.leader \in [Parties -> Players \cup {Null}]
         /\ g.members \in [Parties -> Seq(Players)]
         /\ g.invited \in [Parties -> SUBSET Players]
<1>1. /\ g.leader[q] \in Players \cup {Null} /\ g.members[q] \in Seq(Players)
      /\ g.invited[q] \subseteq Players
      /\ g.party \in [Players -> Parties \cup {Null}]
      /\ g.invitations \in [Players -> SUBSET Parties]
      /\ g.leader \in [Parties -> Players \cup {Null}]
      /\ g.members \in [Parties -> Seq(Players)]
      /\ g.invited \in [Parties -> SUBSET Players]
  BY DEF Groups
<1>2. \A i \in DOMAIN g.members[q] : g.members[q][i] \in Players
  BY <1>1, ElementOfSeq, LenProperties
<1>. QED BY <1>1, <1>2, PartyAssumption DEF Members, Listed

-----------------------------------------------------------------------------
(* Types. *)

LEMMA DisbandType ==
  ASSUME NEW g \in Groups, NEW q \in Parties
  PROVE  Disband(g, q) \in Groups
<1>1. <<>> \in Seq(Players)
  OBVIOUS
<1>. QED BY <1>1, GroupTypes DEF Disband, Groups

LEMMA PassLeadershipType ==
  ASSUME NEW g \in Groups, NEW q \in Parties, g.leader[q] \in Players, NEW x \in Players
  PROVE  PassLeadership(g, q, x) \in Groups
<1>. DEFINE m == <<g.leader[q]>> \o Without(g.members[q], x)
<1>1. m \in Seq(Players)
  <2>1. Without(g.members[q], x) \in Seq(Players) /\ <<g.leader[q]>> \in Seq(Players)
    BY GroupTypes, WithoutElements
  <2>. QED BY <2>1, ConcatProperties
<1>. QED BY <1>1, GroupTypes DEF PassLeadership, Groups

LEMMA EraseType ==
  ASSUME NEW g \in Groups, NEW q \in Parties, NEW p \in Players
  PROVE  Erase(g, q, p) \in Groups
<1>1. Without(g.members[q], p) \in Seq(Players)
  BY GroupTypes, WithoutElements
<1>. QED BY <1>1, GroupTypes DEF Erase, Groups

LEMMA HandOverType ==
  ASSUME TypeOK, NEW g \in Groups, NEW q \in Parties, NEW p \in Players
  PROVE  HandOver(g, q, p) \in Groups
BY PassLeadershipType DEF HandOver, TypeOK

LEMMA LeaveType ==
  ASSUME TypeOK, NEW g \in Groups, NEW p \in Players, g.party[p] \in Parties
  PROVE  Leave(g, p) \in Groups
<1>. DEFINE q == g.party[p]
            e == Erase(HandOver(g, q, p), q, p)
<1>1. e \in Groups /\ Disband(e, q) \in Groups
  BY HandOverType, EraseType, DisbandType
<1>2. Leave(g, p) \in {e, Disband(e, q)}
  BY DEF Leave, DisbandIf
<1>. QED BY <1>1, <1>2

LEMMA RemoveInvitesType ==
  ASSUME NEW g \in Groups, NEW p \in Players, NEW set \in SUBSET Parties
  PROVE  RemoveInvites(g, set, p) \in Groups
<1>. DEFINE h == RemoveInvites(g, set, p)
            from == {q \in set : p \in g.invited[q]}
            gone == {q \in from : g.members[q] = <<>> /\ g.invited[q] = {p}}
<1>1. /\ g.party \in [Players -> Parties \cup {Null}]
      /\ g.invitations \in [Players -> SUBSET Parties]
      /\ g.leader \in [Parties -> Players \cup {Null}]
      /\ g.members \in [Parties -> Seq(Players)]
      /\ g.invited \in [Parties -> SUBSET Players]
  BY DEF Groups
<1>2. /\ [g.invitations EXCEPT ![p] = @ \ set] \in [Players -> SUBSET Parties]
      /\ [q \in Parties |-> IF q \in from THEN g.invited[q] \ {p} ELSE g.invited[q]]
           \in [Parties -> SUBSET Players]
      /\ [x \in Players |-> IF \E q \in gone : g.leader[q] = x THEN Null ELSE g.party[x]]
           \in [Players -> Parties \cup {Null}]
      /\ [q \in Parties |-> IF q \in gone THEN Null ELSE g.leader[q]]
           \in [Parties -> Players \cup {Null}]
  <2>. HIDE DEF from, gone
  <2>. QED BY <1>1
<1>3. h = [g EXCEPT
             !.invitations = [g.invitations EXCEPT ![p] = @ \ set],
             !.invited = [q \in Parties |-> IF q \in from THEN g.invited[q] \ {p} ELSE g.invited[q]],
             !.party = [x \in Players |-> IF \E q \in gone : g.leader[q] = x
                                          THEN Null ELSE g.party[x]],
             !.leader = [q \in Parties |-> IF q \in gone THEN Null ELSE g.leader[q]]]
  BY DEF RemoveInvites, Groups
<1>. HIDE DEF h, from, gone
<1>4. h \in Groups
  BY <1>1, <1>2, <1>3 DEF Groups
<1>. QED BY <1>4 DEF h

LEMMA BecomesTypes ==
  ASSUME TypeOK, NEW g \in Groups, NEW q \in Parties, NEW s \in Sharing, Becomes(g, q, s)
  PROVE  group' \in Groups /\ sharing' \in [Parties -> Sharing]
<1>1. PICK new \in updateSharedExperience(s, g, q) :
        sharing' = [r \in Parties |-> IF ~Exists(g, r) THEN Unshared
                                      ELSE IF r = q THEN new ELSE sharing[r]]
  BY DEF Becomes
<1>2. new \in Sharing
  <2>1. CanEnable(g, q, s.points) \subseteq BOOLEAN
    BY DEF CanEnable
  <2>. QED BY <2>1 DEF updateSharedExperience, Sharing
<1>3. Unshared \in Sharing
  BY DEF Unshared, Sharing
<1>. QED BY <1>1, <1>2, <1>3 DEF Becomes, TypeOK

LEMMA SameTypes ==
  ASSUME TypeOK, NEW g \in Groups, Same(g)
  PROVE  group' \in Groups /\ sharing' \in [Parties -> Sharing]
BY DEF Same, TypeOK, Unshared, Sharing

LEMMA LeavePartyTypes ==
  ASSUME TypeOK, NEW g \in Groups, NEW p \in Players, NEW refused, LeaveParty(g, p, refused)
  PROVE  group' \in Groups /\ sharing' \in [Parties -> Sharing]
<1>1. CASE g.party[p] = Null
  BY <1>1, SameTypes DEF LeaveParty
<1>2. CASE g.party[p] # Null
  <2>1. g.party[p] \in Parties
    BY <1>2 DEF Groups
  <2>2. Leave(g, p) \in Groups /\ ClearPoints(sharing[g.party[p]], p) \in Sharing
    BY <2>1, LeaveType DEF TypeOK, Sharing, ClearPoints
  <2>3. \/ Becomes(Leave(g, p), g.party[p], ClearPoints(sharing[g.party[p]], p))
        \/ Same(g)
    BY <1>2 DEF LeaveParty
  <2>. QED BY <2>1, <2>2, <2>3, SameTypes, BecomesTypes
<1>. QED BY <1>1, <1>2

LEMMA InvitationsTypes ==
  ASSUME TypeOK, NEW p \in Players
  PROVE  clearPartyInvitations(group, p) \in Groups
<1>1. group.invitations[p] \in SUBSET Parties
  BY DEF TypeOK, Groups
<1>. QED BY <1>1, RemoveInvitesType DEF clearPartyInvitations, TypeOK

LEMMA StepTypes ==
  ASSUME TypeOK, [Next]_vars
  PROVE  TypeOK'
<1>. USE DEF TypeOK
<1>0. /\ group.party \in [Players -> Parties \cup {Null}]
      /\ group.invitations \in [Players -> SUBSET Parties]
      /\ group.leader \in [Parties -> Players \cup {Null}]
      /\ group.members \in [Parties -> Seq(Players)]
      /\ group.invited \in [Parties -> SUBSET Players]
  BY DEF Groups
<1>1. ASSUME NEW p \in Players, NEW x \in Players, playerInviteToParty(p, x)
      PROVE  TypeOK'
  <2>1. ASSUME NEW q \in Parties
        PROVE  [group EXCEPT !.leader[q] = p, !.party[p] = q, !.invited[q] = {x},
                             !.invitations[x] = @ \cup {q}] \in Groups
    BY <1>0 DEF Groups
  <2>2. ASSUME group.party[p] # Null
        PROVE  [group EXCEPT !.invited[group.party[p]] = @ \cup {x},
                             !.invitations[x] = @ \cup {group.party[p]}] \in Groups
    <3>1. PICK q \in Parties : group.party[p] = q
      BY <2>2, <1>0
    <3>. QED BY <3>1, <1>0 DEF Groups
  <2>. QED BY <1>1, <2>1, <2>2, SameTypes DEF playerInviteToParty, Leads
<1>2. ASSUME NEW p \in Players, NEW l \in Players, playerJoinParty(p, l)
      PROVE  TypeOK'
  <2>1. group.party[l] # Null
    BY <1>2 DEF playerJoinParty, isInviting, Leads
  <2>2. PICK q \in Parties : group.party[l] = q
    BY <2>1, <1>0
  <2>3. Append(group.members[q], p) \in Seq(Players)
    BY <1>0, AppendProperties
  <2>4. [group EXCEPT !.members[q] = Append(@, p), !.party[p] = q,
                      !.invitations[p] = @ \ {q}, !.invited[q] = @ \ {p}] \in Groups
    BY <2>3, <1>0 DEF Groups
  <2>. QED BY <1>2, <2>2, <2>4, BecomesTypes DEF playerJoinParty
<1>3. ASSUME NEW p \in Players, NEW x \in Players, playerRevokePartyInvitation(p, x)
      PROVE  TypeOK'
  <2>1. {group.party[p]} \in SUBSET Parties
    BY <1>0, <1>3 DEF playerRevokePartyInvitation, isInviting, Leads
  <2>. QED BY <1>3, <2>1, RemoveInvitesType, SameTypes DEF playerRevokePartyInvitation
<1>4. ASSUME NEW p \in Players, NEW x \in Players, playerPassPartyLeadership(p, x)
      PROVE  TypeOK'
  <2>1. group.party[p] \in Parties /\ group.leader[group.party[p]] = p
    BY <1>0, <1>4 DEF playerPassPartyLeadership, Leads
  <2>2. PassLeadership(group, group.party[p], x) \in Groups
    BY <2>1, PassLeadershipType
  <2>. QED BY <1>4, <2>1, <2>2, BecomesTypes DEF playerPassPartyLeadership
<1>5. ASSUME NEW p \in Players, playerLeaveParty(p) PROVE TypeOK'
  BY <1>5, LeavePartyTypes DEF playerLeaveParty
<1>6. ASSUME NEW p \in Players, Vanish(p) PROVE TypeOK'
  BY <1>6, LeavePartyTypes, InvitationsTypes DEF Vanish
<1>7. ASSUME NEW p \in Players, Disappear(p) PROVE TypeOK'
  BY <1>7, LeavePartyTypes, InvitationsTypes DEF Disappear, RemoveUserFromAllChannels
<1>8. ASSUME NEW p \in Players, Appear(p) PROVE TypeOK'
  BY <1>8, <1>0 DEF Appear, Groups
<1>9. ASSUME NEW p \in Players, \/ \E on \in BOOLEAN : setSharedExperience(p, on)
                                \/ Deserve(p) \/ onIdleStatus(p) \/ onCreatureMove(p)
      PROVE  TypeOK'
  <2>1. PICK q \in Parties : group.party[p] = q
    BY <1>0, <1>9 DEF setSharedExperience, Leads, Deserve, onIdleStatus, onCreatureMove
  <2>2. /\ sharing[q] \in Sharing /\ ClearPoints(sharing[q], p) \in Sharing
        /\ [sharing[q] EXCEPT !.points = @ \cup {p}] \in Sharing
        /\ \A on \in BOOLEAN : [sharing[q] EXCEPT !.active = on] \in Sharing
    BY DEF Sharing, ClearPoints
  <2>3. \E s \in Sharing : Becomes(group, q, s)
    BY <1>9, <2>1, <2>2 DEF setSharedExperience, Deserve, onIdleStatus, onCreatureMove
  <2>4. online' = online /\ channel' = channel
    BY <1>9 DEF setSharedExperience, Deserve, onIdleStatus, onCreatureMove
  <2>. QED BY <2>3, <2>4, BecomesTypes
<1>10. ASSUME NEW p \in Players,
              getChannelList(p) \/ playerOpenChannel(p) \/ playerCloseChannel(p)
       PROVE  TypeOK'
  BY <1>10 DEF getChannelList, playerOpenChannel, playerCloseChannel
<1>11. CASE UNCHANGED vars
  BY <1>11 DEF vars
<1>. QED
  BY <1>1, <1>2, <1>3, <1>4, <1>5, <1>6, <1>7, <1>8, <1>9, <1>10, <1>11, Zenon DEF Next

LEMMA TypesInit ==
  ASSUME Init
  PROVE  TypeOK
<1>1. <<>> \in Seq(Players)
  OBVIOUS
<1>2. Unshared \in Sharing
  BY DEF Sharing, Unshared
<1>3. group \in Groups
  BY <1>1 DEF Init, Groups
<1>4. sharing \in [Parties -> Sharing]
  BY <1>2 DEF Init
<1>5. channel \in [Parties -> (SUBSET Players) \cup {Null}]
  BY DEF Init
<1>6. online \subseteq Players
  BY DEF Init
<1>. QED BY <1>3, <1>4, <1>5, <1>6 DEF TypeOK

(* Type correctness, for any players and parties, whoever may be killed where. *)
THEOREM TypeCorrect == Spec => []TypeOK
<1>1. Init => TypeOK
  BY TypesInit
<1>2. TypeOK /\ [Next]_vars => TypeOK'
  BY StepTypes
<1>. QED BY <1>1, <1>2, PTL DEF Spec

-----------------------------------------------------------------------------
(* The functions of Party keep the pointers in agreement. *)

(* A party that a change leaves alone. *)
LEMMA OthersAgree ==
  ASSUME NEW g, NEW h, NEW on, NEW r \in Parties, PartyAgrees(g, on, r),
         h.leader[r] = g.leader[r], h.members[r] = g.members[r], h.invited[r] = g.invited[r],
         \A p \in Players : /\ h.party[p] = r <=> g.party[p] = r
                            /\ r \in h.invitations[p] <=> r \in g.invitations[p]
  PROVE  /\ PartyAgrees(h, on, r)
         /\ People(h, r) = People(g, r) /\ CanDisband(h, r) <=> CanDisband(g, r)
<1>1. /\ Members(h, r) = Members(g, r) /\ People(h, r) = People(g, r)
      /\ Exists(h, r) <=> Exists(g, r)
      /\ CanDisband(h, r) <=> CanDisband(g, r)
  BY DEF Members, People, Exists, CanDisband
<1>2. \A p \in Players : h.party[p] = r <=> Exists(h, r) /\ p \in People(h, r)
  BY <1>1 DEF PartyAgrees
<1>3. /\ \A p \in Players : p \in h.invited[r] => r \in h.invitations[p]
      /\ \A p \in Players \ SelfInviters : r \in h.invitations[p] => p \in h.invited[r]
  BY DEF PartyAgrees
<1>. QED BY <1>1, <1>2, <1>3 DEF PartyAgrees

LEMMA DisbandAgrees ==
  ASSUME NEW g, NEW on, Agree(g, on), NEW q \in Parties, Exists(g, q)
  PROVE  LET h == Disband(g, q)
         IN  /\ Agree(h, on) /\ ~Exists(h, q)
             /\ \A x \in Players : /\ g.party[x] \in {q, Null} => h.party[x] = Null
                                  /\ h.invitations[x] \subseteq g.invitations[x]
             /\ \A r \in Parties \ {q} : /\ h.leader[r] = g.leader[r]
                                         /\ h.members[r] = g.members[r]
                                         /\ h.invited[r] = g.invited[r]
<1>. DEFINE h == Disband(g, q)
<1>0. g \in Groups /\ on \subseteq Players /\ \A r \in Parties : PartyAgrees(g, on, r)
  BY DEF Agree
<1>1. h \in Groups
  BY <1>0, DisbandType
<1>2. /\ h.leader[q] = Null /\ h.members[q] = <<>> /\ h.invited[q] = {}
      /\ \A r \in Parties \ {q} : /\ h.leader[r] = g.leader[r]
                                  /\ h.members[r] = g.members[r]
                                  /\ h.invited[r] = g.invited[r]
      /\ \A x \in Players : h.party[x] = IF x \in People(g, q) THEN Null ELSE g.party[x]
      /\ \A x \in Players : h.invitations[x] = IF x \in g.invited[q] THEN g.invitations[x] \ {q}
                                               ELSE g.invitations[x]
  BY <1>0, GroupTypes DEF Disband
<1>. HIDE DEF h
<1>3. PartyAgrees(h, on, q)
  <2>1. ~Exists(h, q) /\ Members(h, q) = {} /\ Once(h.members[q])
    BY <1>2 DEF Exists, Members, Once
  <2>2. \A p \in Players : h.party[p] # q
    BY <1>0, <1>2, GroupTypes DEF PartyAgrees
  <2>3. ASSUME NEW p \in Players \ SelfInviters PROVE q \notin h.invitations[p]
    <3>1. q \in g.invitations[p] => p \in g.invited[q]
      BY <1>0 DEF PartyAgrees
    <3>. QED BY <3>1, <1>2
  <2>. QED BY <1>2, <2>1, <2>2, <2>3 DEF PartyAgrees
<1>4. ASSUME NEW r \in Parties \ {q} PROVE PartyAgrees(h, on, r)
  <2>1. ASSUME NEW p \in Players
        PROVE  /\ h.party[p] = r <=> g.party[p] = r
               /\ r \in h.invitations[p] <=> r \in g.invitations[p]
    <3>1. g.party[p] = r => p \notin People(g, q)
      BY <1>0 DEF PartyAgrees
    <3>2. r # Null /\ r # q
      BY <1>0, GroupTypes
    <3>3. h.party[p] = r <=> g.party[p] = r
      BY <3>1, <3>2, <1>2
    <3>4. r \in h.invitations[p] <=> r \in g.invitations[p]
      BY <3>2, <1>2
    <3>. QED BY <3>3, <3>4
  <2>. QED BY <1>0, <1>2, <2>1, OthersAgree
<1>5. \A r \in Parties : PartyAgrees(h, on, r)
  BY <1>3, <1>4
<1>6. Agree(h, on)
  BY <1>0, <1>1, <1>5 DEF Agree
<1>7. ~Exists(h, q)
  BY <1>2 DEF Exists
<1>8. ASSUME NEW x \in Players
      PROVE  /\ g.party[x] \in {q, Null} => h.party[x] = Null
             /\ h.invitations[x] \subseteq g.invitations[x]
  <2>1. g.party[x] = q => x \in People(g, q)
    BY <1>0 DEF PartyAgrees
  <2>. QED BY <2>1, <1>2
<1>. QED BY <1>2, <1>6, <1>7, <1>8 DEF h

LEMMA EraseAgrees ==
  ASSUME NEW g, NEW on, Agree(g, on), NEW p \in Players, NEW q \in Parties,
         g.party[p] = q, g.leader[q] # p
  PROVE  LET h == Erase(g, q, p)
         IN  /\ Agree(h, on)
             /\ h.party[p] = Null /\ h.invitations = g.invitations /\ h.leader = g.leader
             /\ Members(h, q) = Members(g, q) \ {p}
             /\ \A r \in Parties \ {q} : h.members[r] = g.members[r] /\ h.invited[r] = g.invited[r]
<1>. DEFINE h == Erase(g, q, p)
<1>0. g \in Groups /\ \A r \in Parties : PartyAgrees(g, on, r)
  BY DEF Agree
<1>1. /\ Without(g.members[q], p) \in Seq(Players)
      /\ Once(g.members[q])
      /\ Once(Without(g.members[q], p))
      /\ Listed(Without(g.members[q], p)) = Members(g, q) \ {p}
      /\ p \in Members(g, q) /\ Exists(g, q)
  <2>1. Once(g.members[q]) /\ p \in Members(g, q) /\ Exists(g, q)
    BY <1>0 DEF PartyAgrees, People
  <2>. QED BY <2>1, <1>0, GroupTypes, WithoutElements
<1>2. /\ h.leader = g.leader /\ h.invitations = g.invitations
      /\ h.members = [g.members EXCEPT ![q] = Without(g.members[q], p)]
      /\ h.invited = [g.invited EXCEPT ![q] = g.invited[q] \ {p}]
      /\ h.party = [g.party EXCEPT ![p] = Null]
      /\ h \in Groups
  <2>1. h \in Groups
    BY <1>0, EraseType
  <2>. QED BY <1>0, <2>1 DEF Erase, Groups
<1>. HIDE DEF h
<1>3. /\ h.members[q] = Without(g.members[q], p) /\ h.invited[q] = g.invited[q] \ {p}
      /\ \A r \in Parties \ {q} : h.members[r] = g.members[r] /\ h.invited[r] = g.invited[r]
      /\ h.party[p] = Null
      /\ \A x \in Players \ {p} : h.party[x] = g.party[x]
  <2>1. /\ g.party \in [Players -> Parties \cup {Null}] /\ g.members \in [Parties -> Seq(Players)]
        /\ g.invited \in [Parties -> SUBSET Players]
    BY <1>0, GroupTypes
  <2>. QED BY <1>2, <2>1
<1>4. Members(h, q) = Members(g, q) \ {p} /\ People(h, q) = People(g, q) \ {p}
  <2>1. Members(h, q) = Listed(h.members[q])
    BY DEF Members, Listed
  <2>2. Members(h, q) = Members(g, q) \ {p}
    BY <2>1, <1>1, <1>3
  <2>. QED BY <2>2, <1>2 DEF People
<1>5. PartyAgrees(h, on, q)
  <2>1. PartyAgrees(g, on, q)
    BY <1>0
  <2>2. ASSUME NEW x \in Players PROVE h.party[x] = q <=> Exists(h, q) /\ x \in People(h, q)
    <3>1. CASE x = p
      BY <3>1, <1>0, <1>3, <1>4, GroupTypes
    <3>2. CASE x # p
      BY <3>2, <1>2, <1>3, <1>4, <2>1 DEF PartyAgrees, Exists
    <3>. QED BY <3>1, <3>2
  <2>3. /\ Once(h.members[q]) /\ h.leader[q] \notin Members(h, q)
        /\ \A x \in Players : x \in h.invited[q] => q \in h.invitations[x]
    BY <1>1, <1>2, <1>3, <1>4, <2>1 DEF PartyAgrees
  <2>5. ASSUME NEW x \in Players \ SelfInviters, q \in h.invitations[x] PROVE x \in h.invited[q]
    <3>1. x \in g.invited[q] /\ p \in People(g, q)
      BY <2>1, <2>5, <1>1, <1>2 DEF PartyAgrees, People
    <3>2. x # p
      BY <2>1, <3>1 DEF PartyAgrees
    <3>. QED BY <3>1, <3>2, <1>3
  <2>4. /\ h.invited[q] \cap People(h, q) \subseteq SelfInviters /\ h.invited[q] \subseteq on
        /\ Members(h, q) \subseteq on
        /\ Exists(h, q) /\ h.leader[q] \in on
    BY <1>1, <1>2, <1>3, <1>4, <2>1 DEF PartyAgrees, Exists
  <2>. QED BY <2>2, <2>3, <2>4, <2>5 DEF PartyAgrees
<1>6. ASSUME NEW r \in Parties \ {q} PROVE PartyAgrees(h, on, r)
  <2>1. ASSUME NEW x \in Players PROVE h.party[x] = r <=> g.party[x] = r
    <3>1. r # Null /\ r # q
      BY <1>0, GroupTypes
    <3>. QED BY <3>1, <1>3
  <2>2. /\ PartyAgrees(g, on, r) /\ h.leader[r] = g.leader[r]
        /\ h.members[r] = g.members[r] /\ h.invited[r] = g.invited[r]
        /\ \A x \in Players : r \in h.invitations[x] <=> r \in g.invitations[x]
    BY <1>0, <1>2, <1>3
  <2>3. \A x \in Players : /\ h.party[x] = r <=> g.party[x] = r
                           /\ r \in h.invitations[x] <=> r \in g.invitations[x]
    BY <2>1, <2>2
  <2>. QED BY <2>2, <2>3, OthersAgree
<1>. QED BY <1>2, <1>3, <1>4, <1>5, <1>6 DEF Agree, h

LEMMA PassLeadershipAgrees ==
  ASSUME NEW g, NEW on, Agree(g, on), NEW q \in Parties, NEW x \in Members(g, q)
  PROVE  LET h == PassLeadership(g, q, x)
         IN  /\ Agree(h, on)
             /\ h.party = g.party /\ h.invitations = g.invitations /\ h.invited = g.invited
             /\ h.leader[q] = x /\ h.members[q] # <<>> /\ People(h, q) = People(g, q)
             /\ \A r \in Parties \ {q} : h.leader[r] = g.leader[r] /\ h.members[r] = g.members[r]
<1>. DEFINE h == PassLeadership(g, q, x)
            l == g.leader[q]
            w == Without(g.members[q], x)
<1>0. g \in Groups /\ \A r \in Parties : PartyAgrees(g, on, r)
  BY DEF Agree
<1>1. /\ Exists(g, q) /\ l \in Players /\ x \in Players /\ l \notin Members(g, q)
      /\ Members(g, q) = Listed(g.members[q]) /\ g.members[q] \in Seq(Players)
      /\ Once(g.members[q])
  <2>1. g.members[q] # <<>>
    BY DEF Members
  <2>. QED BY <2>1, <1>0, GroupTypes DEF PartyAgrees, Exists
<1>2. /\ w \in Seq(Players) /\ Once(w) /\ Listed(w) = Members(g, q) \ {x} /\ l \notin Listed(w)
  BY <1>1, WithoutElements
<1>. HIDE DEF w, l
<1>3. /\ <<l>> \o w \in Seq(Players) /\ <<l>> \o w # <<>> /\ Once(<<l>> \o w)
      /\ Listed(<<l>> \o w) = {l} \cup Listed(w)
  BY <1>1, <1>2, PrependElements
<1>4. /\ h.party = g.party /\ h.invitations = g.invitations /\ h.invited = g.invited
      /\ h.leader = [g.leader EXCEPT ![q] = x]
      /\ h.members = [g.members EXCEPT ![q] = <<l>> \o w]
      /\ h \in Groups
  <2>1. h \in Groups
    BY <1>0, <1>1, PassLeadershipType DEF l
  <2>. QED BY <1>0, <2>1 DEF PassLeadership, Groups, l, w
<1>. HIDE DEF h
<1>5. /\ h.leader[q] = x /\ h.members[q] = <<l>> \o w
      /\ \A r \in Parties \ {q} : h.leader[r] = g.leader[r] /\ h.members[r] = g.members[r]
  BY <1>0, <1>4, GroupTypes
<1>6. /\ Members(h, q) = {l} \cup (Members(g, q) \ {x}) /\ People(h, q) = People(g, q)
  <2>1. Members(h, q) = Listed(h.members[q])
    BY DEF Members, Listed
  <2>2. Members(h, q) = {l} \cup (Members(g, q) \ {x})
    BY <2>1, <1>5, <1>3, <1>2
  <2>. QED BY <2>2, <1>5 DEF People, l
<1>7. PartyAgrees(h, on, q)
  <2>1. PartyAgrees(g, on, q)
    BY <1>0
  <2>2. Exists(h, q) /\ x # l
    BY <1>0, <1>1, <1>5, GroupTypes DEF Exists
  <2>3. \A p \in Players : h.party[p] = q <=> Exists(h, q) /\ p \in People(h, q)
    BY <2>1, <2>2, <1>1, <1>4, <1>6 DEF PartyAgrees
  <2>4. /\ \A p \in Players : p \in h.invited[q] => q \in h.invitations[p]
        /\ \A p \in Players \ SelfInviters : q \in h.invitations[p] => p \in h.invited[q]
    BY <2>1, <1>4 DEF PartyAgrees
  <2>5. /\ Once(h.members[q]) /\ h.leader[q] \notin Members(h, q)
        /\ h.invited[q] \cap People(h, q) \subseteq SelfInviters /\ h.invited[q] \subseteq on
    BY <2>1, <2>2, <1>3, <1>4, <1>5, <1>6 DEF PartyAgrees
  <2>6. l \in on /\ x \in on /\ Members(g, q) \subseteq on
    BY <2>1, <1>1 DEF PartyAgrees, l
  <2>7. Members(h, q) \subseteq on /\ h.leader[q] \in on
    BY <2>6, <1>5, <1>6
  <2>. QED BY <2>2, <2>3, <2>4, <2>5, <2>7 DEF PartyAgrees
<1>8. ASSUME NEW r \in Parties \ {q} PROVE PartyAgrees(h, on, r)
  <2>1. /\ PartyAgrees(g, on, r) /\ h.leader[r] = g.leader[r]
        /\ h.members[r] = g.members[r] /\ h.invited[r] = g.invited[r]
        /\ \A p \in Players : /\ h.party[p] = r <=> g.party[p] = r
                              /\ r \in h.invitations[p] <=> r \in g.invitations[p]
    BY <1>0, <1>4, <1>5
  <2>. QED BY <2>1, OthersAgree
<1>9. Agree(h, on)
  BY <1>4, <1>7, <1>8 DEF Agree
<1>. QED BY <1>3, <1>4, <1>5, <1>6, <1>9 DEF h

(* A leader who goes without a successor takes his own invitation out of the party's list
   first; what is left behind is what disband() leaves then. *)
Uninvited(g, q, p) == [g EXCEPT !.invited[q] = @ \ {p}]

LEMMA DisbandErased ==
  ASSUME NEW g, NEW on, Agree(g, on), NEW p \in Players, NEW q \in Parties, g.leader[q] = p
  PROVE  LET u == Uninvited(g, q, p)
         IN  /\ Disband(Erase(g, q, p), q) = Disband(u, q)
             /\ Agree(u, on) /\ Exists(u, q)
             /\ u.party = g.party /\ u.invitations = g.invitations
             /\ u.leader = g.leader /\ u.members = g.members
             /\ \A r \in Parties \ {q} : u.invited[r] = g.invited[r]
<1>. DEFINE h == Erase(g, q, p)
            u == Uninvited(g, q, p)
<1>0. g \in Groups /\ \A r \in Parties : PartyAgrees(g, on, r)
  BY DEF Agree
<1>1. Without(g.members[q], p) = g.members[q]
  <2>1. p \notin Members(g, q)
    BY <1>0 DEF PartyAgrees
  <2>. QED BY <2>1 DEF Members, Without
<1>2. /\ h.leader = g.leader /\ h.invitations = g.invitations
      /\ h.members = g.members /\ h.invited = [g.invited EXCEPT ![q] = @ \ {p}]
      /\ h.party = [g.party EXCEPT ![p] = Null]
  BY <1>0, <1>1, GroupTypes DEF Erase, Groups
<1>3. /\ u.leader = g.leader /\ u.invitations = g.invitations /\ u.members = g.members
      /\ u.invited = [g.invited EXCEPT ![q] = @ \ {p}] /\ u.party = g.party
      /\ u \in Groups
  BY <1>0 DEF Uninvited, Groups
<1>. HIDE DEF h, u
<1>4. People(h, q) = People(u, q) /\ p \in People(g, q) /\ h.invited = u.invited
  BY <1>2, <1>3 DEF People, Members
<1>5. Disband(h, q) = Disband(u, q)
  <2>1. [x \in Players |-> IF x \in People(h, q) THEN Null ELSE h.party[x]]
          = [x \in Players |-> IF x \in People(u, q) THEN Null ELSE u.party[x]]
    <3>1. p \in People(u, q)
      BY <1>3, <1>4 DEF People, Members
    <3>. QED BY <3>1, <1>0, <1>2, <1>3, <1>4, GroupTypes
  <2>. QED BY <2>1, <1>2, <1>3, <1>4 DEF Disband
<1>6. /\ u.invited[q] = g.invited[q] \ {p}
      /\ \A r \in Parties \ {q} : u.invited[r] = g.invited[r]
      /\ \A r \in Parties : Members(u, r) = Members(g, r) /\ People(u, r) = People(g, r)
                            /\ (Exists(u, r) <=> Exists(g, r))
  BY <1>0, <1>3, GroupTypes DEF Members, People, Exists
<1>7. PartyAgrees(u, on, q)
  <2>1. PartyAgrees(g, on, q)
    BY <1>0
  <2>2. \A x \in Players : u.party[x] = q <=> Exists(u, q) /\ x \in People(u, q)
    BY <2>1, <1>3, <1>6 DEF PartyAgrees
  <2>3. ASSUME NEW x \in Players \ SelfInviters, q \in u.invitations[x] PROVE x \in u.invited[q]
    <3>1. x \in g.invited[q]
      BY <2>1, <2>3, <1>3 DEF PartyAgrees
    <3>2. x # p
      BY <2>1, <3>1, <1>4 DEF PartyAgrees
    <3>. QED BY <3>1, <3>2, <1>6
  <2>4. /\ \A x \in Players : x \in u.invited[q] => q \in u.invitations[x]
        /\ u.leader[q] \notin Members(u, q) /\ Once(u.members[q])
        /\ u.invited[q] \cap People(u, q) \subseteq SelfInviters
        /\ u.invited[q] \subseteq on /\ Members(u, q) \subseteq on
        /\ Exists(u, q) => u.leader[q] \in on
        /\ ~Exists(u, q) => u.members[q] = <<>> /\ u.invited[q] = {}
    BY <2>1, <1>3, <1>6 DEF PartyAgrees
  <2>. QED BY <2>2, <2>3, <2>4 DEF PartyAgrees
<1>8. ASSUME NEW r \in Parties \ {q} PROVE PartyAgrees(u, on, r)
  BY <1>0, <1>3, <1>6, OthersAgree
<1>9. Agree(u, on)
  BY <1>3, <1>7, <1>8 DEF Agree
<1>10. Exists(u, q)
  BY <1>3, PartyAssumption DEF Exists
<1>. QED BY <1>3, <1>5, <1>6, <1>9, <1>10 DEF h, u

(* A leader who goes is followed by the member at the front, unless there is none or he is
   the only one and nobody is invited. *)
LEMMA HandOverAgrees ==
  ASSUME NEW g, Agree(g, online), NEW p \in Players, NEW q \in Parties, g.party[p] = q
  PROVE  LET h == HandOver(g, q, p)
         IN  /\ Agree(h, online)
             /\ h.party = g.party /\ h.invitations = g.invitations /\ h.invited = g.invited
             /\ People(h, q) = People(g, q)
             /\ h.leader[q] = p => Missing(g, q, p)
             /\ Missing(g, q, p) => h = g /\ h.leader[q] = p
             /\ \A r \in Parties \ {q} : h.leader[r] = g.leader[r] /\ h.members[r] = g.members[r]
<1>. DEFINE h == HandOver(g, q, p)
<1>0. g \in Groups /\ PartyAgrees(g, online, q)
  BY DEF Agree
<1>1. CASE g.leader[q] = p /\ ~Missing(g, q, p)
  <2>. DEFINE x == Head(g.members[q])
  <2>1. g.members[q] # <<>>
    BY <1>1 DEF Missing
  <2>2. x \in Members(g, q) /\ x \in online /\ x # p
    BY <2>1, <1>0, <1>1, GroupTypes, EmptyList DEF PartyAgrees
  <2>3. h = PassLeadership(g, q, x)
    BY <2>2, <1>1 DEF HandOver
  <2>. HIDE DEF x, h
  <2>. QED BY <2>2, <2>3, <1>1, PassLeadershipAgrees DEF h
<1>2. CASE ~(g.leader[q] = p /\ ~Missing(g, q, p))
  <2>1. h = g /\ (Missing(g, q, p) => g.leader[q] = p)
    BY <1>2 DEF HandOver, Missing
  <2>. QED BY <2>1, <1>2
<1>. QED BY <1>1, <1>2

LEMMA LeaveAgrees ==
  ASSUME NEW g, Agree(g, online), NEW p \in Players, NEW q \in Parties, g.party[p] = q
  PROVE  LET h == Leave(g, p)
         IN  /\ Agree(h, online)
             /\ h.party[p] = Null /\ h.invitations[p] \subseteq g.invitations[p]
             /\ Exists(h, q) => ~CanDisband(h, q) /\ People(h, q) = People(g, q) \ {p}
             /\ \A r \in Parties \ {q} : /\ h.leader[r] = g.leader[r]
                                         /\ h.members[r] = g.members[r]
                                         /\ h.invited[r] = g.invited[r]
<1>. DEFINE f == HandOver(g, q, p)
            e == Erase(f, q, p)
<1>1. /\ Agree(f, online)
      /\ f.party = g.party /\ f.invitations = g.invitations /\ f.invited = g.invited
      /\ People(f, q) = People(g, q)
      /\ f.leader[q] = p => Missing(g, q, p)
      /\ Missing(g, q, p) => f = g /\ f.leader[q] = p
      /\ \A r \in Parties \ {q} : f.leader[r] = g.leader[r] /\ f.members[r] = g.members[r]
  BY HandOverAgrees
<1>2. Leave(g, p) = DisbandIf(Missing(g, q, p) \/ CanDisband(e, q), e, q)
  BY DEF Leave
<1>. HIDE DEF f
<1>3. CASE Missing(g, q, p)
  <2>. DEFINE u == Uninvited(g, q, p)
  <2>1. f = g /\ g.leader[q] = p
    BY <1>1, <1>3
  <2>2. Leave(g, p) = Disband(Erase(g, q, p), q)
    BY <2>1, <1>2, <1>3 DEF DisbandIf
  <2>. HIDE DEF u, e
  <2>3. /\ Leave(g, p) = Disband(u, q)
        /\ Agree(u, online) /\ Exists(u, q)
        /\ u.party = g.party /\ u.invitations = g.invitations
        /\ u.leader = g.leader /\ u.members = g.members
        /\ \A r \in Parties \ {q} : u.invited[r] = g.invited[r]
    BY <2>1, <2>2, DisbandErased DEF u
  <2>. QED BY <2>3, DisbandAgrees
<1>4. CASE ~Missing(g, q, p)
  <2>. HIDE DEF e
  <2>1. f.leader[q] # p /\ f.party[p] = q
    BY <1>1, <1>4
  <2>2. /\ Agree(e, online)
        /\ e.party[p] = Null /\ e.invitations = f.invitations /\ e.leader = f.leader
        /\ Members(e, q) = Members(f, q) \ {p}
        /\ \A r \in Parties \ {q} : e.members[r] = f.members[r] /\ e.invited[r] = f.invited[r]
    BY <2>1, <1>1, EraseAgrees DEF e
  <2>3. People(e, q) = People(g, q) \ {p}
    BY <2>1, <2>2, <1>1 DEF People
  <2>4. \A r \in Parties \ {q} : /\ e.leader[r] = g.leader[r]
                                 /\ e.members[r] = g.members[r]
                                 /\ e.invited[r] = g.invited[r]
    BY <2>2, <1>1
  <2>5. CASE CanDisband(e, q)
    <3>1. Exists(e, q)
      <4>1. PartyAgrees(g, online, q) /\ g \in Groups
        BY DEF Agree
      <4>2. PartyAgrees(f, online, q) /\ f \in Groups
        BY <1>1 DEF Agree
      <4>. QED BY <4>2, <2>1, <2>2 DEF PartyAgrees, Exists
    <3>2. Leave(g, p) = Disband(e, q)
      BY <2>5, <1>2 DEF DisbandIf
    <3>. QED BY <3>1, <3>2, <2>2, <2>4, <1>1, DisbandAgrees
  <2>6. CASE ~CanDisband(e, q)
    <3>1. Leave(g, p) = e
      BY <2>6, <1>2, <1>4 DEF DisbandIf
    <3>. QED BY <3>1, <2>2, <2>3, <2>4, <2>6, <1>1
  <2>. QED BY <2>5, <2>6
<1>. QED BY <1>3, <1>4

LEMMA RemoveInvitesAgrees ==
  ASSUME NEW g, NEW on, Agree(g, on), NEW p \in Players, NEW set \in SUBSET Parties
  PROVE  LET h == RemoveInvites(g, set, p)
         IN  /\ Agree(h, on)
             /\ h.invitations[p] = g.invitations[p] \ set
             /\ \A r \in Parties : Exists(h, r) =>
                  /\ h.leader[r] = g.leader[r] /\ h.members[r] = g.members[r]
                  /\ ~CanDisband(g, r) => ~CanDisband(h, r)
<1>. DEFINE h == RemoveInvites(g, set, p)
            from == {q \in set : p \in g.invited[q]}
            gone == {q \in from : g.members[q] = <<>> /\ g.invited[q] = {p}}
<1>0. g \in Groups /\ on \subseteq Players /\ \A r \in Parties : PartyAgrees(g, on, r)
  BY DEF Agree
<1>1. /\ g.party \in [Players -> Parties \cup {Null}]
      /\ g.invitations \in [Players -> SUBSET Parties]
      /\ g.leader \in [Parties -> Players \cup {Null}]
      /\ g.members \in [Parties -> Seq(Players)]
      /\ g.invited \in [Parties -> SUBSET Players]
      /\ Null \notin Players /\ Null \notin Parties
  BY <1>0, PartyAssumption DEF Groups
<1>2. /\ h.invitations = [g.invitations EXCEPT ![p] = @ \ set]
      /\ h.invited = [q \in Parties |-> IF q \in from THEN g.invited[q] \ {p} ELSE g.invited[q]]
      /\ h.party = [x \in Players |-> IF \E q \in gone : g.leader[q] = x THEN Null ELSE g.party[x]]
      /\ h.leader = [q \in Parties |-> IF q \in gone THEN Null ELSE g.leader[q]]
      /\ h.members = g.members
      /\ h = [party |-> h.party, invitations |-> h.invitations, leader |-> h.leader,
              members |-> h.members, invited |-> h.invited]
  <2>1. g = [party |-> g.party, invitations |-> g.invitations, leader |-> g.leader,
             members |-> g.members, invited |-> g.invited]
    BY <1>0 DEF Groups
  <2>2. h = [g EXCEPT !.invitations[p] = @ \ set,
                      !.invited = [q \in Parties |-> IF q \in from THEN @[q] \ {p} ELSE @[q]],
                      !.party = [x \in Players |-> IF \E q \in gone : g.leader[q] = x
                                                   THEN Null ELSE @[x]],
                      !.leader = [q \in Parties |-> IF q \in gone THEN Null ELSE @[q]]]
    BY DEF RemoveInvites
  <2>. HIDE DEF h, from, gone
  <2>. QED BY <2>1, <2>2
<1>. HIDE DEF h
<1>3. h \in Groups
  BY <1>0, RemoveInvitesType DEF h
<1>4. /\ \A r \in Parties : /\ h.members[r] = g.members[r] /\ Members(h, r) = Members(g, r)
                            /\ h.leader[r] = IF r \in gone THEN Null ELSE g.leader[r]
                            /\ h.invited[r] = IF r \in from THEN g.invited[r] \ {p} ELSE g.invited[r]
      /\ \A x \in Players : h.party[x] = IF \E q \in gone : g.leader[q] = x THEN Null ELSE g.party[x]
      /\ h.invitations[p] = g.invitations[p] \ set
      /\ \A x \in Players \ {p} : h.invitations[x] = g.invitations[x]
  BY <1>1, <1>2 DEF Members
<1>. HIDE DEF gone, from
<1>5. /\ gone \subseteq from /\ from \subseteq set /\ set \subseteq Parties
      /\ \A q \in set : q \in from <=> p \in g.invited[q]
      /\ \A q \in from : q \in gone <=> g.members[q] = <<>> /\ g.invited[q] = {p}
  BY DEF gone, from
<1>6. ASSUME NEW r \in Parties, NEW x \in Players
      PROVE  /\ x \in h.invited[r] => r \in h.invitations[x]
             /\ x \notin SelfInviters /\ r \in h.invitations[x] => x \in h.invited[r]
  <2>1. /\ x \in g.invited[r] => r \in g.invitations[x]
        /\ x \notin SelfInviters /\ r \in g.invitations[x] => x \in g.invited[r]
    BY <1>0 DEF PartyAgrees
  <2>2. h.invited[r] = IF r \in from THEN g.invited[r] \ {p} ELSE g.invited[r]
    BY <1>4
  <2>3. CASE x = p
    <3>1. h.invitations[x] = g.invitations[x] \ set
      BY <2>3, <1>4
    <3>2. r \in from <=> r \in set /\ p \in g.invited[r]
      BY DEF from
    <3>. QED BY <3>1, <3>2, <2>1, <2>2, <2>3
  <2>4. CASE x # p
    <3>1. h.invitations[x] = g.invitations[x]
      BY <2>4, <1>4
    <3>. QED BY <3>1, <2>1, <2>2, <2>4
  <2>. QED BY <2>3, <2>4
<1>7. ASSUME NEW r \in Parties \ gone, NEW x \in Players
      PROVE  h.party[x] = r <=> g.party[x] = r
  <2>1. ASSUME NEW q \in gone, g.leader[q] = x PROVE g.party[x] = q
    BY <2>1, <1>0, <1>1, <1>5 DEF PartyAgrees, Exists, People
  <2>. QED BY <2>1, <1>1, <1>4
<1>8. ASSUME NEW r \in gone PROVE PartyAgrees(h, on, r) /\ ~Exists(h, r)
  <2>1. r \in Parties /\ PartyAgrees(g, on, r)
    BY <1>0, <1>5
  <2>2. /\ h.leader[r] = Null /\ h.members[r] = <<>> /\ h.invited[r] = {} /\ Members(h, r) = {}
    <3>1. h.leader[r] = Null /\ h.members[r] = <<>> /\ h.invited[r] = g.invited[r] \ {p}
      BY <2>1, <1>4, <1>5
    <3>2. g.invited[r] = {p}
      BY <1>5
    <3>. QED BY <3>1, <3>2 DEF Members
  <2>3. ASSUME NEW x \in Players PROVE h.party[x] # r
    <3>1. g.party[x] = r => x = g.leader[r]
      BY <2>1, <2>2, <1>4 DEF PartyAgrees, People
    <3>. QED BY <3>1, <2>1, <1>1, <1>4
  <2>4. ~Exists(h, r) /\ Once(h.members[r])
    BY <2>2 DEF Exists, Once
  <2>. QED BY <2>1, <2>2, <2>3, <2>4, <1>6 DEF PartyAgrees
<1>9. ASSUME NEW r \in Parties \ gone PROVE PartyAgrees(h, on, r)
  <2>1. PartyAgrees(g, on, r)
    BY <1>0
  <2>2. /\ h.leader[r] = g.leader[r] /\ h.members[r] = g.members[r] /\ Members(h, r) = Members(g, r)
        /\ h.invited[r] \subseteq g.invited[r]
    BY <1>4
  <2>3. People(h, r) = People(g, r) /\ (Exists(h, r) <=> Exists(g, r))
    BY <2>2 DEF People, Exists
  <2>4. \A x \in Players : h.party[x] = r <=> Exists(h, r) /\ x \in People(h, r)
    BY <2>1, <2>3, <1>7 DEF PartyAgrees
  <2>. QED BY <2>1, <2>2, <2>3, <2>4, <1>6 DEF PartyAgrees
<1>10. Agree(h, on)
  BY <1>0, <1>3, <1>8, <1>9 DEF Agree
<1>11. ASSUME NEW r \in Parties, Exists(h, r)
       PROVE  /\ h.leader[r] = g.leader[r] /\ h.members[r] = g.members[r]
              /\ ~CanDisband(g, r) => ~CanDisband(h, r)
  <2>1. r \notin gone
    BY <1>8, <1>11
  <2>2. CASE r \in from /\ h.invited[r] = {}
    <3>0. g.invited[r] \ {p} = {} /\ p \in g.invited[r]
      BY <2>2, <1>4 DEF from
    <3>1. g.invited[r] = {p}
      BY <3>0
    <3>. QED BY <3>1, <2>1, <2>2, <1>4, <1>5 DEF CanDisband
  <2>3. CASE ~(r \in from /\ h.invited[r] = {})
    BY <2>1, <2>3, <1>4 DEF CanDisband
  <2>. QED BY <2>2, <2>3
<1>. QED BY <1>4, <1>10, <1>11 DEF h

(* What inviting, joining and appearing make of group. *)
Invited(g, p, q, x) ==
  [g EXCEPT !.leader[q] = p, !.party[p] = q, !.invited[q] = @ \cup {x},
            !.invitations[x] = @ \cup {q}]

Joined(g, p, q) ==
  [g EXCEPT !.members[q] = Append(@, p), !.party[p] = q,
            !.invitations[p] = @ \ {q}, !.invited[q] = @ \ {p}]

Fresh(g, p) == [g EXCEPT !.party[p] = Null, !.invitations[p] = {}]

LEMMA InviteAgrees ==
  ASSUME NEW g, NEW on, Agree(g, on), NEW p \in on, NEW x \in on,
         x = p => p \in SelfInviters,
         g.party[x] = Null, NEW q \in Parties,
         \/ g.party[p] = Null /\ ~Exists(g, q)
         \/ g.party[p] = q /\ g.leader[q] = p
  PROVE  LET h == Invited(g, p, q, x)
         IN  /\ Agree(h, on) /\ h.members = g.members /\ h.leader[q] = p /\ x \in h.invited[q]
             /\ \A r \in Parties \ {q} : h.leader[r] = g.leader[r] /\ h.invited[r] = g.invited[r]
<1>. DEFINE h == Invited(g, p, q, x)
<1>0. /\ g \in Groups /\ on \subseteq Players /\ \A r \in Parties : PartyAgrees(g, on, r)
      /\ p \in Players /\ x \in Players
  BY DEF Agree
<1>1. /\ g.party \in [Players -> Parties \cup {Null}]
      /\ g.invitations \in [Players -> SUBSET Parties]
      /\ g.leader \in [Parties -> Players \cup {Null}]
      /\ g.members \in [Parties -> Seq(Players)]
      /\ g.invited \in [Parties -> SUBSET Players]
      /\ Null \notin Players /\ Null \notin Parties
  BY <1>0, PartyAssumption DEF Groups
<1>2. /\ h.leader = [g.leader EXCEPT ![q] = p] /\ h.party = [g.party EXCEPT ![p] = q]
      /\ h.invited = [g.invited EXCEPT ![q] = @ \cup {x}]
      /\ h.invitations = [g.invitations EXCEPT ![x] = @ \cup {q}]
      /\ h.members = g.members
      /\ h \in Groups
  <2>1. h \in Groups
    <3>. DEFINE f == [g EXCEPT !.leader[q] = p, !.party[p] = q]
    <3>1. f \in Groups /\ f.invited = g.invited /\ f.invitations = g.invitations
      BY <1>0, <1>1 DEF Groups
    <3>. DEFINE i == [f EXCEPT !.invited[q] = @ \cup {x}]
    <3>2. h = [i EXCEPT !.invitations[x] = @ \cup {q}]
      BY DEF Invited
    <3>. HIDE DEF f, h
    <3>3. i \in Groups /\ i.invitations = g.invitations
      BY <3>1, <1>0 DEF Groups
    <3>. HIDE DEF i
    <3>. QED BY <3>2, <3>3, <1>0 DEF Groups
  <2>. QED BY <1>0, <2>1 DEF Groups, Invited
<1>. HIDE DEF h
<1>3. /\ h.leader[q] = p /\ h.invited[q] = g.invited[q] \cup {x}
      /\ \A r \in Parties \ {q} : h.leader[r] = g.leader[r] /\ h.invited[r] = g.invited[r]
      /\ h.party[p] = q /\ \A y \in Players \ {p} : h.party[y] = g.party[y]
      /\ h.invitations[x] = g.invitations[x] \cup {q}
      /\ \A y \in Players \ {x} : h.invitations[y] = g.invitations[y]
      /\ \A r \in Parties : h.members[r] = g.members[r] /\ Members(h, r) = Members(g, r)
  BY <1>0, <1>1, <1>2 DEF Members
<1>4. PartyAgrees(h, on, q)
  <2>1. PartyAgrees(g, on, q)
    BY <1>0
  <2>2. People(h, q) = {p} \cup Members(g, q) /\ Exists(h, q)
    BY <1>0, <1>1, <1>3 DEF People, Exists
  <2>3. p \notin Members(g, q) /\ x \notin Members(g, q)
    <3>1. Members(g, q) # {} => Exists(g, q)
      BY <2>1 DEF PartyAgrees, Members
    <3>2. \A y \in Members(g, q) : y \in Players /\ g.party[y] = q
      BY <2>1, <3>1, <1>0 DEF PartyAgrees, People
    <3>. QED BY <3>2, <2>1, <1>0, <1>1 DEF PartyAgrees
  <2>4. p \in g.invited[q] => p \in SelfInviters
    BY <2>1 DEF PartyAgrees, People
  <2>5. ASSUME NEW y \in Players PROVE h.party[y] = q <=> Exists(h, q) /\ y \in People(h, q)
    <3>1. CASE y = p
      BY <3>1, <2>2, <1>3
    <3>2. CASE y # p
      <4>1. g.party[y] = q <=> Exists(g, q) /\ y \in People(g, q)
        BY <2>1 DEF PartyAgrees
      <4>2. Members(g, q) # {} => Exists(g, q)
        BY <2>1 DEF PartyAgrees, Members
      <4>3. Exists(g, q) => g.leader[q] = p
        BY <2>1, <1>0 DEF PartyAgrees, Exists
      <4>. QED BY <4>1, <4>2, <4>3, <3>2, <2>2, <1>3 DEF People
    <3>. QED BY <3>1, <3>2
  <2>6. ASSUME NEW y \in Players
        PROVE  /\ y \in h.invited[q] => q \in h.invitations[y]
               /\ y \notin SelfInviters /\ q \in h.invitations[y] => y \in h.invited[q]
    <3>1. /\ y \in g.invited[q] => q \in g.invitations[y]
          /\ y \notin SelfInviters /\ q \in g.invitations[y] => y \in g.invited[q]
      BY <2>1 DEF PartyAgrees
    <3>. QED BY <3>1, <1>3
  <2>7. h.invited[q] \cap People(h, q) \subseteq SelfInviters
    <3>1. g.invited[q] \cap Members(g, q) \subseteq SelfInviters
      BY <2>1 DEF PartyAgrees, People
    <3>. QED BY <3>1, <2>2, <2>3, <2>4, <1>3
  <2>. QED BY <2>1, <2>2, <2>3, <2>5, <2>6, <2>7, <1>3 DEF PartyAgrees
<1>5. ASSUME NEW r \in Parties \ {q} PROVE PartyAgrees(h, on, r)
  <2>1. ASSUME NEW y \in Players
        PROVE  /\ h.party[y] = r <=> g.party[y] = r
               /\ r \in h.invitations[y] <=> r \in g.invitations[y]
    <3>1. r # q /\ r # Null
      BY <1>1
    <3>2. h.party[y] = r <=> g.party[y] = r
      BY <3>1, <1>3
    <3>3. r \in h.invitations[y] <=> r \in g.invitations[y]
      BY <3>1, <1>3
    <3>. QED BY <3>2, <3>3
  <2>2. /\ PartyAgrees(g, on, r) /\ h.leader[r] = g.leader[r]
        /\ h.members[r] = g.members[r] /\ h.invited[r] = g.invited[r]
    BY <1>0, <1>3
  <2>. QED BY <2>1, <2>2, OthersAgree
<1>6. Agree(h, on)
  BY <1>0, <1>2, <1>4, <1>5 DEF Agree
<1>. QED BY <1>2, <1>3, <1>6 DEF h

LEMMA JoinAgrees ==
  ASSUME NEW g, NEW on, Agree(g, on), NEW p \in Players, NEW q \in Parties,
         Exists(g, q), p \in g.invited[q], g.party[p] = Null
  PROVE  LET h == Joined(g, p, q)
         IN  /\ Agree(h, on) /\ h.leader = g.leader /\ h.members[q] # <<>>
             /\ People(h, q) = People(g, q) \cup {p}
             /\ \A r \in Parties \ {q} : h.members[r] = g.members[r] /\ h.invited[r] = g.invited[r]
<1>. DEFINE h == Joined(g, p, q)
            m == Append(g.members[q], p)
<1>0. /\ g \in Groups /\ on \subseteq Players /\ \A r \in Parties : PartyAgrees(g, on, r)
  BY DEF Agree
<1>1. /\ g.party \in [Players -> Parties \cup {Null}]
      /\ g.invitations \in [Players -> SUBSET Parties]
      /\ g.leader \in [Parties -> Players \cup {Null}]
      /\ g.members \in [Parties -> Seq(Players)]
      /\ g.invited \in [Parties -> SUBSET Players]
      /\ Null \notin Players /\ Null \notin Parties
  BY <1>0, PartyAssumption DEF Groups
<1>2. /\ m \in Seq(Players) /\ m # <<>> /\ Once(m)
      /\ Listed(m) = Members(g, q) \cup {p}
      /\ p \notin Members(g, q) /\ p # g.leader[q]
  <2>1. p \notin Members(g, q) /\ p # g.leader[q] /\ Once(g.members[q])
    BY <1>0, <1>1 DEF PartyAgrees, People
  <2>2. Members(g, q) = Listed(g.members[q]) /\ g.members[q] \in Seq(Players)
    BY <1>0, GroupTypes
  <2>. QED BY <2>1, <2>2, AppendElements
<1>3. /\ h.leader = g.leader /\ h.party = [g.party EXCEPT ![p] = q]
      /\ h.invited = [g.invited EXCEPT ![q] = @ \ {p}]
      /\ h.invitations = [g.invitations EXCEPT ![p] = @ \ {q}]
      /\ h.members = [g.members EXCEPT ![q] = m]
      /\ h \in Groups
  <2>1. m \in Seq(Players)
    BY <1>2
  <2>2. h \in Groups
    BY <2>1, <1>0, <1>1 DEF Groups, Joined
  <2>. QED BY <1>0, <2>2 DEF Groups, Joined
<1>. HIDE DEF m
<1>. HIDE DEF h
<1>5. /\ h.members[q] = m /\ h.invited[q] = g.invited[q] \ {p}
      /\ \A r \in Parties \ {q} : h.members[r] = g.members[r] /\ h.invited[r] = g.invited[r]
      /\ h.party[p] = q /\ \A y \in Players \ {p} : h.party[y] = g.party[y]
      /\ h.invitations[p] = g.invitations[p] \ {q}
      /\ \A y \in Players \ {p} : h.invitations[y] = g.invitations[y]
  BY <1>0, <1>1, <1>3
<1>6. Members(h, q) = Members(g, q) \cup {p} /\ People(h, q) = People(g, q) \cup {p}
  <2>1. Members(h, q) = Listed(h.members[q])
    BY DEF Members, Listed
  <2>. QED BY <2>1, <1>2, <1>3, <1>5 DEF People
<1>7. PartyAgrees(h, on, q)
  <2>1. PartyAgrees(g, on, q) /\ Exists(h, q)
    BY <1>0, <1>3 DEF Exists
  <2>2. ASSUME NEW y \in Players PROVE h.party[y] = q <=> Exists(h, q) /\ y \in People(h, q)
    <3>1. CASE y = p
      BY <3>1, <2>1, <1>5, <1>6
    <3>2. CASE y # p
      BY <3>2, <2>1, <1>5, <1>6 DEF PartyAgrees
    <3>. QED BY <3>1, <3>2
  <2>3. ASSUME NEW y \in Players
        PROVE  /\ y \in h.invited[q] => q \in h.invitations[y]
               /\ y \notin SelfInviters /\ q \in h.invitations[y] => y \in h.invited[q]
    <3>1. /\ y \in g.invited[q] => q \in g.invitations[y]
          /\ y \notin SelfInviters /\ q \in g.invitations[y] => y \in g.invited[q]
      BY <2>1 DEF PartyAgrees
    <3>. QED BY <3>1, <1>5
  <2>4. p \in on
    BY <2>1 DEF PartyAgrees
  <2>5. /\ h.leader[q] \notin Members(h, q) /\ Once(h.members[q])
        /\ h.invited[q] \cap People(h, q) \subseteq SelfInviters
        /\ h.invited[q] \subseteq on /\ Members(h, q) \subseteq on
        /\ h.leader[q] \in on
    BY <2>1, <2>4, <1>2, <1>3, <1>5, <1>6 DEF PartyAgrees, Exists
  <2>. QED BY <2>1, <2>2, <2>3, <2>5 DEF PartyAgrees
<1>8. ASSUME NEW r \in Parties \ {q} PROVE PartyAgrees(h, on, r)
  <2>1. ASSUME NEW y \in Players
        PROVE  /\ h.party[y] = r <=> g.party[y] = r
               /\ r \in h.invitations[y] <=> r \in g.invitations[y]
    <3>1. r # q /\ r # Null
      BY <1>1
    <3>2. h.party[y] = r <=> g.party[y] = r
      BY <3>1, <1>5
    <3>3. r \in h.invitations[y] <=> r \in g.invitations[y]
      BY <3>1, <1>5
    <3>. QED BY <3>2, <3>3
  <2>2. /\ PartyAgrees(g, on, r) /\ h.leader[r] = g.leader[r]
        /\ h.members[r] = g.members[r] /\ h.invited[r] = g.invited[r]
    BY <1>0, <1>3, <1>5
  <2>. QED BY <2>1, <2>2, OthersAgree
<1>9. Agree(h, on)
  BY <1>0, <1>3, <1>7, <1>8 DEF Agree
<1>. QED BY <1>2, <1>3, <1>5, <1>6, <1>9 DEF h

(* Who leaves the game must be in no list; who enters it is in none. *)
LEMMA OnlineAgrees ==
  ASSUME NEW g, NEW on, Agree(g, on), NEW p \in Players
  PROVE  /\ g.party[p] = Null /\ g.invitations[p] = {} => Agree(g, on \ {p})
         /\ p \notin on => /\ Agree(Fresh(g, p), on \cup {p})
                           /\ Fresh(g, p).leader = g.leader /\ Fresh(g, p).members = g.members
                           /\ Fresh(g, p).invited = g.invited
<1>0. /\ g \in Groups /\ on \subseteq Players /\ \A r \in Parties : PartyAgrees(g, on, r)
      /\ Null \notin Parties
      /\ g.party \in [Players -> Parties \cup {Null}]
      /\ g.invitations \in [Players -> SUBSET Parties]
  BY PartyAssumption DEF Agree, Groups
<1>1. ASSUME g.party[p] = Null, g.invitations[p] = {}, NEW r \in Parties
      PROVE  PartyAgrees(g, on \ {p}, r)
  <2>1. PartyAgrees(g, on, r)
    BY <1>0
  <2>2. p \notin g.invited[r] /\ (Exists(g, r) => p \notin People(g, r))
    BY <2>1, <1>0, <1>1 DEF PartyAgrees
  <2>3. ~Exists(g, r) => Members(g, r) = {}
    BY <2>1 DEF PartyAgrees, Members
  <2>4. /\ g.invited[r] \subseteq on \ {p} /\ Members(g, r) \subseteq on \ {p}
        /\ Exists(g, r) => g.leader[r] \in on \ {p}
    BY <2>1, <2>2, <2>3 DEF PartyAgrees, People
  <2>. QED BY <2>1, <2>4 DEF PartyAgrees
<1>2. ASSUME p \notin on
      PROVE  LET h == Fresh(g, p)
             IN  /\ h \in Groups /\ h.leader = g.leader /\ h.members = g.members
                 /\ h.invited = g.invited /\ h.party = g.party
                 /\ h.invitations = [g.invitations EXCEPT ![p] = {}]
  <2>1. ASSUME NEW r \in Parties PROVE g.party[p] # r
    <3>1. PartyAgrees(g, on, r)
      BY <1>0
    <3>. QED BY <3>1, <1>2 DEF PartyAgrees, People
  <2>2. g.party[p] = Null
    BY <2>1, <1>0
  <2>. QED BY <2>2, <1>0 DEF Groups, Fresh
<1>3. ASSUME p \notin on, NEW r \in Parties PROVE PartyAgrees(Fresh(g, p), on \cup {p}, r)
  <2>. DEFINE h == Fresh(g, p)
  <2>1. PartyAgrees(g, on, r)
    BY <1>0
  <2>2. /\ h.leader = g.leader /\ h.members = g.members /\ h.invited = g.invited
        /\ h.party = g.party /\ h.invitations = [g.invitations EXCEPT ![p] = {}]
    BY <1>2, <1>3
  <2>. HIDE DEF h
  <2>3. Members(h, r) = Members(g, r) /\ People(h, r) = People(g, r) /\ (Exists(h, r) <=> Exists(g, r))
    BY <2>2 DEF Members, People, Exists
  <2>4. \A x \in Players : h.party[x] = r <=> Exists(h, r) /\ x \in People(h, r)
    BY <2>1, <2>2, <2>3 DEF PartyAgrees
  <2>5. ASSUME NEW x \in Players
        PROVE  /\ x \in h.invited[r] => r \in h.invitations[x]
               /\ x \notin SelfInviters /\ r \in h.invitations[x] => x \in h.invited[r]
    <3>1. /\ x \in g.invited[r] => r \in g.invitations[x] /\ x # p
          /\ x \notin SelfInviters /\ r \in g.invitations[x] => x \in g.invited[r]
      BY <2>1, <1>3 DEF PartyAgrees
    <3>2. h.invitations[x] = IF x = p THEN {} ELSE g.invitations[x]
      BY <2>2, <1>0
    <3>. QED BY <3>1, <3>2, <2>2
  <2>6. /\ h.leader[r] \notin Members(h, r) /\ Once(h.members[r])
        /\ h.invited[r] \cap People(h, r) \subseteq SelfInviters
        /\ h.invited[r] \subseteq on \cup {p} /\ Members(h, r) \subseteq on \cup {p}
        /\ Exists(h, r) => h.leader[r] \in on \cup {p}
        /\ ~Exists(h, r) => h.members[r] = <<>> /\ h.invited[r] = {}
    BY <2>1, <2>2, <2>3 DEF PartyAgrees
  <2>7. PartyAgrees(h, on \cup {p}, r)
    BY <2>4, <2>5, <2>6 DEF PartyAgrees
  <2>. QED BY <2>7 DEF h
<1>. QED BY <1>0, <1>1, <1>2, <1>3 DEF Agree

-----------------------------------------------------------------------------
(* Shared experience.  What is Unshared belongs to no party, and the other parties go on
   with their people. *)

NoneShared == \A q \in Parties : ~Exists(group, q) => sharing[q] = Unshared

(* In g, party r has the people it has in group. *)
Kept(g, r) ==
  Exists(g, r) => /\ g.leader[r] = group.leader[r] /\ g.members[r] = group.members[r]
                  /\ ~CanDisband(g, r)

Earned(g, q, s) ==
  /\ s.points \subseteq People(g, q)
  /\ s.active /\ s.enabled => g.members[q] # <<>> /\ People(g, q) \subseteq s.points

LEMMA EarnedIsSharersEarned ==
  /\ SharersEarned <=> \A q \in Parties : Exists(group, q) => Earned(group, q, sharing[q])
  /\ SharersEarned' <=> \A q \in Parties : Exists(group', q) => Earned(group', q, sharing'[q])
BY DEF SharersEarned, Earned, Exists, People, Members

LEMMA KeptIsEarned ==
  ASSUME SharersEarned, NEW g, NEW r \in Parties, Kept(g, r), Exists(g, r)
  PROVE  Exists(group, r) /\ Earned(g, r, sharing[r])
<1>1. Exists(group, r) /\ People(g, r) = People(group, r) /\ g.members[r] = group.members[r]
  BY DEF Kept, Exists, People, Members
<1>2. Earned(group, r, sharing[r])
  BY <1>1, EarnedIsSharersEarned
<1>. QED BY <1>1, <1>2 DEF Earned

LEMMA SameShares ==
  ASSUME TypeOK, SharersEarned, NoneShared, NEW g,
         \A r \in Parties : Kept(g, r) \/ (~Exists(group, r) /\ ~CanDisband(g, r)),
         Same(g)
  PROVE  NoneAlone' /\ SharersEarned' /\ NoneShared'
<1>1. /\ group' = g
      /\ \A r \in Parties : sharing'[r] = IF Exists(g, r) THEN sharing[r] ELSE Unshared
  BY DEF Same
<1>2. ASSUME NEW r \in Parties, Exists(g, r) PROVE Earned(g, r, sharing[r])
  <2>1. CASE Exists(group, r)
    BY <2>1, <1>2, KeptIsEarned
  <2>2. CASE ~Exists(group, r)
    BY <2>2 DEF NoneShared, Unshared, Earned
  <2>. QED BY <2>1, <2>2
<1>3. \A r \in Parties : Exists(group', r) => Earned(group', r, sharing'[r])
  BY <1>1, <1>2
<1>4. ASSUME NEW r \in Parties, Exists(g, r) PROVE ~CanDisband(g, r)
  BY <1>4 DEF Kept
<1>5. NoneAlone'
  BY <1>1, <1>4 DEF NoneAlone, Exists, CanDisband
<1>6. NoneShared'
  BY <1>1 DEF NoneShared, Exists
<1>. QED BY <1>3, <1>5, <1>6, EarnedIsSharersEarned

LEMMA BecomesShares ==
  ASSUME TypeOK, SharersEarned, NoneShared, NEW g, NEW q \in Parties, NEW s \in Sharing,
         \A r \in Parties \ {q} : Kept(g, r),
         Exists(g, q) => ~CanDisband(g, q) /\ s.points \subseteq People(g, q),
         Becomes(g, q, s)
  PROVE  NoneAlone' /\ SharersEarned' /\ NoneShared'
<1>1. PICK new \in updateSharedExperience(s, g, q) :
        sharing' = [r \in Parties |-> IF ~Exists(g, r) THEN Unshared
                                      ELSE IF r = q THEN new ELSE sharing[r]]
  BY DEF Becomes
<1>2. group' = g
  BY DEF Becomes
<1>3. ASSUME Exists(g, q) PROVE Earned(g, q, new)
  <2>1. new.points = s.points /\ new.active = s.active
    BY <1>1 DEF updateSharedExperience, Sharing
  <2>2. s.active => new.enabled \in CanEnable(g, q, s.points)
    BY <1>1 DEF updateSharedExperience, Sharing
  <2>3. s.active /\ new.enabled => g.members[q] # <<>> /\ People(g, q) \subseteq s.points
    BY <2>2 DEF CanEnable
  <2>. QED BY <1>3, <2>1, <2>3 DEF Earned
<1>4. ASSUME NEW r \in Parties, Exists(g, r) PROVE Earned(g, r, sharing'[r]) /\ ~CanDisband(g, r)
  <2>1. CASE r = q
    BY <2>1, <1>1, <1>3, <1>4
  <2>2. CASE r # q
    <3>1. sharing'[r] = sharing[r] /\ Kept(g, r)
      BY <2>2, <1>1, <1>4
    <3>. QED BY <3>1, <1>4, KeptIsEarned DEF Kept
  <2>. QED BY <2>1, <2>2
<1>5. NoneAlone'
  BY <1>2, <1>4 DEF NoneAlone, Exists, CanDisband
<1>6. NoneShared'
  BY <1>1, <1>2 DEF NoneShared, Exists
<1>7. \A r \in Parties : Exists(group', r) => Earned(group', r, sharing'[r])
  BY <1>2, <1>4
<1>. QED BY <1>5, <1>6, <1>7, EarnedIsSharersEarned

-----------------------------------------------------------------------------
(* The invariant, and the steps. *)

PartyInv == TypeOK /\ Agree(group, online) /\ NoneAlone /\ SharersEarned /\ NoneShared

LEMMA GroupKept ==
  ASSUME PartyInv
  PROVE  \A r \in Parties : Kept(group, r)
BY DEF PartyInv, NoneAlone, Kept

LEMMA ClearedAgrees ==
  ASSUME PartyInv, NEW p \in Players, NEW set \in SUBSET Parties
  PROVE  LET h == RemoveInvites(group, set, p)
         IN  /\ Agree(h, online) /\ \A r \in Parties : Kept(h, r)
             /\ h.invitations[p] = group.invitations[p] \ set
<1>1. \A r \in Parties : Exists(group, r) => ~CanDisband(group, r)
  BY DEF PartyInv, NoneAlone
<1>. DEFINE h == RemoveInvites(group, set, p)
<1>2. /\ Agree(h, online)
      /\ h.invitations[p] = group.invitations[p] \ set
      /\ \A r \in Parties : Exists(h, r) =>
           /\ h.leader[r] = group.leader[r] /\ h.members[r] = group.members[r]
           /\ ~CanDisband(group, r) => ~CanDisband(h, r)
  BY RemoveInvitesAgrees DEF PartyInv
<1>. HIDE DEF h
<1>3. ASSUME NEW r \in Parties PROVE Kept(h, r)
  BY <1>1, <1>2 DEF Kept, Exists
<1>. QED BY <1>2, <1>3 DEF h

(* p leaves his party in g, which group becomes when invitations are dropped. *)
LEMMA LeavePartyAgrees ==
  ASSUME PartyInv, NEW g, Agree(g, online), \A r \in Parties : Kept(g, r),
         NEW p \in Players, NEW refused, LeaveParty(g, p, refused)
  PROVE  /\ Agree(group', online) /\ NoneAlone' /\ SharersEarned' /\ NoneShared'
         /\ p \notin refused => group'.party[p] = Null
         /\ group'.invitations[p] \subseteq g.invitations[p]
<1>0. TypeOK /\ SharersEarned /\ NoneShared /\ g \in Groups
  BY DEF PartyInv, Agree
<1>1. ASSUME Same(g), p \notin refused => g.party[p] = Null
      PROVE  /\ Agree(group', online) /\ NoneAlone' /\ SharersEarned' /\ NoneShared'
             /\ p \notin refused => group'.party[p] = Null
             /\ group'.invitations[p] \subseteq g.invitations[p]
  <2>1. group' = g
    BY <1>1 DEF Same
  <2>. QED BY <2>1, <1>0, <1>1, SameShares
<1>2. ASSUME NEW q \in Parties, g.party[p] = q, Becomes(Leave(g, p), q, ClearPoints(sharing[q], p))
      PROVE  /\ Agree(group', online) /\ NoneAlone' /\ SharersEarned' /\ NoneShared'
             /\ p \notin refused => group'.party[p] = Null
             /\ group'.invitations[p] \subseteq g.invitations[p]
  <2>. DEFINE h == Leave(g, p)
              s == ClearPoints(sharing[q], p)
  <2>1. group' = h
    BY <1>2 DEF Becomes
  <2>2. /\ Agree(h, online)
        /\ h.party[p] = Null /\ h.invitations[p] \subseteq g.invitations[p]
        /\ Exists(h, q) => ~CanDisband(h, q) /\ People(h, q) = People(g, q) \ {p}
        /\ \A r \in Parties \ {q} : /\ h.leader[r] = g.leader[r]
                                    /\ h.members[r] = g.members[r]
                                    /\ h.invited[r] = g.invited[r]
    BY <1>2, LeaveAgrees
  <2>3. s \in Sharing /\ s.points = sharing[q].points \ {p}
    BY <1>0 DEF TypeOK, Sharing, ClearPoints
  <2>. HIDE DEF h, s
  <2>4. ASSUME NEW r \in Parties \ {q} PROVE Kept(h, r)
    <3>1. Kept(g, r)
      OBVIOUS
    <3>. QED BY <3>1, <2>2 DEF Kept, Exists, CanDisband
  <2>5. Exists(g, q)
    BY <1>0, <1>2 DEF Agree, PartyAgrees
  <2>6. sharing[q].points \subseteq People(g, q)
    BY <2>5, <1>0, KeptIsEarned DEF Earned
  <2>7. Exists(h, q) => ~CanDisband(h, q) /\ s.points \subseteq People(h, q)
    BY <2>2, <2>3, <2>6
  <2>8. Becomes(h, q, s)
    BY <1>2 DEF h, s
  <2>9. NoneAlone' /\ SharersEarned' /\ NoneShared'
    BY <1>0, <2>3, <2>4, <2>7, <2>8, BecomesShares
  <2>. QED BY <2>1, <2>2, <2>9
<1>3. CASE g.party[p] = Null
  BY <1>1, <1>3 DEF LeaveParty
<1>4. CASE g.party[p] # Null
  <2>1. PICK q \in Parties : g.party[p] = q
    BY <1>0, <1>4 DEF Groups
  <2>2. \/ Becomes(Leave(g, p), q, ClearPoints(sharing[q], p))
        \/ p \in refused /\ Same(g)
    BY <2>1, <1>4 DEF LeaveParty
  <2>. QED BY <2>1, <2>2, <1>1, <1>2
<1>. QED BY <1>3, <1>4

LEMMA StepAgrees ==
  ASSUME PartyInv, Killed = {}, [Next]_vars
  PROVE  PartyInv'
<1>0. /\ TypeOK /\ SharersEarned /\ NoneShared /\ Agree(group, online)
      /\ \A r \in Parties : Kept(group, r)
      /\ TypeOK'
      /\ group \in Groups /\ online \subseteq Players
      /\ \A r \in Parties : PartyAgrees(group, online, r)
      /\ Null \notin Parties
  BY GroupKept, StepTypes, PartyAssumption DEF PartyInv, Agree
<1>01. /\ group.party \in [Players -> Parties \cup {Null}]
       /\ group.invitations \in [Players -> SUBSET Parties]
       /\ group.leader \in [Parties -> Players \cup {Null}]
       /\ group.invited \in [Parties -> SUBSET Players]
  BY <1>0 DEF Groups
<1>1. ASSUME NEW p \in Players, NEW x \in Players, playerInviteToParty(p, x)
      PROVE  PartyInv'
  <2>1. /\ p \in online /\ x \in online
        /\ x = p => p \in SelfInviters
        /\ group.party[x] = Null /\ online' = online
    BY <1>1 DEF playerInviteToParty
  <2>2. ASSUME NEW q \in Parties, NEW h, Same(h),
               h = Invited(group, p, q, x),
               \/ group.party[p] = Null /\ ~Exists(group, q)
               \/ group.party[p] = q /\ group.leader[q] = p
        PROVE  PartyInv'
    <3>1. /\ Agree(h, online) /\ h.members = group.members /\ h.leader[q] = p
          /\ x \in h.invited[q]
          /\ \A r \in Parties \ {q} : h.leader[r] = group.leader[r] /\ h.invited[r] = group.invited[r]
      BY <2>1, <2>2, <1>0, InviteAgrees
    <3>2. ~CanDisband(h, q)
      BY <3>1 DEF CanDisband
    <3>3. ASSUME NEW r \in Parties PROVE Kept(h, r) \/ (~Exists(group, r) /\ ~CanDisband(h, r))
      <4>1. CASE r = q
        BY <4>1, <3>1, <3>2, <2>2 DEF Kept
      <4>2. CASE r # q
        BY <4>2, <3>1, <1>0 DEF Kept, Exists, CanDisband
      <4>. QED BY <4>1, <4>2
    <3>4. NoneAlone' /\ SharersEarned' /\ NoneShared'
      BY <3>3, <2>2, <1>0, SameShares
    <3>5. group' = h
      BY <2>2 DEF Same
    <3>. QED BY <3>1, <3>4, <3>5, <2>1, <1>0 DEF PartyInv
  <2>3. ASSUME NEW q \in Parties, group.party[p] = Null, ~Exists(group, q),
               Same([group EXCEPT !.leader[q] = p, !.party[p] = q,
                                  !.invited[q] = {x}, !.invitations[x] = @ \cup {q}])
        PROVE  PartyInv'
    <3>1. group.invited[q] = {}
      BY <2>3, <1>0 DEF PartyAgrees
    <3>2. [group EXCEPT !.leader[q] = p, !.party[p] = q,
                        !.invited[q] = {x}, !.invitations[x] = @ \cup {q}]
            = Invited(group, p, q, x)
      BY <3>1, <1>0, <1>01 DEF Groups, Invited
    <3>. QED BY <3>2, <2>2, <2>3
  <2>4. ASSUME Leads(group, p),
               Same([group EXCEPT !.invited[group.party[p]] = @ \cup {x},
                                  !.invitations[x] = @ \cup {group.party[p]}])
        PROVE  PartyInv'
    <3>1. PICK q \in Parties : group.party[p] = q /\ group.leader[q] = p
      BY <2>4, <1>01 DEF Leads
    <3>. DEFINE f == [group EXCEPT !.leader[q] = p, !.party[p] = q]
    <3>2. f = group
      BY <3>1, <1>0 DEF Groups
    <3>3. Invited(group, p, q, x) = [f EXCEPT !.invited[q] = @ \cup {x},
                                              !.invitations[x] = @ \cup {q}]
      BY DEF Invited
    <3>. HIDE DEF f
    <3>4. Same(Invited(group, p, q, x))
      BY <3>1, <3>2, <3>3, <2>4
    <3>. QED BY <3>1, <3>4, <2>2
  <2>. QED BY <1>1, <2>3, <2>4 DEF playerInviteToParty
<1>2. ASSUME NEW p \in Players, NEW l \in Players, playerJoinParty(p, l)
      PROVE  PartyInv'
  <2>1. PICK q \in Parties : group.party[l] = q /\ group.leader[q] = l /\ p \in group.invited[q]
    BY <1>2, <1>01 DEF playerJoinParty, isInviting, Leads
  <2>. DEFINE h == Joined(group, p, q)
  <2>2. Exists(group, q) /\ group.party[p] = Null /\ online' = online
    BY <1>2, <2>1, PartyAssumption DEF Exists, playerJoinParty
  <2>3. /\ Agree(h, online) /\ h.leader = group.leader /\ h.members[q] # <<>>
        /\ People(h, q) = People(group, q) \cup {p}
        /\ \A r \in Parties \ {q} : /\ h.members[r] = group.members[r]
                                    /\ h.invited[r] = group.invited[r]
    BY <2>1, <2>2, <1>0, JoinAgrees
  <2>4. Becomes(h, q, sharing[q])
    BY <1>2, <2>1 DEF playerJoinParty, Joined
  <2>. HIDE DEF h
  <2>5. sharing[q] \in Sharing /\ sharing[q].points \subseteq People(group, q)
    BY <2>2, <1>0, KeptIsEarned DEF Earned, TypeOK
  <2>6. \A r \in Parties \ {q} : Kept(h, r)
    BY <2>3, <1>0 DEF Kept, Exists, CanDisband
  <2>7. ~CanDisband(h, q) /\ sharing[q].points \subseteq People(h, q)
    BY <2>3, <2>5 DEF CanDisband
  <2>8. NoneAlone' /\ SharersEarned' /\ NoneShared' /\ group' = h
    BY <2>4, <2>5, <2>6, <2>7, <1>0, BecomesShares DEF Becomes
  <2>. QED BY <2>2, <2>3, <2>8, <1>0 DEF PartyInv
<1>3. ASSUME NEW p \in Players, NEW x \in Players, playerRevokePartyInvitation(p, x)
      PROVE  PartyInv'
  <2>. DEFINE h == RemoveInvites(group, {group.party[p]}, x)
  <2>1. {group.party[p]} \in SUBSET Parties
    BY <1>3, <1>01 DEF playerRevokePartyInvitation, isInviting, Leads
  <2>2. Agree(h, online) /\ \A r \in Parties : Kept(h, r)
    BY <2>1, ClearedAgrees
  <2>3. Same(h) /\ online' = online
    BY <1>3 DEF playerRevokePartyInvitation
  <2>. HIDE DEF h
  <2>4. NoneAlone' /\ SharersEarned' /\ NoneShared' /\ group' = h
    BY <2>2, <2>3, <1>0, SameShares DEF Same
  <2>. QED BY <2>2, <2>3, <2>4, <1>0 DEF PartyInv
<1>4. ASSUME NEW p \in Players, NEW x \in Players, playerPassPartyLeadership(p, x)
      PROVE  PartyInv'
  <2>1. PICK q \in Parties : group.party[p] = q /\ group.leader[q] = p /\ x \in Members(group, q)
    BY <1>4, <1>01 DEF playerPassPartyLeadership, Leads
  <2>. DEFINE h == PassLeadership(group, q, x)
  <2>2. /\ Agree(h, online) /\ h.invited = group.invited
        /\ h.members[q] # <<>> /\ People(h, q) = People(group, q)
        /\ \A r \in Parties \ {q} : /\ h.leader[r] = group.leader[r]
                                    /\ h.members[r] = group.members[r]
    BY <2>1, <1>0, PassLeadershipAgrees
  <2>3. Becomes(h, q, sharing[q]) /\ online' = online
    BY <1>4, <2>1 DEF playerPassPartyLeadership
  <2>4. Exists(group, q)
    BY <2>1, PartyAssumption DEF Exists
  <2>. HIDE DEF h
  <2>5. sharing[q] \in Sharing /\ sharing[q].points \subseteq People(group, q)
    BY <2>4, <1>0, KeptIsEarned DEF Earned, TypeOK
  <2>6. \A r \in Parties \ {q} : Kept(h, r)
    BY <2>2, <1>0 DEF Kept, Exists, CanDisband
  <2>7. ~CanDisband(h, q) /\ sharing[q].points \subseteq People(h, q)
    BY <2>2, <2>5 DEF CanDisband
  <2>8. NoneAlone' /\ SharersEarned' /\ NoneShared' /\ group' = h
    BY <2>3, <2>5, <2>6, <2>7, <1>0, BecomesShares DEF Becomes
  <2>. QED BY <2>2, <2>3, <2>8, <1>0 DEF PartyInv
<1>5. ASSUME NEW p \in Players, playerLeaveParty(p) PROVE PartyInv'
  BY <1>0, <1>5, LeavePartyAgrees DEF playerLeaveParty, PartyInv
<1>6. ASSUME NEW p \in Players
      PROVE  LET h == clearPartyInvitations(group, p)
             IN  /\ Agree(h, online) /\ \A r \in Parties : Kept(h, r)
                 /\ h.invitations[p] = {}
  <2>1. group.invitations[p] \in SUBSET Parties
    BY <1>01
  <2>. QED BY <2>1, ClearedAgrees DEF clearPartyInvitations
<1>7. ASSUME NEW p \in Players, Vanish(p) PROVE PartyInv'
  BY <1>0, <1>6, <1>7, LeavePartyAgrees DEF Vanish, PartyInv
<1>8. ASSUME NEW p \in Players, Disappear(p) PROVE PartyInv'
  <2>. DEFINE h == clearPartyInvitations(group, p)
  <2>1. /\ Agree(h, online) /\ h.invitations[p] = {}
        /\ \A r \in Parties : Kept(h, r)
        /\ LeaveParty(h, p, Killed) /\ online' = online \ {p}
    BY <1>6, <1>8 DEF Disappear
  <2>. HIDE DEF h
  <2>2. /\ Agree(group', online) /\ NoneAlone' /\ SharersEarned' /\ NoneShared'
        /\ group'.party[p] = Null /\ group'.invitations[p] = {}
    <3>1. p \notin Killed
      OBVIOUS
    <3>. QED BY <2>1, <3>1, LeavePartyAgrees
  <2>3. Agree(group', online')
    BY <2>1, <2>2, OnlineAgrees
  <2>. QED BY <2>2, <2>3, <1>0 DEF PartyInv
<1>9. ASSUME NEW p \in Players, Appear(p) PROVE PartyInv'
  <2>1. /\ p \notin online /\ online' = online \cup {p} /\ sharing' = sharing
        /\ group' = Fresh(group, p)
    BY <1>9 DEF Appear, Fresh
  <2>2. /\ Agree(group', online')
        /\ group'.leader = group.leader /\ group'.members = group.members
        /\ group'.invited = group.invited
    BY <2>1, <1>0, OnlineAgrees
  <2>3. NoneAlone' /\ SharersEarned' /\ NoneShared'
    BY <2>1, <2>2 DEF PartyInv, NoneAlone, SharersEarned, NoneShared, Exists, CanDisband, People,
                      Members
  <2>. QED BY <2>2, <2>3, <1>0 DEF PartyInv
<1>10. ASSUME NEW p \in Players, \/ \E on \in BOOLEAN : setSharedExperience(p, on)
                                 \/ Deserve(p) \/ onIdleStatus(p) \/ onCreatureMove(p)
       PROVE  PartyInv'
  <2>1. PICK q \in Parties : group.party[p] = q
    BY <1>01, <1>10 DEF setSharedExperience, Leads, Deserve, onIdleStatus, onCreatureMove
  <2>2. Exists(group, q) /\ p \in People(group, q)
    BY <2>1, <1>0 DEF PartyAgrees
  <2>3. sharing[q] \in Sharing /\ sharing[q].points \subseteq People(group, q)
    BY <2>2, <1>0, KeptIsEarned DEF Earned, TypeOK
  <2>4. /\ ClearPoints(sharing[q], p) \in Sharing
        /\ ClearPoints(sharing[q], p).points \subseteq People(group, q)
    BY <2>3 DEF Sharing, ClearPoints
  <2>5. LET s == [sharing[q] EXCEPT !.points = @ \cup {p}]
        IN  s \in Sharing /\ s.points \subseteq People(group, q)
    BY <2>2, <2>3 DEF Sharing
  <2>6. ASSUME NEW on \in BOOLEAN
        PROVE  LET s == [sharing[q] EXCEPT !.active = on]
               IN  s \in Sharing /\ s.points \subseteq People(group, q)
    BY <2>3 DEF Sharing
  <2>7. \E s \in Sharing : s.points \subseteq People(group, q) /\ Becomes(group, q, s)
    BY <1>10, <2>1, <2>3, <2>4, <2>5, <2>6
       DEF setSharedExperience, Deserve, onIdleStatus, onCreatureMove
  <2>8. online' = online /\ group' = group
    BY <1>10, <2>7 DEF setSharedExperience, Deserve, onIdleStatus, onCreatureMove, Becomes
  <2>9. ~CanDisband(group, q)
    BY <2>2, <1>0 DEF Kept
  <2>10. NoneAlone' /\ SharersEarned' /\ NoneShared'
    BY <2>7, <2>9, <1>0, BecomesShares
  <2>. QED BY <2>8, <2>10, <1>0 DEF PartyInv
<1>11. CASE \/ UNCHANGED vars
            \/ \E p \in Players : getChannelList(p) \/ playerOpenChannel(p) \/ playerCloseChannel(p)
  <2>1. online' = online /\ group' = group /\ sharing' = sharing
    BY <1>11 DEF vars, getChannelList, playerOpenChannel, playerCloseChannel
  <2>. QED BY <2>1, <1>0 DEF PartyInv, NoneAlone, SharersEarned, NoneShared
<1>. QED
  BY <1>1, <1>2, <1>3, <1>4, <1>5, <1>7, <1>8, <1>9, <1>10, <1>11, Zenon DEF Next

LEMMA InitAgrees ==
  ASSUME Init
  PROVE  PartyInv
<1>1. TypeOK
  BY TypesInit
<1>2. ASSUME NEW q \in Parties PROVE PartyAgrees(group, online, q)
  BY PartyAssumption DEF Init, PartyAgrees, Exists, Members, People, Once
<1>3. Agree(group, online)
  BY <1>1, <1>2 DEF Agree, TypeOK
<1>4. \A q \in Parties : ~Exists(group, q) /\ sharing[q] = Unshared
  BY DEF Init, Exists
<1>. QED BY <1>1, <1>3, <1>4 DEF PartyInv, NoneAlone, SharersEarned, NoneShared

(* When nobody is killed in a dungeon, PartyInv always holds. *)
THEOREM PartyInvariant ==
  ASSUME Killed = {}
  PROVE  Spec => []PartyInv
<1>1. Init => PartyInv
  BY InitAgrees
<1>2. PartyInv /\ [Next]_vars => PartyInv'
  BY StepAgrees
<1>. QED BY <1>1, <1>2, PTL DEF Spec

(* The bare pointers between players and parties agree in both directions, for any players
   and parties; the invitations that a player keeps of a party that was his own are the only
   ones that may be out of date. *)
THEOREM PointersAgree ==
  ASSUME Killed = {}
  PROVE  Spec => []PartiesAgree
<1>1. PartyInv => PartiesAgree
  BY AgreeIsPartiesAgree DEF PartyInv
<1>. QED BY <1>1, PartyInvariant, PTL

(* No party is left with its leader alone and nobody invited. *)
THEOREM NoLeaderAlone ==
  ASSUME Killed = {}
  PROVE  Spec => []NoneAlone
<1>1. PartyInv => NoneAlone
  BY DEF PartyInv
<1>. QED BY <1>1, PartyInvariant, PTL

(* Experience is shared among people who have points. *)
THEOREM ShareIsEarned ==
  ASSUME Killed = {}
  PROVE  Spec => []SharersEarned
<1>1. PartyInv => SharersEarned
  BY DEF PartyInv
<1>. QED BY <1>1, PartyInvariant, PTL

(* Nobody who has left the game is among the users of a party channel, whoever is killed
   where and whoever invites himself. *)
THEOREM UsersLive == Spec => []ChannelUsersLive
<1>1. Init => ChannelUsersLive
  BY DEF Init, ChannelUsersLive
<1>2. TypeOK /\ ChannelUsersLive /\ [Next]_vars => ChannelUsersLive'
  <2>. SUFFICES ASSUME TypeOK, ChannelUsersLive, [Next]_vars PROVE ChannelUsersLive'
    OBVIOUS
  <2>. USE DEF TypeOK, ChannelUsersLive
  <2>1. ASSUME NEW p \in Players, Appear(p) PROVE ChannelUsersLive'
    BY <2>1 DEF Appear
  <2>2. ASSUME NEW p \in Players, Disappear(p) PROVE ChannelUsersLive'
    BY <2>2 DEF Disappear, RemoveUserFromAllChannels
  <2>3. ASSUME NEW p \in Players,
               getChannelList(p) \/ playerOpenChannel(p) \/ playerCloseChannel(p)
        PROVE  ChannelUsersLive'
    BY <2>3 DEF getChannelList, playerOpenChannel, playerCloseChannel
  <2>4. ASSUME NEW p \in Players, \/ Vanish(p) \/ playerLeaveParty(p)
                                  \/ \E on \in BOOLEAN : setSharedExperience(p, on)
                                  \/ Deserve(p) \/ onIdleStatus(p) \/ onCreatureMove(p)
        PROVE  ChannelUsersLive'
    BY <2>4 DEF Vanish, playerLeaveParty, setSharedExperience, Deserve, onIdleStatus,
                onCreatureMove
  <2>5. ASSUME NEW p \in Players, NEW x \in Players,
               \/ playerInviteToParty(p, x) \/ playerJoinParty(p, x)
               \/ playerRevokePartyInvitation(p, x) \/ playerPassPartyLeadership(p, x)
        PROVE  ChannelUsersLive'
    BY <2>5 DEF playerInviteToParty, playerJoinParty, playerRevokePartyInvitation,
                playerPassPartyLeadership
  <2>6. CASE UNCHANGED vars
    BY <2>6 DEF vars
  <2>. QED BY <2>1, <2>2, <2>3, <2>4, <2>5, <2>6, Zenon DEF Next
<1>. QED BY <1>1, <1>2, TypeCorrect, PTL DEF Spec
=============================================================================
