------------------------------- MODULE TradeProofs -------------------------------
(***************************************************************************)
(* What Trade guarantees for any players and items on a row of any length: *)
(* types; that the fields of two partners and the map of items agree; that *)
(* what is offered is within the reach of who offers it; and that nothing  *)
(* happens to it, or in it, or around it, as long as it is offered.  The   *)
(* first two are shown of the trades alone.  The others turn on what lies  *)
(* in what: no container is in itself, and what somebody is told of is     *)
(* where the thing is that he offers.                                      *)
(***************************************************************************)
EXTENDS Trade, TLAPS

(* PartnersAgree of the values t of trade, off of offered and ps of pos. *)
Paired(t, off, ps) ==
  /\ \A p \in Players :
       /\ t.partner[p] = Null <=> t.state[p] = "NONE"
       /\ t.state[p] \in {"NONE", "ACKNOWLEDGE"} => t.item[p] = Null
       /\ t.state[p] = "INITIATED" => t.item[p] # Null
       /\ t.partner[p] # Null =>
            /\ t.partner[t.partner[p]] = p /\ t.partner[p] # p /\ ps[p] # Null
            /\ t.item[p] # Null \/ t.item[t.partner[p]] # Null
            /\ areInRange(3, ps[p], ps[t.partner[p]])
  /\ \A i \in Items, p \in Players : off[i] = p <=> t.item[p] = i

DeedsKept == \A d \in Deeds : place[d] = offered[d]

TradeInv == TypeOK /\ Paired(trade, offered, pos) /\ DeedsKept

Places == Players \cup Bags \cup Tiles \cup {Null}

LEMMA PairedIsPartnersAgree == Paired(trade, offered, pos) => PartnersAgree
BY DEF Paired, PartnersAgree, online

LEMMA Disjoint ==
  /\ Null \notin Players /\ Null \notin Items /\ Null \notin Tiles
  /\ Players \cap Items = {} /\ Players \cap Bags = {} /\ Bags \subseteq Items
  /\ Deeds \subseteq Items /\ Deeds \cap Bags = {} /\ Deeds \cap Stacks = {}
  /\ Null \notin Bags /\ Tiles \subseteq Int
BY TradeAssumption DEF Tiles

LEMMA TradeTypes ==
  ASSUME TypeOK
  PROVE  /\ trade.state \in [Players -> States]
         /\ trade.partner \in [Players -> Players \cup {Null}]
         /\ trade.item \in [Players -> Items \cup {Null}]
         /\ trade = [state |-> trade.state, partner |-> trade.partner, item |-> trade.item]
         /\ {"NONE", "INITIATED", "ACCEPT", "ACKNOWLEDGE"} = States
BY DEF TypeOK, Trades, States

-----------------------------------------------------------------------------
(* Ending trades.  Who is in a set of players that has the partners of its players. *)

Closed(who) == \A q \in who : trade.partner[q] \in who \cup {Null}

LEMMA BothIsClosed ==
  ASSUME TypeOK, Paired(trade, offered, pos), NEW S \in SUBSET Players
  PROVE  Both(S) \in SUBSET Players /\ Closed(Both(S)) /\ S \subseteq Both(S)
<1>1. \A q \in S : trade.partner[q] \in Players \cup {Null}
  BY TradeTypes
<1>2. Both(S) \in SUBSET Players /\ S \subseteq Both(S)
  BY <1>1 DEF Both
<1>3. ASSUME NEW q \in Both(S) PROVE trade.partner[q] \in Both(S) \cup {Null}
  <2>1. CASE q \in S
    BY <2>1 DEF Both
  <2>2. CASE q \notin S
    <3>1. PICK r \in S : q = trade.partner[r] /\ q # Null
      BY <2>2 DEF Both
    <3>2. trade.partner[q] = r
      BY <3>1 DEF Paired
    <3>. QED BY <3>1, <3>2, <1>2
  <2>. QED BY <2>1, <2>2
<1>. QED BY <1>2, <1>3 DEF Closed

LEMMA EndsAgree ==
  ASSUME TradeInv, NEW who \in SUBSET Players, Closed(who), NEW places, Ends(who, places),
         \A i \in Items : places[i] \in Places,
         \A d \in Deeds : d \notin Released(who) => places[d] = place[d],
         NEW ps,
         \A p \in Players \ who : trade.partner[p] # Null =>
           ps[p] # Null /\ areInRange(3, ps[p], ps[trade.partner[p]])
  PROVE  /\ Paired(trade', offered', ps) /\ DeedsKept'
         /\ trade' \in Trades /\ offered' \in [Items -> Players \cup {Null}]
         /\ place' \in [Items -> Places] /\ parented' \subseteq Players
<1>0. TypeOK /\ Paired(trade, offered, pos) /\ DeedsKept
  BY DEF TradeInv
<1>1. /\ trade' = NoTrade(who)
      /\ offered' = [i \in Items |-> IF i \in Released(who) THEN Null ELSE offered[i]]
      /\ place' = [i \in Items |-> IF i \in Released(who) \cap Deeds THEN Null ELSE places[i]]
      /\ parented' \subseteq parented
  BY DEF Ends
<1>2. \A p \in Players :
        /\ trade'.state[p] = IF p \in who THEN "NONE" ELSE trade.state[p]
        /\ trade'.partner[p] = IF p \in who THEN Null ELSE trade.partner[p]
        /\ trade'.item[p] = IF p \in who THEN Null ELSE trade.item[p]
  BY <1>1 DEF NoTrade
<1>3. trade' \in Trades
  BY <1>0, <1>1, TradeTypes DEF NoTrade, Trades
<1>4. /\ offered' \in [Items -> Players \cup {Null}]
      /\ place' \in [Items -> Places] /\ parented' \subseteq Players
  BY <1>0, <1>1 DEF TypeOK, Places
<1>5. ASSUME NEW p \in Players
      PROVE  /\ trade'.partner[p] = Null <=> trade'.state[p] = "NONE"
             /\ trade'.state[p] \in {"NONE", "ACKNOWLEDGE"} => trade'.item[p] = Null
             /\ trade'.state[p] = "INITIATED" => trade'.item[p] # Null
             /\ trade'.partner[p] # Null =>
                  /\ trade'.partner[trade'.partner[p]] = p /\ trade'.partner[p] # p /\ ps[p] # Null
                  /\ trade'.item[p] # Null \/ trade'.item[trade'.partner[p]] # Null
                  /\ areInRange(3, ps[p], ps[trade'.partner[p]])
  <2>1. CASE p \in who
    BY <2>1, <1>2
  <2>2. CASE p \notin who
    <3>1. /\ trade'.state[p] = trade.state[p] /\ trade'.partner[p] = trade.partner[p]
          /\ trade'.item[p] = trade.item[p]
      BY <2>2, <1>2
    <3>2. ASSUME trade.partner[p] # Null
          PROVE  trade.partner[p] \in Players \ who
      <4>1. trade.partner[p] \in Players /\ trade.partner[trade.partner[p]] = p
        BY <3>2, <1>0, TradeTypes DEF Paired
      <4>. QED BY <4>1, <2>2, Disjoint DEF Closed
    <3>3. CASE trade.partner[p] = Null
      BY <3>1, <3>3, <1>0 DEF Paired
    <3>4. CASE trade.partner[p] # Null
      <4>1. PICK x \in Players \ who : trade.partner[p] = x
        BY <3>2, <3>4
      <4>2. trade'.partner[x] = trade.partner[x] /\ trade'.item[x] = trade.item[x]
        BY <1>2
      <4>3. ps[p] # Null /\ areInRange(3, ps[p], ps[x])
        BY <2>2, <3>4, <4>1
      <4>. QED BY <3>1, <3>4, <4>1, <4>2, <4>3, <1>0 DEF Paired
    <3>. QED BY <3>3, <3>4
  <2>. QED BY <2>1, <2>2
<1>6. ASSUME NEW i \in Items, NEW p \in Players PROVE offered'[i] = p <=> trade'.item[p] = i
  <2>1. \A q \in Players : offered[i] = q <=> trade.item[q] = i
    BY <1>0 DEF Paired
  <2>2. CASE i \in Released(who)
    <3>1. offered'[i] = Null
      BY <2>2, <1>1
    <3>2. PICK q \in who : trade.item[q] = i
      BY <2>2 DEF Released
    <3>3. trade.item[p] = i => p = q
      BY <2>1, <3>2
    <3>. QED BY <3>1, <3>2, <3>3, <1>2, Disjoint
  <2>3. CASE i \notin Released(who)
    <3>1. offered'[i] = offered[i]
      BY <2>3, <1>1
    <3>2. p \in who => trade.item[p] # i
      BY <2>3 DEF Released
    <3>. QED BY <3>1, <3>2, <2>1, <1>2, Disjoint
  <2>. QED BY <2>2, <2>3
<1>7. DeedsKept'
  BY <1>0, <1>1, Disjoint DEF DeedsKept
<1>8. Paired(trade', offered', ps)
  BY <1>5, <1>6 DEF Paired
<1>. QED BY <1>3, <1>4, <1>7, <1>8

LEMMA CloseAgrees ==
  ASSUME TradeInv, NEW S \in SUBSET Players, NEW places, internalCloseTrade(S, places),
         \A i \in Items : places[i] \in Places,
         \A d \in Deeds : d \notin Released(Both(S)) => places[d] = place[d],
         places = [i \in Items |-> places[i]],
         NEW ps,
         \A p \in Players \ Both(S) : trade.partner[p] # Null =>
           ps[p] # Null /\ areInRange(3, ps[p], ps[trade.partner[p]])
  PROVE  /\ Paired(trade', offered', ps) /\ DeedsKept'
         /\ trade' \in Trades /\ offered' \in [Items -> Players \cup {Null}]
         /\ place' \in [Items -> Places] /\ parented' \subseteq Players
<1>0. TypeOK /\ Paired(trade, offered, pos) /\ DeedsKept
  BY DEF TradeInv
<1>1. CASE S = {}
  <2>1. place' = places /\ trade' = trade /\ offered' = offered /\ parented' = parented
    BY <1>1 DEF internalCloseTrade
  <2>2. Both(S) = {} /\ Released(Both(S)) = {}
    BY <1>1 DEF Both, Released
  <2>3. place' \in [Items -> Places]
    BY <2>1
  <2>4. DeedsKept'
    BY <2>1, <2>2, <1>0 DEF DeedsKept
  <2>5. Paired(trade, offered, ps)
    <3>1. ASSUME NEW p \in Players, trade.partner[p] # Null
          PROVE  ps[p] # Null /\ areInRange(3, ps[p], ps[trade.partner[p]])
      BY <3>1, <2>2
    <3>. QED BY <3>1, <1>0 DEF Paired
  <2>. QED BY <2>1, <2>3, <2>4, <2>5, <1>0 DEF TypeOK
<1>2. CASE S # {}
  <2>1. Ends(Both(S), places)
    BY <1>2 DEF internalCloseTrade
  <2>2. Both(S) \in SUBSET Players /\ Closed(Both(S))
    BY <1>0, BothIsClosed
  <2>. QED BY <2>1, <2>2, EndsAgree
<1>. QED BY <1>1, <1>2

(* As long as nobody walks, who does not close his trade stays near his partner. *)
LEMMA NearAsBefore ==
  ASSUME TradeInv
  PROVE  \A p \in Players : trade.partner[p] # Null =>
           pos[p] # Null /\ areInRange(3, pos[p], pos[trade.partner[p]])
BY DEF TradeInv, Paired

LEMMA RangeIsSymmetric ==
  ASSUME NEW a \in Tiles \cup {Null}, NEW b \in Tiles \cup {Null},
         areInRange(2, a, b) \/ areInRange(3, a, b)
  PROVE  areInRange(3, a, b) /\ areInRange(3, b, a)
<1>1. a \in Int /\ b \in Int /\ a # Null /\ b # Null
  BY Disjoint DEF areInRange
<1>. QED BY <1>1 DEF areInRange

(* Whom the callbacks tell are players. *)
LEMMA ToldArePlayers ==
  ASSUME NEW i, NEW to
  PROVE  /\ Disturbed(i, to) \in SUBSET Players /\ onRemove(i) \in SUBSET Players
         /\ onAdd(to) \in SUBSET Players /\ onUpdate(i) \in SUBSET Players
BY DEF Disturbed, onRemove, onAdd, onUpdate, Offering, online

(* A deed lies in no container. *)
LEMMA DeedsLieAlone ==
  ASSUME TradeInv, NEW d \in Deeds
  PROVE  /\ d \in Items /\ place[d] \notin Bags /\ TopParent(d) = place[d]
         /\ \A b : ~isHoldingItem(b, d)
         /\ place[d] = offered[d] /\ place[d] \in Players \cup {Null}
<1>1. d \in Items /\ place[d] = offered[d] /\ offered[d] \in Players \cup {Null}
  BY Disjoint DEF TradeInv, DeedsKept, TypeOK
<1>2. place[d] \notin Bags
  BY <1>1, Disjoint
<1>. QED BY <1>1, <1>2 DEF TopParent, isHoldingItem, Above

-----------------------------------------------------------------------------
(* Starting a trade. *)

LEMMA StartAgrees ==
  ASSUME TradeInv, NEW p \in Players, NEW x \in Players, x # p, NEW i \in Items,
         pos[p] # Null, pos[x] # Null,
         areInRange(2, pos[x], pos[p]) \/ areInRange(3, pos[x], pos[p]),
         offered[i] = Null, internalStartTrade(p, x, i)
  PROVE  /\ Paired(trade', offered', pos) /\ trade' \in Trades
         /\ offered' \in [Items -> Players \cup {Null}]
         /\ offered' = [offered EXCEPT ![i] = p]
<1>0. TypeOK /\ Paired(trade, offered, pos)
  BY DEF TradeInv
<1>1. /\ trade' = [state |-> [trade.state EXCEPT ![p] = "INITIATED",
                                ![x] = IF @ = "NONE" THEN "ACKNOWLEDGE" ELSE @],
                   partner |-> [trade.partner EXCEPT ![p] = x, ![x] = p],
                   item |-> [trade.item EXCEPT ![p] = i]]
      /\ offered' = [offered EXCEPT ![i] = p]
      /\ MayStart(p, x)
  BY DEF internalStartTrade
<1>2. /\ trade'.state[p] = "INITIATED"
      /\ trade'.state[x] = IF trade.state[x] = "NONE" THEN "ACKNOWLEDGE" ELSE trade.state[x]
      /\ trade'.partner[p] = x /\ trade'.partner[x] = p
      /\ trade'.item[p] = i /\ trade'.item[x] = trade.item[x]
      /\ \A r \in Players \ {p, x} : /\ trade'.state[r] = trade.state[r]
                                     /\ trade'.partner[r] = trade.partner[r]
                                     /\ trade'.item[r] = trade.item[r]
  BY <1>0, <1>1, TradeTypes
<1>3. trade' \in Trades
  <2>1. /\ trade'.state \in [Players -> States]
        /\ trade'.partner \in [Players -> Players \cup {Null}]
        /\ trade'.item \in [Players -> Items \cup {Null}]
    BY <1>0, <1>1, TradeTypes
  <2>. QED BY <2>1, <1>1 DEF Trades
<1>4. /\ trade.item[p] = Null
      /\ trade.partner[p] \in {Null, x} /\ trade.partner[x] \in {Null, p}
  BY <1>0, <1>1 DEF MayStart, Paired
<1>5. areInRange(3, pos[p], pos[x]) /\ areInRange(3, pos[x], pos[p])
  BY <1>0, RangeIsSymmetric DEF TypeOK
<1>6. ASSUME NEW r \in Players
      PROVE  /\ trade'.partner[r] = Null <=> trade'.state[r] = "NONE"
             /\ trade'.state[r] \in {"NONE", "ACKNOWLEDGE"} => trade'.item[r] = Null
             /\ trade'.state[r] = "INITIATED" => trade'.item[r] # Null
             /\ trade'.partner[r] # Null =>
                  /\ trade'.partner[trade'.partner[r]] = r /\ trade'.partner[r] # r /\ pos[r] # Null
                  /\ trade'.item[r] # Null \/ trade'.item[trade'.partner[r]] # Null
                  /\ areInRange(3, pos[r], pos[trade'.partner[r]])
  <2>1. CASE r = p
    BY <2>1, <1>2, <1>5, Disjoint
  <2>2. CASE r = x
    <3>1. /\ trade.state[x] = "NONE" => trade.item[x] = Null
          /\ trade.state[x] = "ACKNOWLEDGE" => trade.item[x] = Null
          /\ trade.state[x] = "INITIATED" => trade.item[x] # Null
      BY <1>0 DEF Paired
    <3>. QED BY <2>2, <3>1, <1>2, <1>5, Disjoint
  <2>3. CASE r \notin {p, x}
    <3>1. trade.partner[r] \notin {p, x}
      BY <2>3, <1>4, <1>0, Disjoint DEF Paired
    <3>2. CASE trade.partner[r] = Null
      BY <2>3, <3>2, <1>0, <1>2 DEF Paired
    <3>3. CASE trade.partner[r] # Null
      <4>1. PICK y \in Players \ {p, x} : trade.partner[r] = y
        BY <3>1, <3>3, <1>0, TradeTypes
      <4>. QED BY <2>3, <4>1, <3>3, <1>0, <1>2 DEF Paired
    <3>. QED BY <3>2, <3>3
  <2>. QED BY <2>1, <2>2, <2>3
<1>7. ASSUME NEW j \in Items, NEW r \in Players PROVE offered'[j] = r <=> trade'.item[r] = j
  <2>1. offered[j] = r <=> trade.item[r] = j
    BY <1>0 DEF Paired
  <2>2. offered'[j] = IF j = i THEN p ELSE offered[j]
    BY <1>0, <1>1 DEF TypeOK
  <2>3. trade'.item[r] = IF r = p THEN i ELSE trade.item[r]
    BY <1>2
  <2>4. trade.item[r] = i => offered[i] = r
    BY <1>0 DEF Paired
  <2>. QED BY <2>1, <2>2, <2>3, <2>4, <1>4, Disjoint
<1>8. offered' \in [Items -> Players \cup {Null}]
  BY <1>0, <1>1 DEF TypeOK
<1>9. Paired(trade', offered', pos)
  BY <1>6, <1>7 DEF Paired
<1>. QED BY <1>1, <1>3, <1>8, <1>9

-----------------------------------------------------------------------------
(* The steps. *)

(* What moves an item, takes it away or puts it there. *)
LEMMA ItemStepAgrees ==
  ASSUME TradeInv, NEW S \in SUBSET Players, NEW places, internalCloseTrade(S, places),
         pos' = pos, amount' \in [Items -> 1 .. 2],
         places = [i \in Items |-> places[i]],
         \A i \in Items : places[i] \in Places,
         \A d \in Deeds : d \notin Released(Both(S)) => places[d] = place[d]
  PROVE  TradeInv'
<1>1. \A p \in Players \ Both(S) : trade.partner[p] # Null =>
        pos[p] # Null /\ areInRange(3, pos[p], pos[trade.partner[p]])
  BY NearAsBefore
<1>2. /\ Paired(trade', offered', pos) /\ DeedsKept'
      /\ trade' \in Trades /\ offered' \in [Items -> Players \cup {Null}]
      /\ place' \in [Items -> Places] /\ parented' \subseteq Players
  BY <1>1, CloseAgrees
<1>. QED BY <1>2 DEF TradeInv, TypeOK, Places

LEMMA MovesAgree ==
  ASSUME TradeInv, NEW i \in Items
  PROVE  /\ \A to \in Players \cup Bags \cup Tiles :
              internalMoveItem(i, to) \/ internalAddItem(i, to) => TradeInv'
         /\ internalRemoveItem(i) \/ updateThing(i) => TradeInv'
<1>0. /\ TypeOK /\ place \in [Items -> Places] /\ amount \in [Items -> 1 .. 2]
      /\ Null \in Places
  BY DEF TradeInv, TypeOK, Places
<1>1. ASSUME NEW to \in Players \cup Bags \cup Tiles, internalMoveItem(i, to)
      PROVE  TradeInv'
  <2>. DEFINE places == [place EXCEPT ![i] = to]
  <2>1. /\ places = [j \in Items |-> places[j]]
        /\ \A j \in Items : places[j] \in Places
        /\ \A d \in Deeds : places[d] = place[d]
    BY <1>0, <1>1, Disjoint DEF internalMoveItem, Places
  <2>2. internalCloseTrade(Disturbed(i, to), places) /\ pos' = pos /\ amount' = amount
    BY <1>1 DEF internalMoveItem
  <2>. HIDE DEF places
  <2>. QED BY <2>1, <2>2, <1>0, ToldArePlayers, ItemStepAgrees
<1>2. ASSUME NEW to \in Players \cup Bags \cup Tiles, internalAddItem(i, to)
      PROVE  TradeInv'
  <2>. DEFINE places == [place EXCEPT ![i] = to]
              told == IF to \in Bags THEN onAdd(to) ELSE {}
  <2>1. /\ places = [j \in Items |-> places[j]]
        /\ \A j \in Items : places[j] \in Places
        /\ \A d \in Deeds : places[d] = place[d]
    BY <1>0, <1>2, Disjoint DEF internalAddItem, Places
  <2>2. internalCloseTrade(told, places) /\ pos' = pos
    BY <1>2 DEF internalAddItem
  <2>3. amount' \in [Items -> 1 .. 2]
    <3>1. PICK n \in IF i \in Stacks THEN 1 .. 2 ELSE {1} :
              amount' = [amount EXCEPT ![i] = n]
      BY <1>2, Zenon DEF internalAddItem
    <3>2. n \in 1 .. 2
      BY <3>1
    <3>. QED BY <3>1, <3>2, <1>0
  <2>4. told \in SUBSET Players
    BY ToldArePlayers
  <2>. HIDE DEF places, told
  <2>. QED BY <2>1, <2>2, <2>3, <2>4, ItemStepAgrees
<1>3. ASSUME internalRemoveItem(i) PROVE TradeInv'
  <2>. DEFINE places == [j \in Items |-> IF j = i \/ isHoldingItem(i, j) THEN Null ELSE place[j]]
  <2>1. /\ places = [j \in Items |-> places[j]]
        /\ \A j \in Items : places[j] \in Places
    BY <1>0
  <2>2. \A d \in Deeds : places[d] = place[d]
    BY <1>3, DeedsLieAlone DEF internalRemoveItem
  <2>3. internalCloseTrade(onRemove(i), places) /\ pos' = pos /\ amount' = amount
    BY <1>3 DEF internalRemoveItem
  <2>. HIDE DEF places
  <2>. QED BY <2>1, <2>2, <2>3, <1>0, ToldArePlayers, ItemStepAgrees
<1>4. ASSUME updateThing(i) PROVE TradeInv'
  <2>1. /\ internalCloseTrade(onUpdate(i), place) /\ pos' = pos
        /\ place = [j \in Items |-> place[j]] /\ \A j \in Items : place[j] \in Places
    BY <1>0, <1>4 DEF updateThing
  <2>2. amount' \in [Items -> 1 .. 2]
    BY <1>0, <1>4 DEF updateThing
  <2>. QED BY <2>1, <2>2, ToldArePlayers, ItemStepAgrees
<1>. QED BY <1>1, <1>2, <1>3, <1>4

LEMMA WalksAgree ==
  ASSUME TradeInv, NEW p \in Players
  PROVE  /\ \A to \in Tiles : onCreatureMove(p, to) \/ onCreatureAppear(p, to) => TradeInv'
         /\ onCreatureDisappear(p) => TradeInv'
<1>0. /\ TypeOK /\ Paired(trade, offered, pos)
      /\ place \in [Items -> Places] /\ place = [i \in Items |-> place[i]]
      /\ \A i \in Items : place[i] \in Places
      /\ amount \in [Items -> 1 .. 2] /\ pos \in [Players -> Tiles \cup {Null}]
      /\ Null \in Places
  BY DEF TradeInv, TypeOK, Places
<1>1. ASSUME NEW to \in Tiles, onCreatureMove(p, to) PROVE TradeInv'
  <2>. DEFINE S == IF TooFar(p, to) THEN {p} ELSE {}
              ps == [pos EXCEPT ![p] = to]
  <2>1. internalCloseTrade(S, place) /\ pos' = ps /\ amount' = amount /\ S \in SUBSET Players
    BY <1>1 DEF onCreatureMove
  <2>2. ps[p] = to /\ to # Null /\ \A r \in Players \ {p} : ps[r] = pos[r]
    BY <1>0, Disjoint
  <2>3. ASSUME NEW r \in Players \ Both(S), trade.partner[r] # Null
        PROVE  ps[r] # Null /\ areInRange(3, ps[r], ps[trade.partner[r]])
    <3>1. PICK x \in Players : trade.partner[r] = x /\ x # r /\ trade.partner[x] = r
      BY <2>3, <1>0, TradeTypes DEF Paired
    <3>2. pos[r] # Null /\ areInRange(3, pos[r], pos[x])
      BY <2>3, <3>1, NearAsBefore
    <3>3. CASE r # p /\ x # p
      BY <3>1, <3>2, <3>3, <2>2
    <3>4. CASE r = p \/ x = p
      <4>1. ~TooFar(p, to)
        <5>1. ASSUME TooFar(p, to) PROVE r \in Both(S)
          BY <3>1, <3>4, <5>1, Disjoint DEF Both
        <5>. QED BY <5>1
      <4>2. CASE r = p
        <5>1. areInRange(2, pos[x], to)
          BY <4>1, <4>2, <3>1, Disjoint DEF TooFar
        <5>. QED BY <5>1, <4>2, <3>1, <2>2, <1>0, RangeIsSymmetric
      <4>3. CASE x = p
        <5>1. areInRange(2, pos[r], to)
          BY <4>1, <4>3, <3>1, Disjoint DEF TooFar
        <5>. QED BY <5>1, <4>3, <3>1, <3>2, <2>2, <1>0, RangeIsSymmetric
      <4>. QED BY <3>4, <4>2, <4>3
    <3>. QED BY <3>3, <3>4
  <2>. HIDE DEF S, ps
  <2>4. /\ Paired(trade', offered', ps) /\ DeedsKept'
        /\ trade' \in Trades /\ offered' \in [Items -> Players \cup {Null}]
        /\ place' \in [Items -> Places] /\ parented' \subseteq Players
    BY <2>1, <2>3, <1>0, CloseAgrees
  <2>5. ps \in [Players -> Tiles \cup {Null}]
    BY <1>0 DEF ps
  <2>. QED BY <2>1, <2>4, <2>5, <1>0 DEF TradeInv, TypeOK, Places
<1>2. ASSUME NEW to \in Tiles, onCreatureAppear(p, to) PROVE TradeInv'
  <2>1. trade.partner[p] = Null /\ trade.state[p] = "NONE" /\ trade.item[p] = Null
    BY <1>0, <1>2 DEF Paired, onCreatureAppear, online
  <2>2. trade' = trade
    <3>1. NoTrade({p}) = [state |-> trade.state, partner |-> trade.partner, item |-> trade.item]
      BY <2>1, <1>0, TradeTypes DEF NoTrade
    <3>. QED BY <3>1, <1>0, <1>2, TradeTypes DEF onCreatureAppear
  <2>3. ASSUME NEW r \in Players, trade.partner[r] # Null
        PROVE  pos'[r] # Null /\ areInRange(3, pos'[r], pos'[trade.partner[r]])
    <3>1. PICK x \in Players : trade.partner[r] = x /\ trade.partner[x] = r
      BY <2>3, <1>0, TradeTypes DEF Paired
    <3>2. x # p /\ r # p
      BY <3>1, <2>1, Disjoint
    <3>. QED BY <3>1, <3>2, <2>3, <1>0, <1>2, NearAsBefore DEF onCreatureAppear
  <2>4. offered' = offered /\ place' = place /\ amount' = amount /\ parented' \subseteq parented
    BY <1>2 DEF onCreatureAppear
  <2>5. Paired(trade', offered', pos')
    BY <2>2, <2>3, <2>4, <1>0 DEF Paired
  <2>6. pos' \in [Players -> Tiles \cup {Null}]
    BY <1>0, <1>2 DEF onCreatureAppear
  <2>. QED BY <2>2, <2>4, <2>5, <2>6 DEF TradeInv, TypeOK, DeedsKept
<1>3. ASSUME onCreatureDisappear(p) PROVE TradeInv'
  <2>. DEFINE S == IF trade.partner[p] # Null THEN {p} ELSE {}
              places == [i \in Items |-> IF TopParent(i) = p THEN Null ELSE place[i]]
              ps == [pos EXCEPT ![p] = Null]
  <2>1. internalCloseTrade(S, places) /\ pos' = ps /\ amount' = amount /\ S \in SUBSET Players
    BY <1>3 DEF onCreatureDisappear
  <2>2. places = [i \in Items |-> places[i]] /\ \A i \in Items : places[i] \in Places
    BY <1>0
  <2>3. ASSUME NEW d \in Deeds, d \notin Released(Both(S)) PROVE places[d] = place[d]
    <3>1. SUFFICES ASSUME TopParent(d) = p PROVE FALSE
      BY DeedsLieAlone
    <3>2. d \in Items /\ offered[d] = p
      BY <3>1, DeedsLieAlone
    <3>3. trade.item[p] = d /\ d # Null
      BY <3>2, <1>0, Disjoint DEF Paired
    <3>4. trade.partner[p] # Null
      BY <3>3, <1>0 DEF Paired
    <3>5. p \in Both(S)
      BY <3>4 DEF Both
    <3>. QED BY <2>3, <3>2, <3>3, <3>5 DEF Released
  <2>4. ASSUME NEW r \in Players \ Both(S), trade.partner[r] # Null
        PROVE  ps[r] # Null /\ areInRange(3, ps[r], ps[trade.partner[r]])
    <3>1. PICK x \in Players : trade.partner[r] = x /\ trade.partner[x] = r
      BY <2>4, <1>0, TradeTypes DEF Paired
    <3>2. r # p /\ x # p
      BY <2>4, <3>1, Disjoint DEF Both
    <3>. QED BY <3>1, <3>2, <2>4, <1>0, NearAsBefore
  <2>. HIDE DEF S, places, ps
  <2>5. /\ Paired(trade', offered', ps) /\ DeedsKept'
        /\ trade' \in Trades /\ offered' \in [Items -> Players \cup {Null}]
        /\ place' \in [Items -> Places] /\ parented' \subseteq Players
    BY <2>1, <2>2, <2>3, <2>4, CloseAgrees
  <2>6. ps \in [Players -> Tiles \cup {Null}]
    BY <1>0 DEF ps
  <2>. QED BY <2>1, <2>5, <2>6, <1>0 DEF TradeInv, TypeOK, Places
<1>. QED BY <1>1, <1>2, <1>3

LEMMA RequestsAgree ==
  ASSUME TradeInv, NEW p \in Players, NEW x \in Players, NEW i \in Items,
         playerRequestTrade(p, x, i) \/ (i \in Deeds /\ houseSell(p, x, i))
  PROVE  TradeInv'
<1>0. TypeOK /\ Paired(trade, offered, pos) /\ DeedsKept
  BY DEF TradeInv
<1>1. x # p /\ pos[p] # Null /\ pos[x] # Null /\ pos' = pos /\ amount' = amount
  BY DEF playerRequestTrade, houseSell, online
<1>2. CASE playerRequestTrade(p, x, i)
  <2>1. /\ offered[i] = Null /\ i \notin Deeds /\ place' = place /\ parented' = parented
        /\ areInRange(2, pos[x], pos[p]) /\ internalStartTrade(p, x, i)
    BY <1>2 DEF playerRequestTrade, BeingTraded
  <2>2. /\ Paired(trade', offered', pos) /\ trade' \in Trades
        /\ offered' \in [Items -> Players \cup {Null}]
        /\ offered' = [offered EXCEPT ![i] = p]
    BY <2>1, <1>1, StartAgrees
  <2>3. DeedsKept'
    BY <2>1, <2>2, <1>0, Disjoint DEF DeedsKept, TypeOK
  <2>. QED BY <2>1, <2>2, <2>3, <1>0, <1>1 DEF TradeInv, TypeOK
<1>3. CASE i \in Deeds /\ houseSell(p, x, i) /\ internalStartTrade(p, x, i)
           /\ place' = [place EXCEPT ![i] = p] /\ parented' = parented \cup {p}
  <2>1. place[i] = Null /\ areInRange(3, pos[x], pos[p]) /\ offered[i] = Null
    BY <1>0, <1>3 DEF houseSell, DeedsKept
  <2>2. /\ Paired(trade', offered', pos) /\ trade' \in Trades
        /\ offered' \in [Items -> Players \cup {Null}]
        /\ offered' = [offered EXCEPT ![i] = p]
    BY <2>1, <1>1, <1>3, StartAgrees
  <2>3. DeedsKept'
    BY <2>2, <1>0, <1>3, Disjoint DEF DeedsKept, TypeOK
  <2>. QED BY <2>2, <2>3, <1>0, <1>1, <1>3 DEF TradeInv, TypeOK
<1>4. CASE /\ parented' = parented \ {p} /\ trade' = trade
           /\ offered' = offered /\ place' = place
  <2>1. parented' \subseteq Players
    BY <1>0, <1>4 DEF TypeOK
  <2>. QED BY <2>1, <1>0, <1>1, <1>4 DEF TradeInv, TypeOK, DeedsKept
<1>. QED BY <1>2, <1>3, <1>4 DEF houseSell

LEMMA AcceptsAgree ==
  ASSUME TradeInv, NEW p \in Players, playerAcceptTrade(p) \/ playerCloseTrade(p)
  PROVE  TradeInv'
<1>0. /\ TypeOK /\ Paired(trade, offered, pos) /\ DeedsKept
      /\ place \in [Items -> Places] /\ place = [i \in Items |-> place[i]]
      /\ \A i \in Items : place[i] \in Places
      /\ amount \in [Items -> 1 .. 2]
  BY DEF TradeInv, TypeOK, Places
<1>1. pos' = pos
  BY DEF playerAcceptTrade, playerCloseTrade
<1>2. CASE playerCloseTrade(p)
  <2>1. internalCloseTrade({p}, place) /\ amount' = amount /\ {p} \in SUBSET Players
    BY <1>2 DEF playerCloseTrade
  <2>. QED BY <2>1, <1>0, <1>1, ItemStepAgrees
<1>3. CASE playerAcceptTrade(p)
  <2>1. PICK x \in Players :
          /\ trade.partner[p] = x /\ x # p /\ trade.partner[x] = p
          /\ trade.state[p] \in {"ACKNOWLEDGE", "INITIATED"}
    BY <1>0, <1>3, TradeTypes DEF playerAcceptTrade, Paired
  <2>2. CASE /\ trade' = [trade EXCEPT !.state[p] = "ACCEPT"]
             /\ UNCHANGED <<place, amount, offered, parented>>
    <3>1. /\ trade'.partner = trade.partner /\ trade'.item = trade.item
          /\ trade'.state = [trade.state EXCEPT ![p] = "ACCEPT"]
          /\ trade' \in Trades
      BY <2>2, <1>0, TradeTypes DEF Trades, TypeOK
    <3>2. /\ trade'.state[p] = "ACCEPT"
          /\ \A r \in Players \ {p} : trade'.state[r] = trade.state[r]
      BY <3>1, <1>0, TradeTypes
    <3>3. Paired(trade', offered', pos)
      BY <3>1, <3>2, <2>1, <2>2, <1>0, Disjoint DEF Paired
    <3>. QED BY <3>1, <3>3, <2>2, <1>0, <1>1 DEF TradeInv, TypeOK, DeedsKept
  <2>3. \A S \in SUBSET Players : Closed({p, x} \cup Both(S))
    BY <2>1, <1>0, BothIsClosed DEF Closed
  <2>4. ASSUME NEW who \in SUBSET Players, Closed(who), NEW places, Ends(who, places),
               \A i \in Items : places[i] \in Places,
               \A d \in Deeds : d \notin Released(who) => places[d] = place[d],
               amount' \in [Items -> 1 .. 2]
        PROVE  TradeInv'
    <3>1. /\ Paired(trade', offered', pos) /\ DeedsKept'
          /\ trade' \in Trades /\ offered' \in [Items -> Players \cup {Null}]
          /\ place' \in [Items -> Places] /\ parented' \subseteq Players
      BY <2>4, NearAsBefore, EndsAgree
    <3>. QED BY <3>1, <2>4, <1>0, <1>1 DEF TradeInv, TypeOK, Places
  <2>5. CASE Ends({p, x}, place) /\ amount' = amount
    <3>1. {p, x} \in SUBSET Players /\ Closed({p, x})
      BY <2>1 DEF Closed
    <3>. QED BY <3>1, <2>4, <2>5, <1>0
  <2>6. CASE Exchange(p, x)
    <3>. DEFINE i == trade.item[p]
                j == trade.item[x]
    <3>1. i \in Items /\ j \in Items
      BY <2>6, <1>0, TradeTypes DEF Exchange
    <3>2. PICK toX \in Destinations(i, x), toP \in Destinations(j, p) :
            /\ Ends({p, x} \cup Both((Disturbed(i, toX) \cup Disturbed(j, toP)) \ {p, x}),
                    [place EXCEPT ![i] = toX, ![j] = toP])
            /\ amount' = [amount EXCEPT ![i] = IF toX = place[i] THEN 1 ELSE @,
                                        ![j] = IF toP = place[j] THEN 1 ELSE @]
      BY <2>6 DEF Exchange
    <3>. DEFINE T == (Disturbed(i, toX) \cup Disturbed(j, toP)) \ {p, x}
                who == {p, x} \cup Both(T)
                places == [place EXCEPT ![i] = toX, ![j] = toP]
    <3>3. T \in SUBSET Players
      BY ToldArePlayers
    <3>4. who \in SUBSET Players /\ Closed(who)
      BY <3>3, <2>3, <1>0, BothIsClosed
    <3>5. toX \in Places /\ toP \in Places
      BY <3>1, <1>0 DEF Destinations, Places
    <3>6. i \in Released(who) /\ j \in Released(who)
      BY <3>1 DEF Released
    <3>7. amount' \in [Items -> 1 .. 2]
      BY <3>1, <3>2, <1>0
    <3>8. \A k \in Items : places[k] \in Places /\ (k \notin {i, j} => places[k] = place[k])
      BY <3>1, <3>5, <1>0
    <3>9. Ends(who, places)
      BY <3>2
    <3>. HIDE DEF i, j, T, who, places
    <3>10. \A d \in Deeds : d \notin Released(who) => places[d] = place[d]
      BY <3>6, <3>8, Disjoint
    <3>. QED BY <3>4, <3>7, <3>8, <3>9, <3>10, <2>4
  <2>. QED BY <1>3, <2>1, <2>2, <2>5, <2>6 DEF playerAcceptTrade
<1>. QED BY <1>2, <1>3

LEMMA StepAgrees ==
  ASSUME TradeInv, [Next]_vars
  PROVE  TradeInv'
<1>1. ASSUME NEW p \in Players, NEW x \in Players,
             \/ \E i \in Items : playerRequestTrade(p, x, i)
             \/ \E d \in Deeds : houseSell(p, x, d)
      PROVE  TradeInv'
  BY <1>1, RequestsAgree, Disjoint
<1>2. CASE UNCHANGED vars
  BY <1>2 DEF vars, TradeInv, TypeOK, DeedsKept
<1>. QED BY <1>1, <1>2, AcceptsAgree, WalksAgree, MovesAgree, Zenon DEF Next

LEMMA InitAgrees ==
  ASSUME Init
  PROVE  TradeInv
<1>1. TypeOK
  BY DEF Init, TypeOK, Trades, States
<1>2. Paired(trade, offered, pos) /\ DeedsKept
  BY Disjoint DEF Init, Paired, DeedsKept
<1>. QED BY <1>1, <1>2 DEF TradeInv

THEOREM TradeInvariant == Spec => []TradeInv
<1>1. Init => TradeInv
  BY InitAgrees
<1>2. TradeInv /\ [Next]_vars => TradeInv'
  BY StepAgrees
<1>. QED BY <1>1, <1>2, PTL DEF Spec

(* Type correctness. *)
THEOREM TypeCorrect == Spec => []TypeOK
<1>1. TradeInv => TypeOK
  BY DEF TradeInv
<1>. QED BY <1>1, TradeInvariant, PTL

-----------------------------------------------------------------------------
(* What lies in what.  Above and TopParent of the value pl of place. *)

AboveIn(pl, i) ==
  IF pl[i] \notin Bags THEN {}
  ELSE {b \in Bags : \A S \in SUBSET (Bags \ {b}) : \E j \in {i} \cup S : pl[j] \in Bags \ S}

TopIn(pl, i) ==
  IF pl[i] \notin Bags THEN pl[i]
  ELSE pl[CHOOSE b \in AboveIn(pl, i) : pl[b] \notin Bags]

(* No container is in itself: whatever containers one takes, one of them is in none of
   them. *)
NoCycle(pl) == \A S \in SUBSET Bags : S # {} => \E b \in S : pl[b] \notin S

(* A container in which there is something is somewhere. *)
Rooted(pl) == \A i \in Items : pl[i] \in Bags => pl[pl[i]] # Null

LEMMA AboveIsAboveIn ==
  \A i : /\ Above(i) = AboveIn(place, i) /\ TopParent(i) = TopIn(place, i)
         /\ \A b : isHoldingItem(b, i) <=> b \in AboveIn(place, i)
BY DEF Above, AboveIn, TopParent, TopIn, isHoldingItem

LEMMA NextIsAbove ==
  ASSUME NEW pl, NEW i
  PROVE  /\ AboveIn(pl, i) \subseteq Bags
         /\ pl[i] \in Bags => pl[i] \in AboveIn(pl, i)
         /\ pl[i] \notin Bags => AboveIn(pl, i) = {}
         /\ \A b \in AboveIn(pl, i) : pl[b] \in Bags => pl[b] \in AboveIn(pl, i)
<1>1. /\ AboveIn(pl, i) \subseteq Bags
      /\ pl[i] \in Bags => pl[i] \in AboveIn(pl, i)
      /\ pl[i] \notin Bags => AboveIn(pl, i) = {}
  BY DEF AboveIn
<1>2. ASSUME NEW b \in AboveIn(pl, i), pl[b] \in Bags PROVE pl[b] \in AboveIn(pl, i)
  <2>1. pl[i] \in Bags
    BY <1>1
  <2>2. \A S \in SUBSET (Bags \ {b}) : \E j \in {i} \cup S : pl[j] \in Bags \ S
    BY DEF AboveIn
  <2>3. ASSUME NEW S \in SUBSET (Bags \ {pl[b]})
        PROVE  \E j \in {i} \cup S : pl[j] \in Bags \ S
    <3>1. CASE b \in S
      BY <3>1, <1>2
    <3>2. CASE b \notin S
      <4>1. S \in SUBSET (Bags \ {b})
        BY <3>2
      <4>. QED BY <4>1, <2>2
    <3>. QED BY <3>1, <3>2
  <2>. QED BY <2>1, <2>3, <1>2 DEF AboveIn
<1>. QED BY <1>1, <1>2

(* The containers above i are in every set that one does not leave upwards. *)
LEMMA AboveWithin ==
  ASSUME NEW pl, NEW i, NEW S \in SUBSET Bags, pl[i] \in Bags => pl[i] \in S,
         \A j \in S : pl[j] \in Bags => pl[j] \in S
  PROVE  AboveIn(pl, i) \subseteq S
<1>1. SUFFICES ASSUME NEW b \in AboveIn(pl, i), b \notin S PROVE FALSE
  OBVIOUS
<1>2. S \in SUBSET (Bags \ {b})
  BY <1>1
<1>3. \E j \in {i} \cup S : pl[j] \in Bags \ S
  BY <1>1, <1>2 DEF AboveIn
<1>. QED BY <1>3

LEMMA AboveUnfolds ==
  ASSUME NEW pl, NEW i, pl[i] \in Bags
  PROVE  AboveIn(pl, i) = {pl[i]} \cup AboveIn(pl, pl[i])
<1>1. AboveIn(pl, i) \subseteq {pl[i]} \cup AboveIn(pl, pl[i])
  <2>. DEFINE S == {pl[i]} \cup AboveIn(pl, pl[i])
  <2>1. S \in SUBSET Bags /\ pl[i] \in S
    BY NextIsAbove
  <2>2. ASSUME NEW j \in S, pl[j] \in Bags PROVE pl[j] \in S
    BY <2>2, NextIsAbove
  <2>. HIDE DEF S
  <2>3. AboveIn(pl, i) \subseteq S
    BY <2>1, <2>2, AboveWithin
  <2>. QED BY <2>3 DEF S
<1>2. AboveIn(pl, pl[i]) \subseteq AboveIn(pl, i)
  <2>. DEFINE S == AboveIn(pl, i)
  <2>1. S \in SUBSET Bags /\ pl[i] \in S /\ \A j \in S : pl[j] \in Bags => pl[j] \in S
    BY NextIsAbove
  <2>. HIDE DEF S
  <2>2. AboveIn(pl, pl[i]) \subseteq S
    BY <2>1, AboveWithin
  <2>. QED BY <2>2 DEF S
<1>3. pl[i] \in AboveIn(pl, i)
  BY NextIsAbove
<1>. QED BY <1>1, <1>2, <1>3

LEMMA AboveOfAbove ==
  ASSUME NEW pl, NEW i, NEW b \in AboveIn(pl, i)
  PROVE  AboveIn(pl, b) \subseteq AboveIn(pl, i)
<1>. DEFINE S == AboveIn(pl, i)
<1>1. S \in SUBSET Bags /\ \A j \in S : pl[j] \in Bags => pl[j] \in S
  BY NextIsAbove
<1>2. b \in S
  OBVIOUS
<1>. HIDE DEF S
<1>3. AboveIn(pl, b) \subseteq S
  BY <1>1, <1>2, AboveWithin
<1>. QED BY <1>3 DEF S

(* The containers around an item are one in the other. *)
LEMMA OneInTheOther ==
  ASSUME NEW pl, NEW i, NEW b \in AboveIn(pl, i), NEW c \in AboveIn(pl, i)
  PROVE  b = c \/ b \in AboveIn(pl, c) \/ c \in AboveIn(pl, b)
<1>. DEFINE S == {x \in Bags : x = b \/ b \in AboveIn(pl, x) \/ x \in AboveIn(pl, b)}
<1>1. S \in SUBSET Bags
  OBVIOUS
<1>2. ASSUME pl[i] \in Bags PROVE pl[i] \in S
  BY <1>2, AboveUnfolds
<1>3. ASSUME NEW j \in S, pl[j] \in Bags PROVE pl[j] \in S
  <2>1. CASE j = b
    BY <2>1, <1>3, NextIsAbove
  <2>2. CASE b \in AboveIn(pl, j)
    BY <2>2, <1>3, AboveUnfolds
  <2>3. CASE j \in AboveIn(pl, b)
    BY <2>3, <1>3, NextIsAbove
  <2>. QED BY <2>1, <2>2, <2>3
<1>. HIDE DEF S
<1>4. AboveIn(pl, i) \subseteq S
  BY <1>1, <1>2, <1>3, AboveWithin
<1>. QED BY <1>4 DEF S

LEMMA NotInItself ==
  ASSUME NEW pl, NoCycle(pl), NEW b
  PROVE  b \notin AboveIn(pl, b)
<1>1. SUFFICES ASSUME b \in AboveIn(pl, b) PROVE FALSE
  OBVIOUS
<1>. DEFINE S == {x \in AboveIn(pl, b) : x = b \/ b \in AboveIn(pl, x)}
<1>2. S \in SUBSET Bags /\ b \in S
  BY <1>1, NextIsAbove
<1>3. ASSUME NEW x \in S PROVE pl[x] \in S
  <2>1. b \in AboveIn(pl, x) /\ pl[x] \in Bags
    BY <1>1, <1>3, NextIsAbove
  <2>2. b = pl[x] \/ b \in AboveIn(pl, pl[x])
    BY <2>1, AboveUnfolds
  <2>3. pl[x] \in AboveIn(pl, b)
    BY <2>1, <1>3, NextIsAbove
  <2>. QED BY <2>2, <2>3
<1>. HIDE DEF S
<1>. QED BY <1>2, <1>3 DEF NoCycle

-----------------------------------------------------------------------------
(* Who has an item in the end. *)

LEMMA TopIsThere ==
  ASSUME NEW pl, NoCycle(pl), NEW i, pl[i] \in Bags
  PROVE  \E b \in AboveIn(pl, i) : pl[b] \notin Bags /\ TopIn(pl, i) = pl[b]
<1>1. AboveIn(pl, i) \in SUBSET Bags /\ AboveIn(pl, i) # {}
  BY NextIsAbove
<1>2. \E b \in AboveIn(pl, i) : pl[b] \notin AboveIn(pl, i)
  BY <1>1, Zenon DEF NoCycle
<1>3. \E b \in AboveIn(pl, i) : pl[b] \notin Bags
  BY <1>2, NextIsAbove
<1>. DEFINE b == CHOOSE b \in AboveIn(pl, i) : pl[b] \notin Bags
<1>4. b \in AboveIn(pl, i) /\ pl[b] \notin Bags
  BY <1>3
<1>5. TopIn(pl, i) = pl[b]
  BY DEF TopIn
<1>. QED BY <1>4, <1>5

LEMMA OneTop ==
  ASSUME NEW pl, NoCycle(pl), NEW i, NEW b \in AboveIn(pl, i), pl[b] \notin Bags
  PROVE  TopIn(pl, i) = pl[b]
<1>1. pl[i] \in Bags
  BY NextIsAbove
<1>2. PICK c \in AboveIn(pl, i) : pl[c] \notin Bags /\ TopIn(pl, i) = pl[c]
  BY <1>1, TopIsThere
<1>3. AboveIn(pl, b) = {} /\ AboveIn(pl, c) = {}
  BY <1>2, NextIsAbove
<1>4. b = c
  BY <1>3, OneInTheOther
<1>. QED BY <1>2, <1>4

LEMMA TopOfAbove ==
  ASSUME NEW pl, NoCycle(pl), NEW i, NEW b \in AboveIn(pl, i)
  PROVE  TopIn(pl, b) = TopIn(pl, i)
<1>1. CASE pl[b] \notin Bags
  <2>1. TopIn(pl, b) = pl[b]
    BY <1>1 DEF TopIn
  <2>. QED BY <2>1, <1>1, OneTop
<1>2. CASE pl[b] \in Bags
  <2>1. PICK c \in AboveIn(pl, b) : pl[c] \notin Bags /\ TopIn(pl, b) = pl[c]
    BY <1>2, TopIsThere
  <2>2. c \in AboveIn(pl, i)
    BY <2>1, AboveOfAbove
  <2>. QED BY <2>1, <2>2, OneTop
<1>. QED BY <1>1, <1>2

LEMMA TopIsSomewhere ==
  ASSUME NEW pl, NoCycle(pl), NEW i \in Items,
         \A j \in Items : pl[j] \in Players \cup Bags \cup Tiles \cup {Null}
  PROVE  TopIn(pl, i) \in Players \cup Tiles \cup {Null}
<1>1. CASE pl[i] \notin Bags
  BY <1>1 DEF TopIn
<1>2. CASE pl[i] \in Bags
  <2>1. PICK b \in AboveIn(pl, i) : pl[b] \notin Bags /\ TopIn(pl, i) = pl[b]
    BY <1>2, TopIsThere
  <2>2. b \in Items
    BY NextIsAbove, Disjoint
  <2>. QED BY <2>1, <2>2
<1>. QED BY <1>1, <1>2

LEMMA AboveIsRooted ==
  ASSUME NEW pl, Rooted(pl), NEW i \in Items, NEW b \in AboveIn(pl, i)
  PROVE  pl[b] # Null
<1>. DEFINE S == {c \in Bags : pl[c] # Null}
<1>1. S \in SUBSET Bags /\ (pl[i] \in Bags => pl[i] \in S)
  BY DEF Rooted
<1>2. ASSUME NEW j \in S, pl[j] \in Bags PROVE pl[j] \in S
  BY <1>2, Disjoint DEF Rooted
<1>. HIDE DEF S
<1>3. AboveIn(pl, i) \subseteq S
  BY <1>1, <1>2, AboveWithin
<1>. QED BY <1>3 DEF S

-----------------------------------------------------------------------------
(* What does not change. *)

(* If neither i nor a container around it has moved, i is where it was. *)
LEMMA SameAbove ==
  ASSUME NEW pl, NEW new, NEW i, \A j \in {i} \cup AboveIn(pl, i) : new[j] = pl[j]
  PROVE  AboveIn(new, i) = AboveIn(pl, i)
<1>1. AboveIn(new, i) \subseteq AboveIn(pl, i)
  <2>. DEFINE S == AboveIn(pl, i)
  <2>1. /\ S \in SUBSET Bags /\ (new[i] \in Bags => new[i] \in S)
        /\ \A j \in S : new[j] \in Bags => new[j] \in S
    BY NextIsAbove
  <2>. HIDE DEF S
  <2>2. AboveIn(new, i) \subseteq S
    BY <2>1, AboveWithin
  <2>. QED BY <2>2 DEF S
<1>2. AboveIn(pl, i) \subseteq AboveIn(new, i)
  <2>. DEFINE S == AboveIn(new, i) \cap AboveIn(pl, i)
  <2>1. S \in SUBSET Bags /\ (pl[i] \in Bags => pl[i] \in S)
    BY NextIsAbove
  <2>2. ASSUME NEW j \in S, pl[j] \in Bags PROVE pl[j] \in S
    <3>1. new[j] = pl[j]
      OBVIOUS
    <3>. QED BY <3>1, <2>2, NextIsAbove
  <2>. HIDE DEF S
  <2>3. AboveIn(pl, i) \subseteq S
    BY <2>1, <2>2, AboveWithin
  <2>. QED BY <2>3 DEF S
<1>. QED BY <1>1, <1>2

LEMMA SameTop ==
  ASSUME NEW pl, NEW new, NEW i, NoCycle(pl), NoCycle(new),
         \A j \in {i} \cup AboveIn(pl, i) : new[j] = pl[j]
  PROVE  TopIn(new, i) = TopIn(pl, i)
<1>1. CASE pl[i] \notin Bags
  BY <1>1 DEF TopIn
<1>2. CASE pl[i] \in Bags
  <2>1. PICK b \in AboveIn(pl, i) : pl[b] \notin Bags /\ TopIn(pl, i) = pl[b]
    BY <1>2, TopIsThere
  <2>2. b \in AboveIn(new, i) /\ new[b] = pl[b]
    BY SameAbove
  <2>. QED BY <2>1, <2>2, OneTop
<1>. QED BY <1>1, <1>2

-----------------------------------------------------------------------------
(* What moving things does to the containers. *)

LEMMA AboveShrinks ==
  ASSUME NEW pl, NEW new, NEW i,
         \A j \in {i} \cup AboveIn(pl, i) : new[j] \in {pl[j], Null}
  PROVE  AboveIn(new, i) \subseteq AboveIn(pl, i)
<1>. DEFINE S == AboveIn(pl, i)
<1>1. /\ S \in SUBSET Bags /\ (new[i] \in Bags => new[i] \in S)
      /\ \A j \in S : new[j] \in Bags => new[j] \in S
  BY NextIsAbove, Disjoint
<1>. HIDE DEF S
<1>2. AboveIn(new, i) \subseteq S
  BY <1>1, AboveWithin
<1>. QED BY <1>2 DEF S

(* What was put into a container is in that, and in what that was in. *)
LEMMA AboveWhereItLies ==
  ASSUME NEW pl, NEW new, NEW k, new[k] \in Bags,
         \A j \in {new[k]} \cup AboveIn(pl, new[k]) : new[j] \in {pl[j], Null}
  PROVE  AboveIn(new, k) \subseteq {new[k]} \cup AboveIn(pl, new[k])
BY AboveUnfolds, AboveShrinks

(* The items in M move, each to where none of them is, and others only vanish. *)
LEMMA NoCycleMade ==
  ASSUME NEW pl, NEW new, NEW M, NoCycle(pl),
         \A j \in Bags \ M : new[j] \in {pl[j], Null},
         \A k \in M : new[k] \in Bags => M \cap ({new[k]} \cup AboveIn(pl, new[k])) = {}
  PROVE  NoCycle(new)
<1>. SUFFICES ASSUME NEW S \in SUBSET Bags, S # {}, \A b \in S : new[b] \in S
              PROVE  FALSE
  BY DEF NoCycle
<1>1. ASSUME NEW b \in S \ M PROVE new[b] = pl[b]
  BY Disjoint
<1>2. CASE S \cap M = {}
  <2>1. \A b \in S : pl[b] \in S
    BY <1>1, <1>2
  <2>. QED BY <2>1 DEF NoCycle
<1>3. CASE S \cap M # {}
  <2>1. PICK k \in S : k \in M
    BY <1>3
  <2>2. new[k] \in S /\ new[k] \in Bags
    OBVIOUS
  <2>. DEFINE T == S \cap ({new[k]} \cup AboveIn(pl, new[k]))
  <2>3. T \in SUBSET Bags /\ T # {} /\ T \cap M = {}
    BY <2>1, <2>2
  <2>4. ASSUME NEW b \in T PROVE pl[b] \in T
    <3>1. pl[b] \in S
      BY <1>1, <2>3
    <3>2. pl[b] \in AboveIn(pl, new[k])
      BY <3>1, NextIsAbove
    <3>. QED BY <3>1, <3>2
  <2>. HIDE DEF T
  <2>. QED BY <2>3, <2>4 DEF NoCycle
<1>. QED BY <1>2, <1>3

-----------------------------------------------------------------------------
(* The offers that stand. *)

OfferInv == TradeInv /\ NoCycle(place) /\ Rooted(place) /\ OffersInReach

(* Where a thing is that is in the end with top. *)
Spot(top, ps) == IF top \in Players THEN ps[top] ELSE top

LEMMA SpotIsPosition ==
  ASSUME NEW i, i \notin Deeds
  PROVE  Position(i) = Spot(TopIn(place, i), pos)
BY AboveIsAboveIn DEF Position, Spot

LEMMA AnOffer ==
  ASSUME OfferInv, NEW i \in Items, offered[i] # Null
  PROVE  /\ offered[i] \in Players /\ trade.item[offered[i]] = i
         /\ trade.partner[offered[i]] # Null
         /\ offered[i] \in Offering /\ pos[offered[i]] \in Tiles
         /\ place[i] # Null
         /\ \A j \in Items : offered[j] # Null => i \notin AboveIn(place, j)
         /\ i \notin Deeds =>
              /\ TopIn(place, i) \in Tiles \cup {offered[i]}
              /\ areInRange(1, Spot(TopIn(place, i), pos), pos[offered[i]])
              /\ areInRange(2, pos[offered[i]], Spot(TopIn(place, i), pos))
<1>0. TypeOK /\ Paired(trade, offered, pos) /\ OffersInReach
  BY DEF OfferInv, TradeInv
<1>. DEFINE q == offered[i]
<1>1. q \in Players /\ trade.item[q] = i /\ i # Null
  BY <1>0, Disjoint DEF Paired, TypeOK
<1>2. trade.partner[q] # Null /\ pos[q] # Null
  BY <1>0, <1>1 DEF Paired
<1>3. q \in Offering /\ pos[q] \in Tiles
  BY <1>0, <1>1, <1>2 DEF Offering, online, TypeOK
<1>4. place[i] # Null /\ \A j \in Items : offered[j] # Null => i \notin AboveIn(place, j)
  BY <1>0, AboveIsAboveIn DEF OffersInReach
<1>5. ASSUME i \notin Deeds
      PROVE  /\ TopIn(place, i) \in Tiles \cup {q}
             /\ areInRange(1, Spot(TopIn(place, i), pos), pos[q])
             /\ areInRange(2, pos[q], Spot(TopIn(place, i), pos))
  <2>1. InReach(q, i)
    BY <1>0, <1>5 DEF OffersInReach
  <2>2. /\ TopIn(place, i) \in Tiles \cup {q}
        /\ areInRange(1, Spot(TopIn(place, i), pos), pos[q])
    BY <2>1, <1>5, AboveIsAboveIn, SpotIsPosition DEF InReach
  <2>3. Spot(TopIn(place, i), pos) \in Tiles
    BY <2>2, <1>1, <1>3, Disjoint, TradeAssumption DEF Spot
  <2>4. Spot(TopIn(place, i), pos) \in Int /\ pos[q] \in Int
    BY <2>3, <1>3, Disjoint
  <2>. HIDE DEF q
  <2>5. areInRange(2, pos[q], Spot(TopIn(place, i), pos))
    BY <2>2, <2>4, Disjoint DEF areInRange
  <2>. QED BY <2>2, <2>5
<1>. QED BY <1>1, <1>2, <1>3, <1>4, <1>5

(* Whoever offers i is told of i, of what is in it, and of what it is in. *)
LEMMA OwnerIsTold ==
  ASSUME OfferInv, NEW i \in Items \ Deeds, offered[i] # Null, NEW k \in Items \ Deeds,
         k = i \/ i \in AboveIn(place, k) \/ k \in AboveIn(place, i)
  PROVE  IsTold(offered[i], k)
<1>. DEFINE q == offered[i]
<1>0. TypeOK /\ NoCycle(place)
  BY DEF OfferInv, TradeInv
<1>1. TopIn(place, k) = TopIn(place, i)
  BY <1>0, TopOfAbove
<1>2. /\ q \in Players /\ TopIn(place, i) \in Tiles \cup {q}
      /\ areInRange(2, pos[q], Spot(TopIn(place, i), pos))
  BY AnOffer
<1>3. areInRange(2, pos[q], Position(k))
  BY <1>1, <1>2, SpotIsPosition
<1>4. CASE place[k] \in Bags
  BY <1>3, <1>4 DEF IsTold
<1>5. CASE place[k] \notin Bags
  <2>1. TopIn(place, k) = place[k]
    BY <1>5 DEF TopIn
  <2>. QED BY <2>1, <1>1, <1>2 DEF IsTold
<1>. QED BY <1>4, <1>5

LEMMA MovesAreTold ==
  ASSUME OfferInv, NEW i \in Items \ Deeds, offered[i] # Null, NEW k \in Items \ Deeds,
         offered[i] \notin onRemove(k)
  PROVE  k # i /\ i \notin AboveIn(place, k) /\ k \notin AboveIn(place, i)
<1>. DEFINE q == offered[i]
<1>0. NoCycle(place) /\ q \in Offering /\ trade.item[q] = i
  BY AnOffer DEF OfferInv
<1>1. ASSUME k = i \/ i \in AboveIn(place, k) PROVE FALSE
  <2>1. checkTradeState(q, k)
    BY <1>0, <1>1, AboveIsAboveIn DEF checkTradeState
  <2>. QED BY <1>0, <1>1, <2>1, OwnerIsTold DEF onRemove
<1>2. ASSUME k \in AboveIn(place, i), k # i PROVE FALSE
  <2>1. IsTold(q, k)
    BY <1>2, OwnerIsTold
  <2>2. CASE place[k] \notin Bags
    BY <1>0, <1>2, <2>1, <2>2, AboveIsAboveIn DEF onRemove
  <2>3. CASE place[k] \in Bags
    <3>1. place[k] \in AboveIn(place, i)
      BY <1>2, <2>3, NextIsAbove
    <3>2. place[i] # place[k]
      <4>1. SUFFICES ASSUME place[i] = place[k] PROVE FALSE
        OBVIOUS
      <4>2. k = place[k] \/ k \in AboveIn(place, place[k])
        BY <4>1, <1>2, <2>3, AboveUnfolds
      <4>3. k \in AboveIn(place, k)
        BY <4>2, <2>3, AboveUnfolds
      <4>. QED BY <4>3, <1>0, NotInItself
    <3>. QED BY <1>0, <2>1, <2>3, <3>1, <3>2, AboveIsAboveIn DEF onRemove
  <2>. QED BY <2>2, <2>3
<1>. QED BY <1>1, <1>2

LEMMA PutsAreTold ==
  ASSUME OfferInv, NEW i \in Items \ Deeds, offered[i] # Null, NEW b \in Bags,
         offered[i] \notin onAdd(b)
  PROVE  b # i /\ i \notin AboveIn(place, b)
<1>. DEFINE q == offered[i]
<1>0. NoCycle(place) /\ q \in Offering /\ trade.item[q] = i /\ b \notin Deeds
  BY AnOffer, Disjoint DEF OfferInv
<1>1. SUFFICES ASSUME b = i \/ i \in AboveIn(place, b) PROVE FALSE
  OBVIOUS
<1>2. checkTradeState(q, b)
  BY <1>0, <1>1, AboveIsAboveIn DEF checkTradeState
<1>3. TopIn(place, b) = TopIn(place, i)
  BY <1>0, <1>1, TopOfAbove
<1>4. areInRange(2, pos[q], Position(b))
  BY <1>0, <1>3, AnOffer, SpotIsPosition
<1>. QED BY <1>0, <1>2, <1>4 DEF onAdd

LEMMA ChangesAreTold ==
  ASSUME OfferInv, NEW i \in Items \ Deeds, offered[i] # Null, NEW k \in Items \ Deeds,
         offered[i] \notin onUpdate(k)
  PROVE  k # i /\ i \notin AboveIn(place, k)
<1>. DEFINE q == offered[i]
<1>0. q \in Offering /\ trade.item[q] = i
  BY AnOffer
<1>1. SUFFICES ASSUME k = i \/ i \in AboveIn(place, k) PROVE FALSE
  OBVIOUS
<1>2. checkTradeState(q, k)
  BY <1>0, <1>1, AboveIsAboveIn DEF checkTradeState
<1>. QED BY <1>0, <1>1, <1>2, OwnerIsTold DEF onUpdate

-----------------------------------------------------------------------------
(* A step after which the players in who offer nothing, and things lie as the function
   places says but for the deeds that are gone. *)

Result(who, places) ==
  /\ \A i \in Items : offered'[i] # Null => offered'[i] = offered[i] /\ offered[i] \notin who
  /\ \A j \in Items : place'[j] = places[j] \/ (j \in Deeds /\ place'[j] = Null)

(* Thing j may be moved or changed although i is offered. *)
Apart(i, j, places) ==
  j # i /\ i \notin AboveIn(place, j) /\ i \notin AboveIn(places, j) /\ j \notin AboveIn(place, i)

(* The action of OffersUntouched. *)
Untouched ==
  \A i, j \in Items :
    /\ offered[i] # Null /\ offered'[i] = offered[i]
    /\ place'[j] # place[j] \/ amount'[j] # amount[j]
    => /\ j # i
       /\ ~isHoldingItem(i, j) /\ ~isHoldingItem(i, j)' /\ ~isHoldingItem(j, i)

LEMMA EndsResult ==
  ASSUME TradeInv, NEW who \in SUBSET Players, NEW places, Ends(who, places)
  PROVE  Result(who, places)
<1>1. /\ \A i \in Items : offered'[i] = IF i \in Released(who) THEN Null ELSE offered[i]
      /\ \A i \in Items : place'[i] = IF i \in Released(who) \cap Deeds THEN Null ELSE places[i]
  BY DEF Ends
<1>2. ASSUME NEW i \in Items, offered[i] \in who PROVE i \in Released(who)
  <2>1. trade.item[offered[i]] = i
    BY <1>2 DEF TradeInv, Paired
  <2>. QED BY <2>1, <1>2 DEF Released
<1>. QED BY <1>1, <1>2 DEF Result

LEMMA CloseResult ==
  ASSUME TradeInv, NEW S \in SUBSET Players, NEW places, internalCloseTrade(S, places)
  PROVE  Result(Both(S), places) /\ S \subseteq Both(S)
<1>1. Both(S) \in SUBSET Players /\ S \subseteq Both(S)
  BY BothIsClosed DEF TradeInv
<1>2. CASE S = {}
  BY <1>2 DEF internalCloseTrade, Both, Result
<1>3. CASE S # {}
  BY <1>1, <1>3, EndsResult DEF internalCloseTrade
<1>. QED BY <1>1, <1>2, <1>3

LEMMA AboveIsAboveInNext ==
  \A i : /\ TopParent(i)' = TopIn(place', i)
         /\ \A b : isHoldingItem(b, i)' <=> b \in AboveIn(place', i)
BY DEF Above, AboveIn, TopParent, TopIn, isHoldingItem

(* The deeds that are gone make no difference to the containers. *)
LEMMA TreesAfter ==
  ASSUME NEW places, NEW who, Result(who, places), NoCycle(places), Rooted(places)
  PROVE  NoCycle(place') /\ Rooted(place')
<1>1. \A j \in Bags : place'[j] = places[j]
  BY Disjoint DEF Result
<1>2. NoCycle(place')
  BY <1>1 DEF NoCycle
<1>3. ASSUME NEW i \in Items, place'[i] \in Bags PROVE place'[place'[i]] # Null
  BY <1>1, <1>3, Disjoint DEF Result, Rooted
<1>. QED BY <1>2, <1>3 DEF Rooted

(* An offer that nothing happens to around the thing stands as before. *)
LEMMA OfferStays ==
  ASSUME OfferInv, NoCycle(place'), NEW i \in Items, offered[i] # Null, offered'[i] = offered[i],
         \A j \in {i} \cup AboveIn(place, i) : place'[j] = place[j],
         i \notin Deeds => areInRange(1, Spot(TopIn(place, i), pos'), pos'[offered[i]])
  PROVE  /\ place'[i] # Null /\ (i \in Deeds \/ InReach(offered[i], i)')
         /\ AboveIn(place', i) = AboveIn(place, i)
<1>1. /\ AboveIn(place', i) = AboveIn(place, i) /\ TopIn(place', i) = TopIn(place, i)
  BY SameAbove, SameTop DEF OfferInv
<1>2. place'[i] # Null
  BY AnOffer
<1>3. ASSUME i \notin Deeds
      PROVE  /\ TopParent(i)' \in Tiles \cup {offered'[i]}
             /\ areInRange(1, Position(i)', pos'[offered'[i]])
  <2>1. TopParent(i)' = TopIn(place, i)
    BY <1>1, AboveIsAboveInNext
  <2>2. TopIn(place, i) \in Tiles \cup {offered[i]}
    BY <1>3, AnOffer
  <2>3. Position(i)' = Spot(TopIn(place, i), pos')
    BY <2>1, <1>3 DEF Position, Spot
  <2>. QED BY <1>3, <2>1, <2>2, <2>3
<1>. QED BY <1>1, <1>2, <1>3 DEF InReach

LEMMA StepKeeps ==
  ASSUME OfferInv, TradeInv', NEW places, NEW who, Result(who, places),
         NoCycle(places), Rooted(places),
         \A i \in Items \ Deeds, j \in Items \ Deeds :
           /\ offered[i] # Null /\ offered[i] \notin who
           /\ places[j] # place[j] \/ amount'[j] # amount[j]
           => Apart(i, j, places),
         \A i \in Items, j \in Deeds :
           offered[i] # Null /\ offered[i] \notin who /\ amount'[j] # amount[j] => i # j,
         \A i \in Items \ Deeds :
           offered[i] # Null /\ offered[i] \notin who
           => areInRange(1, Spot(TopIn(place, i), pos'), pos'[offered[i]])
  PROVE  OfferInv' /\ Untouched
<1>0. NoCycle(place) /\ NoCycle(place') /\ Rooted(place') /\ Paired(trade, offered, pos)
  BY TreesAfter DEF OfferInv, TradeInv
<1>1. ASSUME NEW i \in Items, offered'[i] # Null
      PROVE  offered'[i] = offered[i] /\ offered[i] # Null /\ offered[i] \notin who
  BY <1>1 DEF Result
<1>2. ASSUME NEW d \in Deeds
      PROVE  /\ d \in Items /\ place[d] = offered[d] /\ place'[d] = offered'[d]
             /\ AboveIn(place, d) = {} /\ AboveIn(place', d) = {}
  <2>1. d \in Items /\ place[d] = offered[d] /\ place'[d] = offered'[d]
    BY Disjoint DEF OfferInv, TradeInv, DeedsKept
  <2>2. offered[d] \in Players \cup {Null} /\ offered'[d] \in Players \cup {Null}
    BY <2>1 DEF OfferInv, TradeInv, TypeOK
  <2>3. place[d] \notin Bags /\ place'[d] \notin Bags
    BY <2>1, <2>2, Disjoint
  <2>. QED BY <2>1, <2>3, NextIsAbove
<1>3. ASSUME NEW i \in Items, NEW j \in Items, offered'[i] # Null,
             place'[j] # place[j] \/ amount'[j] # amount[j]
      PROVE  Apart(i, j, place')
  <2>0. offered[i] # Null /\ offered[i] \notin who /\ offered'[i] = offered[i]
    BY <1>1, <1>3
  <2>1. CASE j \in Deeds
    <3>1. j # i
      BY <2>0, <2>1, <1>2, <1>3
    <3>2. j \notin Bags
      BY <2>1, Disjoint
    <3>. QED BY <2>1, <3>1, <3>2, <1>2, NextIsAbove DEF Apart
  <2>2. CASE j \notin Deeds /\ i \in Deeds
    <3>1. i \notin Bags
      BY <2>2, Disjoint
    <3>. QED BY <2>2, <3>1, <1>2, NextIsAbove DEF Apart
  <2>3. CASE j \notin Deeds /\ i \notin Deeds
    <3>1. place'[j] = places[j]
      BY <2>3 DEF Result
    <3>2. Apart(i, j, places)
      BY <2>0, <2>3, <3>1, <1>3
    <3>3. \A k \in {j} \cup AboveIn(places, j) : place'[k] \in {places[k], Null}
      BY NextIsAbove, Disjoint DEF Result
    <3>4. AboveIn(place', j) \subseteq AboveIn(places, j)
      BY <3>3, AboveShrinks
    <3>. QED BY <3>2, <3>4 DEF Apart
  <2>. QED BY <2>1, <2>2, <2>3
<1>4. ASSUME NEW i \in Items, offered'[i] # Null
      PROVE  /\ place'[i] # Null /\ (i \in Deeds \/ InReach(offered[i], i)')
             /\ AboveIn(place', i) = AboveIn(place, i)
  <2>1. \A j \in {i} \cup AboveIn(place, i) : j \in Items
    BY NextIsAbove, Disjoint
  <2>2. \A j \in {i} \cup AboveIn(place, i) : place'[j] = place[j]
    BY <1>3, <1>4, <2>1 DEF Apart
  <2>3. i \notin Deeds => areInRange(1, Spot(TopIn(place, i), pos'), pos'[offered[i]])
    BY <1>1, <1>4
  <2>. QED BY <2>2, <2>3, <1>0, <1>1, <1>4, OfferStays
<1>5. ASSUME NEW i \in Items, offered'[i] # Null, NEW j \in Items, offered'[j] # Null
      PROVE  ~isHoldingItem(i, j)'
  <2>1. i \notin AboveIn(place, j)
    BY <1>1, <1>5, AnOffer
  <2>. QED BY <2>1, <1>4, <1>5, AboveIsAboveInNext
<1>6. OffersInReach'
  <2>1. ASSUME NEW i \in Items, offered'[i] # Null PROVE offered'[i] = offered[i]
    BY <2>1, <1>1
  <2>. QED BY <2>1, <1>4, <1>5 DEF OffersInReach, InReach
<1>7. Untouched
  BY <1>3, AboveIsAboveIn, AboveIsAboveInNext DEF Untouched, Apart
<1>. QED BY <1>0, <1>6, <1>7 DEF OfferInv

(* As long as nobody walks, the offers stay in reach. *)
LEMMA NobodyWalks ==
  ASSUME OfferInv, pos' = pos
  PROVE  \A i \in Items \ Deeds : offered[i] # Null
           => areInRange(1, Spot(TopIn(place, i), pos'), pos'[offered[i]])
BY AnOffer

-----------------------------------------------------------------------------
(* The steps.  Moving, adding, removing and changing things. *)

LEMMA MoveKeeps ==
  ASSUME OfferInv, TradeInv', NEW k \in Items, NEW to \in Players \cup Bags \cup Tiles,
         internalMoveItem(k, to)
  PROVE  OfferInv' /\ Untouched
<1>. DEFINE places == [place EXCEPT ![k] = to]
            S == Disturbed(k, to)
<1>0. /\ TypeOK /\ TradeInv /\ NoCycle(place) /\ Rooted(place) /\ place \in [Items -> Places]
      /\ S \in SUBSET Players
  BY ToldArePlayers DEF OfferInv, TradeInv, TypeOK, Places
<1>1. /\ k \notin Deeds /\ place[k] # Null /\ to # place[k] /\ to # k
      /\ to \in Bags => place[to] # Null /\ k \notin AboveIn(place, to)
      /\ internalCloseTrade(S, places) /\ pos' = pos /\ amount' = amount
  <2>1. to \in Bags => to \notin online \cup Tiles
    BY Disjoint, TradeAssumption DEF online
  <2>. QED BY <2>1, AboveIsAboveIn DEF internalMoveItem
<1>2. places[k] = to /\ \A j \in Items \ {k} : places[j] = place[j]
  BY <1>0
<1>3. Result(Both(S), places) /\ S \subseteq Both(S)
  BY <1>0, <1>1, CloseResult
<1>. HIDE DEF places
<1>4. ASSUME to \in Bags
      PROVE  \A j \in {to} \cup AboveIn(place, to) : j \in Items \ {k}
  BY <1>1, <1>4, NextIsAbove, Disjoint
<1>5. NoCycle(places)
  <2>. DEFINE M == {k}
  <2>1. \A j \in Bags \ M : places[j] \in {place[j], Null}
    BY <1>2, Disjoint
  <2>2. \A j \in M : places[j] \in Bags => M \cap ({places[j]} \cup AboveIn(place, places[j])) = {}
    BY <1>2, <1>4
  <2>. HIDE DEF M
  <2>. QED BY <2>1, <2>2, <1>0, NoCycleMade
<1>6. Rooted(places)
  <2>1. ASSUME NEW j \in Items, places[j] \in Bags PROVE places[places[j]] # Null
    <3>1. to # Null /\ places[j] \in Items
      BY <2>1, Disjoint
    <3>2. places[j] = k \/ place[places[j]] # Null
      BY <2>1, <1>0, <1>1, <1>2 DEF Rooted
    <3>. QED BY <3>1, <3>2, <1>2
  <2>. QED BY <2>1 DEF Rooted
<1>7. ASSUME NEW i \in Items \ Deeds, offered[i] # Null, offered[i] \notin Both(S)
      PROVE  Apart(i, k, places)
  <2>0. offered[i] \notin S
    BY <1>3, <1>7
  <2>1. k # i /\ i \notin AboveIn(place, k) /\ k \notin AboveIn(place, i)
    BY <2>0, <1>1, <1>7, MovesAreTold DEF Disturbed
  <2>2. ASSUME to \in Bags PROVE i \notin AboveIn(places, k)
    <3>1. to # i /\ i \notin AboveIn(place, to)
      BY <2>0, <2>2, <1>7, PutsAreTold DEF Disturbed
    <3>2. \A j \in {places[k]} \cup AboveIn(place, places[k]) : places[j] \in {place[j], Null}
      BY <2>2, <1>2, <1>4
    <3>3. AboveIn(places, k) \subseteq {to} \cup AboveIn(place, to)
      BY <3>2, <2>2, <1>2, AboveWhereItLies
    <3>. QED BY <3>1, <3>3
  <2>3. to \notin Bags => i \notin AboveIn(places, k)
    BY <1>2, NextIsAbove
  <2>. QED BY <2>1, <2>2, <2>3 DEF Apart
<1>8. \A i \in Items \ Deeds, j \in Items \ Deeds :
        /\ offered[i] # Null /\ offered[i] \notin Both(S)
        /\ places[j] # place[j] \/ amount'[j] # amount[j]
        => Apart(i, j, places)
  BY <1>1, <1>2, <1>7
<1>. HIDE DEF S
<1>. QED BY <1>1, <1>3, <1>5, <1>6, <1>8, NobodyWalks, StepKeeps

LEMMA AddKeeps ==
  ASSUME OfferInv, TradeInv', NEW k \in Items, NEW to \in Players \cup Bags \cup Tiles,
         internalAddItem(k, to)
  PROVE  OfferInv' /\ Untouched
<1>. DEFINE places == [place EXCEPT ![k] = to]
            S == IF to \in Bags THEN onAdd(to) ELSE {}
<1>0. /\ TypeOK /\ TradeInv /\ NoCycle(place) /\ Rooted(place) /\ place \in [Items -> Places]
      /\ S \in SUBSET Players /\ amount \in [Items -> 1 .. 2]
  BY ToldArePlayers DEF OfferInv, TradeInv, TypeOK, Places
<1>1. /\ k \notin Deeds /\ place[k] = Null
      /\ to \in Bags => place[to] # Null
      /\ internalCloseTrade(S, places) /\ pos' = pos
  <2>1. to \in Bags => to \notin online \cup Tiles
    BY Disjoint, TradeAssumption DEF online
  <2>. QED BY <2>1 DEF internalAddItem
<1>2. places[k] = to /\ \A j \in Items \ {k} : places[j] = place[j]
  BY <1>0
<1>3. Result(Both(S), places) /\ S \subseteq Both(S)
  BY <1>0, <1>1, CloseResult
<1>4. \A j \in Items \ {k} : amount'[j] = amount[j]
  <2>1. PICK n : amount' = [amount EXCEPT ![k] = n]
    BY Zenon DEF internalAddItem
  <2>. QED BY <2>1, <1>0
<1>. HIDE DEF places
(* What is nowhere contains nothing. *)
<1>5. \A j \in Items : k \notin AboveIn(place, j)
  BY <1>0, <1>1, AboveIsRooted
<1>6. ASSUME to \in Bags
      PROVE  \A j \in {to} \cup AboveIn(place, to) : j \in Items \ {k}
  BY <1>1, <1>5, <1>6, NextIsAbove, Disjoint
<1>7. NoCycle(places)
  <2>. DEFINE M == {k}
  <2>1. \A j \in Bags \ M : places[j] \in {place[j], Null}
    BY <1>2, Disjoint
  <2>2. \A j \in M : places[j] \in Bags => M \cap ({places[j]} \cup AboveIn(place, places[j])) = {}
    BY <1>2, <1>6
  <2>. HIDE DEF M
  <2>. QED BY <2>1, <2>2, <1>0, NoCycleMade
<1>8. Rooted(places)
  <2>1. ASSUME NEW j \in Items, places[j] \in Bags PROVE places[places[j]] # Null
    <3>1. to # Null /\ places[j] \in Items
      BY <2>1, Disjoint
    <3>2. places[j] = k \/ place[places[j]] # Null
      BY <2>1, <1>0, <1>1, <1>2 DEF Rooted
    <3>. QED BY <3>1, <3>2, <1>2
  <2>. QED BY <2>1 DEF Rooted
<1>9. ASSUME NEW i \in Items \ Deeds, offered[i] # Null, offered[i] \notin Both(S)
      PROVE  Apart(i, k, places)
  <2>1. k # i /\ i \notin AboveIn(place, k) /\ k \notin AboveIn(place, i)
    BY <1>1, <1>5, <1>9, AnOffer, NextIsAbove, Disjoint
  <2>2. ASSUME to \in Bags PROVE i \notin AboveIn(places, k)
    <3>1. to # i /\ i \notin AboveIn(place, to)
      BY <1>3, <1>9, <2>2, PutsAreTold
    <3>2. \A j \in {places[k]} \cup AboveIn(place, places[k]) : places[j] \in {place[j], Null}
      BY <2>2, <1>2, <1>6
    <3>3. AboveIn(places, k) \subseteq {to} \cup AboveIn(place, to)
      BY <3>2, <2>2, <1>2, AboveWhereItLies
    <3>. QED BY <3>1, <3>3
  <2>3. to \notin Bags => i \notin AboveIn(places, k)
    BY <1>2, NextIsAbove
  <2>. QED BY <2>1, <2>2, <2>3 DEF Apart
<1>10. \A i \in Items \ Deeds, j \in Items \ Deeds :
         /\ offered[i] # Null /\ offered[i] \notin Both(S)
         /\ places[j] # place[j] \/ amount'[j] # amount[j]
         => Apart(i, j, places)
  BY <1>2, <1>4, <1>9
<1>11. \A j \in Deeds : amount'[j] = amount[j]
  BY <1>1, <1>4, Disjoint
<1>. HIDE DEF S
<1>. QED BY <1>1, <1>3, <1>7, <1>8, <1>10, <1>11, NobodyWalks, StepKeeps

LEMMA RemoveKeeps ==
  ASSUME OfferInv, TradeInv', NEW k \in Items, internalRemoveItem(k)
  PROVE  OfferInv' /\ Untouched
<1>. DEFINE places == [j \in Items |-> IF j = k \/ isHoldingItem(k, j) THEN Null ELSE place[j]]
            S == onRemove(k)
<1>0. /\ TypeOK /\ TradeInv /\ NoCycle(place) /\ Rooted(place) /\ S \in SUBSET Players
  BY ToldArePlayers DEF OfferInv, TradeInv
<1>1. /\ k \notin Deeds
      /\ internalCloseTrade(S, places) /\ pos' = pos /\ amount' = amount
  BY DEF internalRemoveItem
<1>2. \A j \in Items : /\ j = k \/ k \in AboveIn(place, j) => places[j] = Null
                       /\ places[j] # place[j] => j = k \/ k \in AboveIn(place, j)
  BY AboveIsAboveIn
<1>3. Result(Both(S), places) /\ S \subseteq Both(S)
  BY <1>0, <1>1, CloseResult
<1>. HIDE DEF places
<1>4. \A j \in Items : places[j] \in {place[j], Null}
  BY <1>2
<1>5. NoCycle(places)
  <2>. DEFINE M == {}
  <2>1. \A j \in Bags \ M : places[j] \in {place[j], Null}
    BY <1>4, Disjoint
  <2>2. \A j \in M : places[j] \in Bags => M \cap ({places[j]} \cup AboveIn(place, places[j])) = {}
    OBVIOUS
  <2>. HIDE DEF M
  <2>. QED BY <2>1, <2>2, <1>0, NoCycleMade
<1>6. Rooted(places)
  <2>1. ASSUME NEW j \in Items, places[j] \in Bags PROVE places[places[j]] # Null
    <3>1. places[j] = place[j] /\ j # k /\ k \notin AboveIn(place, j)
      BY <2>1, <1>2, <1>4, Disjoint
    <3>2. place[j] # k /\ k \notin AboveIn(place, place[j])
      BY <2>1, <3>1, AboveUnfolds
    <3>3. places[place[j]] = place[place[j]]
      BY <2>1, <3>1, <3>2, <1>2, Disjoint
    <3>. QED BY <2>1, <3>1, <3>3, <1>0 DEF Rooted
  <2>. QED BY <2>1 DEF Rooted
<1>7. ASSUME NEW i \in Items \ Deeds, offered[i] # Null, offered[i] \notin Both(S),
             NEW j \in Items, places[j] # place[j]
      PROVE  Apart(i, j, places)
  <2>1. k # i /\ i \notin AboveIn(place, k) /\ k \notin AboveIn(place, i)
    BY <1>1, <1>3, <1>7, MovesAreTold
  <2>2. AboveIn(places, j) = {}
    BY <1>4, <1>7, NextIsAbove, Disjoint
  <2>3. CASE j = k
    BY <2>1, <2>2, <2>3 DEF Apart
  <2>4. CASE k \in AboveIn(place, j)
    <3>1. i \notin AboveIn(place, j)
      BY <2>1, <2>4, OneInTheOther
    <3>2. j \notin AboveIn(place, i)
      BY <2>1, <2>4, AboveOfAbove
    <3>. QED BY <2>1, <2>2, <2>4, <3>1, <3>2 DEF Apart
  <2>. QED BY <1>2, <1>7, <2>3, <2>4
<1>. HIDE DEF S
<1>. QED BY <1>1, <1>3, <1>5, <1>6, <1>7, NobodyWalks, StepKeeps

LEMMA UpdateKeeps ==
  ASSUME OfferInv, TradeInv', NEW k \in Items, updateThing(k)
  PROVE  OfferInv' /\ Untouched
<1>. DEFINE S == onUpdate(k)
<1>0. /\ TypeOK /\ TradeInv /\ NoCycle(place) /\ Rooted(place) /\ S \in SUBSET Players
      /\ amount \in [Items -> 1 .. 2]
  BY ToldArePlayers DEF OfferInv, TradeInv, TypeOK
<1>1. /\ k \in Stacks /\ internalCloseTrade(S, place) /\ pos' = pos
      /\ \A j \in Items \ {k} : amount'[j] = amount[j]
  BY <1>0 DEF updateThing
<1>2. k \notin Deeds /\ k \notin Bags
  BY <1>1, TradeAssumption
<1>3. Result(Both(S), place) /\ S \subseteq Both(S)
  BY <1>0, <1>1, CloseResult
<1>4. ASSUME NEW i \in Items \ Deeds, offered[i] # Null, offered[i] \notin Both(S)
      PROVE  Apart(i, k, place)
  <2>1. k # i /\ i \notin AboveIn(place, k)
    BY <1>2, <1>3, <1>4, ChangesAreTold
  <2>. QED BY <2>1, <1>2, NextIsAbove DEF Apart
<1>5. \A i \in Items \ Deeds, j \in Items \ Deeds :
        /\ offered[i] # Null /\ offered[i] \notin Both(S)
        /\ place[j] # place[j] \/ amount'[j] # amount[j]
        => Apart(i, j, place)
  BY <1>1, <1>4
<1>6. \A j \in Deeds : amount'[j] = amount[j]
  BY <1>1, <1>2, Disjoint
<1>. HIDE DEF S
<1>. QED BY <1>0, <1>1, <1>3, <1>5, <1>6, NobodyWalks, StepKeeps

(* Players walk, leave the game and enter it. *)

LEMMA WalkKeeps ==
  ASSUME OfferInv, TradeInv', NEW p \in Players, NEW to \in Tiles, onCreatureMove(p, to)
  PROVE  OfferInv' /\ Untouched
<1>. DEFINE S == IF TooFar(p, to) THEN {p} ELSE {}
<1>0. /\ TypeOK /\ TradeInv /\ NoCycle(place) /\ Rooted(place) /\ S \in SUBSET Players
      /\ pos \in [Players -> Tiles \cup {Null}]
  BY DEF OfferInv, TradeInv, TypeOK
<1>1. /\ internalCloseTrade(S, place) /\ amount' = amount
      /\ pos'[p] = to /\ \A q \in Players \ {p} : pos'[q] = pos[q]
  BY <1>0 DEF onCreatureMove
<1>2. Result(Both(S), place) /\ S \subseteq Both(S)
  BY <1>0, <1>1, CloseResult
<1>3. ASSUME NEW i \in Items \ Deeds, offered[i] # Null, offered[i] \notin Both(S)
      PROVE  areInRange(1, Spot(TopIn(place, i), pos'), pos'[offered[i]])
  <2>1. /\ offered[i] \in Players /\ trade.item[offered[i]] = i
        /\ TopIn(place, i) \in Tiles \cup {offered[i]}
        /\ areInRange(1, Spot(TopIn(place, i), pos), pos[offered[i]])
    BY <1>3, AnOffer
  <2>2. Tiles \cap Players = {}
    BY Disjoint, TradeAssumption
  <2>3. CASE offered[i] # p
    BY <2>1, <2>2, <2>3, <1>1 DEF Spot
  <2>4. CASE offered[i] = p
    <3>1. ~TooFar(p, to)
      BY <1>2, <1>3, <2>4
    <3>2. TopParent(i) = p \/ areInRange(1, Position(i), to)
      BY <3>1, <2>1, <2>4, Disjoint DEF TooFar
    <3>3. TopIn(place, i) = p \/ areInRange(1, Spot(TopIn(place, i), pos), to)
      BY <3>2, AboveIsAboveIn, SpotIsPosition
    <3>4. CASE TopIn(place, i) = p
      <4>1. Spot(TopIn(place, i), pos') = to
        BY <3>4, <1>1 DEF Spot
      <4>2. to \in Int /\ to # Null
        BY Disjoint
      <4>3. areInRange(1, to, to)
        BY <4>2 DEF areInRange
      <4>. QED BY <4>1, <4>3, <2>4, <1>1
    <3>5. CASE TopIn(place, i) # p
      BY <3>3, <3>5, <2>1, <2>2, <2>4, <1>1 DEF Spot
    <3>. QED BY <3>4, <3>5
  <2>. QED BY <2>3, <2>4
<1>. HIDE DEF S
<1>. QED BY <1>0, <1>1, <1>2, <1>3, StepKeeps

LEMMA LeaveKeeps ==
  ASSUME OfferInv, TradeInv', NEW p \in Players, onCreatureDisappear(p)
  PROVE  OfferInv' /\ Untouched
<1>. DEFINE S == IF trade.partner[p] # Null THEN {p} ELSE {}
            places == [i \in Items |-> IF TopParent(i) = p THEN Null ELSE place[i]]
<1>0. /\ TypeOK /\ TradeInv /\ NoCycle(place) /\ Rooted(place) /\ S \in SUBSET Players
      /\ pos \in [Players -> Tiles \cup {Null}] /\ p # Null
  BY Disjoint DEF OfferInv, TradeInv, TypeOK
<1>1. /\ internalCloseTrade(S, places) /\ amount' = amount
      /\ \A q \in Players \ {p} : pos'[q] = pos[q]
  BY <1>0 DEF onCreatureDisappear
<1>2. Result(Both(S), places) /\ S \subseteq Both(S)
  BY <1>0, <1>1, CloseResult
<1>3. \A j \in Items : places[j] = IF TopIn(place, j) = p THEN Null ELSE place[j]
  BY AboveIsAboveIn
<1>. HIDE DEF places
<1>4. ASSUME NEW i \in Items, offered[i] # Null, offered[i] \notin Both(S)
      PROVE  offered[i] # p
  BY <1>2, <1>4, AnOffer
<1>5. NoCycle(places)
  <2>. DEFINE M == {}
  <2>1. \A j \in Bags \ M : places[j] \in {place[j], Null}
    BY <1>3, Disjoint
  <2>2. \A j \in M : places[j] \in Bags => M \cap ({places[j]} \cup AboveIn(place, places[j])) = {}
    OBVIOUS
  <2>. HIDE DEF M
  <2>. QED BY <2>1, <2>2, <1>0, NoCycleMade
<1>6. Rooted(places)
  <2>1. ASSUME NEW j \in Items, places[j] \in Bags PROVE places[places[j]] # Null
    <3>1. places[j] = place[j] /\ TopIn(place, j) # p
      BY <2>1, <1>3, Disjoint
    <3>2. TopIn(place, place[j]) # p
      BY <2>1, <3>1, <1>0, NextIsAbove, TopOfAbove
    <3>3. places[place[j]] = place[place[j]]
      BY <2>1, <3>1, <3>2, <1>3, Disjoint
    <3>. QED BY <2>1, <3>1, <3>3, <1>0 DEF Rooted
  <2>. QED BY <2>1 DEF Rooted
<1>7. ASSUME NEW i \in Items \ Deeds, offered[i] # Null, offered[i] \notin Both(S)
      PROVE  /\ TopIn(place, i) # p
             /\ areInRange(1, Spot(TopIn(place, i), pos'), pos'[offered[i]])
  <2>1. /\ offered[i] \in Players \ {p}
        /\ TopIn(place, i) \in Tiles \cup {offered[i]}
        /\ areInRange(1, Spot(TopIn(place, i), pos), pos[offered[i]])
    BY <1>4, <1>7, AnOffer
  <2>2. Tiles \cap Players = {}
    BY Disjoint, TradeAssumption
  <2>. QED BY <2>1, <2>2, <1>1 DEF Spot
<1>8. ASSUME NEW i \in Items \ Deeds, offered[i] # Null, offered[i] \notin Both(S),
             NEW j \in Items, places[j] # place[j]
      PROVE  Apart(i, j, places)
  <2>1. TopIn(place, j) = p /\ TopIn(place, i) # p /\ places[j] = Null
    BY <1>3, <1>7, <1>8
  <2>2. AboveIn(places, j) = {}
    BY <2>1, NextIsAbove, Disjoint
  <2>3. i \notin AboveIn(place, j) /\ j \notin AboveIn(place, i)
    BY <2>1, <1>0, TopOfAbove
  <2>. QED BY <2>1, <2>2, <2>3 DEF Apart
<1>. HIDE DEF S
<1>. QED BY <1>1, <1>2, <1>5, <1>6, <1>7, <1>8, StepKeeps

LEMMA EnterKeeps ==
  ASSUME OfferInv, TradeInv', NEW p \in Players, NEW to \in Tiles, onCreatureAppear(p, to)
  PROVE  OfferInv' /\ Untouched
<1>0. /\ TypeOK /\ NoCycle(place) /\ Rooted(place)
      /\ pos \in [Players -> Tiles \cup {Null}]
  BY DEF OfferInv, TradeInv, TypeOK
<1>1. /\ pos[p] = Null /\ offered' = offered /\ place' = place /\ amount' = amount
      /\ \A q \in Players \ {p} : pos'[q] = pos[q]
  BY <1>0 DEF onCreatureAppear, online
<1>. DEFINE who == {}
<1>2. Result(who, place)
  BY <1>1 DEF Result
<1>3. ASSUME NEW i \in Items \ Deeds, offered[i] # Null
      PROVE  areInRange(1, Spot(TopIn(place, i), pos'), pos'[offered[i]])
  <2>1. /\ offered[i] \in Players \ {p}
        /\ TopIn(place, i) \in Tiles \cup {offered[i]}
        /\ areInRange(1, Spot(TopIn(place, i), pos), pos[offered[i]])
    BY <1>1, <1>3, AnOffer, Disjoint
  <2>2. Tiles \cap Players = {}
    BY Disjoint, TradeAssumption
  <2>. QED BY <2>1, <2>2, <1>1 DEF Spot
<1>. HIDE DEF who
<1>. QED BY <1>0, <1>1, <1>2, <1>3, StepKeeps

(* Offers are made. *)

LEMMA RequestKeeps ==
  ASSUME OfferInv, TradeInv', NEW p \in Players, NEW x \in Players, NEW k \in Items,
         playerRequestTrade(p, x, k)
  PROVE  OfferInv' /\ Untouched
<1>0. TypeOK /\ NoCycle(place) /\ Rooted(place) /\ offered \in [Items -> Players \cup {Null}]
  BY DEF OfferInv, TradeInv, TypeOK
<1>1. /\ k \notin Deeds /\ place[k] # Null /\ InReach(p, k) /\ ~BeingTraded(k)
      /\ offered' = [offered EXCEPT ![k] = p]
      /\ pos' = pos /\ place' = place /\ amount' = amount /\ parented' = parented
  BY DEF playerRequestTrade, internalStartTrade
<1>2. offered'[k] = p /\ \A i \in Items \ {k} : offered'[i] = offered[i]
  BY <1>0, <1>1
<1>3. \A i, j : isHoldingItem(i, j)' <=> i \in AboveIn(place, j)
  BY <1>1, AboveIsAboveInNext
<1>4. ASSUME NEW i \in Items \ {k}, offered'[i] # Null
      PROVE  place'[i] # Null /\ (i \in Deeds \/ InReach(offered[i], i)')
  <2>1. i \notin Deeds => areInRange(1, Spot(TopIn(place, i), pos'), pos'[offered[i]])
    BY <1>1, <1>2, <1>4, NobodyWalks
  <2>. QED BY <2>1, <1>0, <1>1, <1>2, <1>4, OfferStays
<1>5. InReach(p, k)'
  <2>1. TopParent(k)' = TopParent(k)
    BY <1>1, AboveIsAboveIn, AboveIsAboveInNext
  <2>2. Position(k)' = Position(k)
    BY <2>1, <1>1 DEF Position
  <2>. QED BY <2>1, <2>2, <1>1 DEF InReach
<1>6. ASSUME NEW i \in Items, offered'[i] # Null, NEW j \in Items, offered'[j] # Null
      PROVE  i \notin AboveIn(place, j)
  <2>1. CASE i = k /\ j = k
    BY <2>1, <1>0, NotInItself
  <2>2. CASE i = k /\ j # k
    BY <2>2, <1>1, <1>2, <1>6, AboveIsAboveIn DEF BeingTraded
  <2>3. CASE i # k /\ j = k
    BY <2>3, <1>1, <1>2, <1>6, AboveIsAboveIn DEF BeingTraded
  <2>4. CASE i # k /\ j # k
    BY <2>4, <1>2, <1>6, AnOffer
  <2>. QED BY <2>1, <2>2, <2>3, <2>4
<1>7. ASSUME NEW i \in Items, offered'[i] # Null
      PROVE  place'[i] # Null /\ (i \in Deeds \/ InReach(offered[i], i)')
  <2>1. CASE i = k
    <3>1. InReach(offered[k], k)'
      BY <1>2, <1>5 DEF InReach
    <3>. QED BY <2>1, <3>1, <1>1
  <2>. QED BY <2>1, <1>4, <1>7
<1>8. OffersInReach'
  BY <1>3, <1>6, <1>7 DEF OffersInReach, InReach
<1>. QED BY <1>0, <1>1, <1>8 DEF OfferInv, Untouched

LEMMA SaleKeeps ==
  ASSUME OfferInv, TradeInv', NEW p \in Players, NEW x \in Players, NEW d \in Deeds,
         houseSell(p, x, d)
  PROVE  OfferInv' /\ Untouched
<1>0. /\ TypeOK /\ DeedsKept /\ NoCycle(place) /\ Rooted(place)
      /\ offered \in [Items -> Players \cup {Null}] /\ place \in [Items -> Places]
      /\ d \in Items /\ d \notin Bags /\ p \notin Bags /\ p # Null
  BY Disjoint DEF OfferInv, TradeInv, TypeOK, Places
<1>1. place[d] = Null /\ offered[d] = Null /\ pos' = pos /\ amount' = amount
  BY <1>0 DEF houseSell, DeedsKept
<1>2. CASE internalStartTrade(p, x, d) /\ place' = [place EXCEPT ![d] = p]
  <2>1. /\ offered'[d] = p /\ place'[d] = p
        /\ \A i \in Items \ {d} : offered'[i] = offered[i] /\ place'[i] = place[i]
    BY <1>0, <1>2 DEF internalStartTrade
  <2>2. NoCycle(place')
    BY <2>1, <1>0, Disjoint DEF NoCycle
  <2>3. Rooted(place')
    <3>1. ASSUME NEW i \in Items, place'[i] \in Bags PROVE place'[place'[i]] # Null
      BY <2>1, <3>1, <1>0, Disjoint DEF Rooted
    <3>. QED BY <3>1 DEF Rooted
  <2>4. AboveIn(place, d) = {} /\ AboveIn(place', d) = {} /\ \A i : d \notin AboveIn(place, i)
    BY <1>0, <1>1, <2>1, NextIsAbove, Disjoint
  <2>5. ASSUME NEW i \in Items \ {d}, offered'[i] # Null
        PROVE  /\ place'[i] # Null /\ (i \in Deeds \/ InReach(offered[i], i)')
               /\ AboveIn(place', i) = AboveIn(place, i)
    <3>1. i \notin Deeds => areInRange(1, Spot(TopIn(place, i), pos'), pos'[offered[i]])
      BY <1>1, <2>1, <2>5, NobodyWalks
    <3>2. \A j \in {i} \cup AboveIn(place, i) : j \in Items \ {d}
      BY <2>4, NextIsAbove, Disjoint
    <3>. QED BY <3>1, <3>2, <2>1, <2>2, <2>5, OfferStays
  <2>6. ASSUME NEW i \in Items, offered'[i] # Null, NEW j \in Items, offered'[j] # Null
        PROVE  i \notin AboveIn(place', j)
    <3>1. CASE j = d
      BY <3>1, <2>4
    <3>2. CASE j # d /\ i = d
      BY <3>2, <1>0, NextIsAbove
    <3>3. CASE j # d /\ i # d
      BY <3>3, <2>1, <2>5, <2>6, AnOffer
    <3>. QED BY <3>1, <3>2, <3>3
  <2>7. ASSUME NEW i \in Items, offered'[i] # Null
        PROVE  place'[i] # Null /\ (i \in Deeds \/ InReach(offered[i], i)')
    BY <2>1, <2>5, <2>7, <1>0
  <2>8. OffersInReach'
    BY <2>6, <2>7, AboveIsAboveInNext DEF OffersInReach, InReach
  <2>9. Untouched
    <3>1. ASSUME NEW i \in Items, offered[i] # Null, NEW j \in Items, place'[j] # place[j]
          PROVE  Apart(i, j, place')
      BY <3>1, <1>1, <2>1, <2>4 DEF Apart
    <3>. QED BY <3>1, <1>1, AboveIsAboveIn, AboveIsAboveInNext DEF Untouched, Apart
  <2>. QED BY <2>2, <2>3, <2>8, <2>9 DEF OfferInv
<1>3. CASE trade' = trade /\ offered' = offered /\ place' = place
  <2>. DEFINE who == {}
  <2>1. Result(who, place)
    BY <1>3 DEF Result
  <2>. HIDE DEF who
  <2>. QED BY <2>1, <1>0, <1>1, <1>3, NobodyWalks, StepKeeps
<1>. QED BY <1>2, <1>3 DEF houseSell

-----------------------------------------------------------------------------
(* Two offers are exchanged. *)

LEMMA DestinationIsFree ==
  ASSUME OfferInv, NEW p \in Players, NEW x \in Players, p # x,
         trade.item[p] \in Items, trade.item[x] \in Items,
         NEW to \in Destinations(trade.item[p], x)
  PROVE  /\ to \in Bags => /\ trade.item[p] \notin {to} \cup AboveIn(place, to)
                          /\ trade.item[x] \notin {to} \cup AboveIn(place, to)
                          /\ place[to] # Null
         /\ to = Null => trade.item[p] \in Deeds
<1>. DEFINE a == trade.item[p]
            b == trade.item[x]
<1>0. /\ TypeOK /\ NoCycle(place) /\ Rooted(place)
      /\ offered[a] = p /\ offered[b] = x /\ a # b /\ p # Null /\ x # Null
      /\ x \notin Bags /\ Null \notin Bags
  BY Disjoint DEF OfferInv, TradeInv, Paired
<1>1. CASE a \in Deeds
  BY <1>0, <1>1 DEF Destinations
<1>2. CASE a \notin Deeds /\ to = x
  BY <1>0, <1>2
<1>3. CASE /\ to \in Bags /\ TopParent(to) = x /\ to # a /\ ~isHoldingItem(a, to)
           /\ to # b /\ ~isHoldingItem(b, to)
  <2>1. place[to] # Null
    BY <1>0, <1>3, AboveIsAboveIn DEF TopIn
  <2>. QED BY <2>1, <1>0, <1>3, AboveIsAboveIn
<1>4. CASE a \in Stacks /\ to = place[a]
  <2>1. a \notin Bags
    BY <1>4, TradeAssumption
  <2>2. place[a] # Null /\ b \notin AboveIn(place, a)
    BY <1>0, AnOffer
  <2>3. ASSUME to \in Bags
        PROVE  /\ a \notin {to} \cup AboveIn(place, to) /\ b \notin {to} \cup AboveIn(place, to)
               /\ place[to] # Null
    BY <2>1, <2>2, <2>3, <1>0, <1>4, AboveUnfolds, NextIsAbove DEF Rooted
  <2>. QED BY <2>2, <2>3, <1>4
<1>. QED BY <1>1, <1>2, <1>3, <1>4 DEF Destinations

LEMMA ExchangeKeeps ==
  ASSUME OfferInv, TradeInv', NEW p \in Players, NEW x \in Players, p # x, Exchange(p, x),
         pos' = pos
  PROVE  OfferInv' /\ Untouched
<1>. DEFINE a == trade.item[p]
            b == trade.item[x]
<1>0. /\ TypeOK /\ TradeInv /\ NoCycle(place) /\ Rooted(place)
      /\ place \in [Items -> Places] /\ amount \in [Items -> 1 .. 2]
      /\ a \in Items /\ b \in Items
  BY TradeTypes DEF OfferInv, TradeInv, TypeOK, Places, Exchange
<1>1. offered[a] = p /\ offered[b] = x /\ a # b /\ p # Null /\ x # Null
  BY <1>0, Disjoint DEF TradeInv, Paired
<1>2. PICK toX \in Destinations(a, x), toP \in Destinations(b, p) :
        /\ Ends({p, x} \cup Both((Disturbed(a, toX) \cup Disturbed(b, toP)) \ {p, x}),
                [place EXCEPT ![a] = toX, ![b] = toP])
        /\ amount' = [amount EXCEPT ![a] = IF toX = place[a] THEN 1 ELSE @,
                                    ![b] = IF toP = place[b] THEN 1 ELSE @]
  BY DEF Exchange
<1>. DEFINE T == (Disturbed(a, toX) \cup Disturbed(b, toP)) \ {p, x}
            who == {p, x} \cup Both(T)
            places == [place EXCEPT ![a] = toX, ![b] = toP]
            M == {a, b}
<1>3. /\ places[a] = toX /\ places[b] = toP
      /\ \A j \in Items \ M : places[j] = place[j] /\ amount'[j] = amount[j]
  BY <1>0, <1>1, <1>2
<1>4. /\ toX \in Bags => M \cap ({toX} \cup AboveIn(place, toX)) = {} /\ place[toX] # Null
      /\ toP \in Bags => M \cap ({toP} \cup AboveIn(place, toP)) = {} /\ place[toP] # Null
      /\ toX = Null => a \in Deeds
      /\ toP = Null => b \in Deeds
  BY <1>0, DestinationIsFree
<1>5. Result(who, places) /\ {p, x} \subseteq who
      /\ Disturbed(a, toX) \cup Disturbed(b, toP) \subseteq who
  <2>1. T \in SUBSET Players
    BY ToldArePlayers
  <2>. HIDE DEF T
  <2>2. Both(T) \in SUBSET Players /\ T \subseteq Both(T)
    BY <2>1, <1>0, BothIsClosed DEF TradeInv
  <2>3. who \in SUBSET Players /\ Ends(who, places)
    BY <2>2, <1>2 DEF T
  <2>4. Result(who, places)
    BY <2>3, <1>0, EndsResult
  <2>. QED BY <2>2, <2>4 DEF T
<1>. HIDE DEF places, who, T
<1>6. NoCycle(places)
  <2>1. \A j \in Bags \ M : places[j] \in {place[j], Null}
    BY <1>3, Disjoint
  <2>2. \A j \in M : places[j] \in Bags => M \cap ({places[j]} \cup AboveIn(place, places[j])) = {}
    BY <1>3, <1>4
  <2>. HIDE DEF M
  <2>. QED BY <2>1, <2>2, <1>0, NoCycleMade
<1>7. Rooted(places)
  <2>1. \A j \in M : j \in Bags => places[j] # Null
    BY <1>3, <1>4, Disjoint
  <2>2. ASSUME NEW j \in Items, places[j] \in Bags PROVE places[places[j]] # Null
    <3>1. places[j] \in Items
      BY <2>2, Disjoint
    <3>2. CASE j \in M
      BY <3>1, <3>2, <2>2, <1>3, <1>4
    <3>3. CASE j \notin M
      BY <3>1, <3>3, <2>1, <2>2, <1>0, <1>3 DEF Rooted
    <3>. QED BY <3>2, <3>3
  <2>. QED BY <2>2 DEF Rooted
<1>8. ASSUME NEW i \in Items \ Deeds, offered[i] # Null, offered[i] \notin who,
             NEW k \in M, NEW to, to = places[k], onAdd(to) \subseteq who \/ to \notin Bags
      PROVE  Apart(i, k, places)
  <2>1. offered[k] # Null /\ k # i /\ k \in Items
    BY <1>0, <1>1, <1>5, <1>8
  <2>2. i \notin AboveIn(place, k) /\ k \notin AboveIn(place, i)
    BY <2>1, <1>8, AnOffer
  <2>3. ASSUME to \in Bags PROVE i \notin AboveIn(places, k)
    <3>1. to # i /\ i \notin AboveIn(place, to)
      BY <2>3, <1>8, PutsAreTold
    <3>2. \A j \in {to} \cup AboveIn(place, to) : j \in Items \ M
      BY <2>3, <1>3, <1>4, <1>8, NextIsAbove, Disjoint
    <3>3. AboveIn(places, k) \subseteq {to} \cup AboveIn(place, to)
      BY <3>2, <2>3, <1>3, <1>8, AboveWhereItLies
    <3>. QED BY <3>1, <3>3
  <2>4. to \notin Bags => i \notin AboveIn(places, k)
    BY <1>8, NextIsAbove
  <2>. QED BY <2>1, <2>2, <2>3, <2>4 DEF Apart
<1>9. ASSUME NEW i \in Items \ Deeds, offered[i] # Null, offered[i] \notin who, NEW j \in M
      PROVE  Apart(i, j, places)
  <2>1. /\ onAdd(toX) \subseteq who \/ toX \notin Bags
        /\ onAdd(toP) \subseteq who \/ toP \notin Bags
    BY <1>5 DEF Disturbed
  <2>. QED BY <2>1, <1>3, <1>8, <1>9
<1>10. \A i \in Items \ Deeds, j \in Items \ Deeds :
         /\ offered[i] # Null /\ offered[i] \notin who
         /\ places[j] # place[j] \/ amount'[j] # amount[j]
         => Apart(i, j, places)
  BY <1>3, <1>9
<1>11. \A i \in Items, j \in Deeds :
         offered[i] # Null /\ offered[i] \notin who /\ amount'[j] # amount[j] => i # j
  BY <1>1, <1>3, <1>5, Disjoint
<1>. QED BY <1>5, <1>6, <1>7, <1>10, <1>11, NobodyWalks, StepKeeps

LEMMA AcceptKeeps ==
  ASSUME OfferInv, TradeInv', NEW p \in Players, playerAcceptTrade(p)
  PROVE  OfferInv' /\ Untouched
<1>0. /\ TypeOK /\ TradeInv /\ Paired(trade, offered, pos) /\ NoCycle(place) /\ Rooted(place)
  BY DEF OfferInv, TradeInv
<1>1. pos' = pos
  BY DEF playerAcceptTrade
<1>2. PICK x \in Players : trade.partner[p] = x /\ x # p
  BY <1>0, TradeTypes DEF playerAcceptTrade, Paired
<1>3. CASE UNCHANGED <<place, amount, offered, parented>>
  <2>. DEFINE who == {}
  <2>1. Result(who, place)
    BY <1>3 DEF Result
  <2>. HIDE DEF who
  <2>. QED BY <2>1, <1>0, <1>1, <1>3, NobodyWalks, StepKeeps
<1>4. CASE Ends({p, x}, place) /\ amount' = amount
  <2>. DEFINE who == {p, x}
  <2>1. Result(who, place)
    BY <1>0, <1>4, EndsResult
  <2>. HIDE DEF who
  <2>. QED BY <2>1, <1>0, <1>1, <1>4, NobodyWalks, StepKeeps
<1>. QED BY <1>1, <1>2, <1>3, <1>4, ExchangeKeeps DEF playerAcceptTrade

LEMMA ClosingKeeps ==
  ASSUME OfferInv, TradeInv', NEW p \in Players, playerCloseTrade(p)
  PROVE  OfferInv' /\ Untouched
<1>. DEFINE S == {p}
<1>1. TradeInv /\ NoCycle(place) /\ Rooted(place) /\ S \in SUBSET Players
  BY DEF OfferInv
<1>2. internalCloseTrade(S, place) /\ pos' = pos /\ amount' = amount
  BY DEF playerCloseTrade
<1>. HIDE DEF S
<1>3. Result(Both(S), place)
  BY <1>1, <1>2, CloseResult
<1>. QED BY <1>1, <1>2, <1>3, NobodyWalks, StepKeeps

-----------------------------------------------------------------------------

LEMMA OffersStep ==
  ASSUME OfferInv, [Next]_vars
  PROVE  OfferInv' /\ (Untouched \/ UNCHANGED vars)
<1>1. TradeInv'
  BY StepAgrees DEF OfferInv
<1>2. CASE UNCHANGED vars
  <2>1. /\ pos' = pos /\ place' = place /\ amount' = amount /\ trade' = trade
        /\ offered' = offered /\ parented' = parented
    BY <1>2 DEF vars
  <2>. DEFINE who == {}
  <2>2. Result(who, place)
    BY <2>1 DEF Result
  <2>3. NoCycle(place) /\ Rooted(place)
    BY DEF OfferInv
  <2>. HIDE DEF who
  <2>. QED BY <1>1, <1>2, <2>1, <2>2, <2>3, NobodyWalks, StepKeeps
<1>3. ASSUME NEW p \in Players, NEW x \in Players,
             \/ \E i \in Items : playerRequestTrade(p, x, i)
             \/ \E d \in Deeds : houseSell(p, x, d)
      PROVE  OfferInv' /\ Untouched
  BY <1>1, <1>3, RequestKeeps, SaleKeeps
<1>4. ASSUME NEW p \in Players,
             \/ playerAcceptTrade(p) \/ playerCloseTrade(p) \/ onCreatureDisappear(p)
             \/ \E to \in Tiles : onCreatureMove(p, to) \/ onCreatureAppear(p, to)
      PROVE  OfferInv' /\ Untouched
  BY <1>1, <1>4, AcceptKeeps, ClosingKeeps, LeaveKeeps, WalkKeeps, EnterKeeps
<1>5. ASSUME NEW i \in Items,
             \/ \E to \in Players \cup Bags \cup Tiles :
                  internalMoveItem(i, to) \/ internalAddItem(i, to)
             \/ internalRemoveItem(i) \/ updateThing(i)
      PROVE  OfferInv' /\ Untouched
  BY <1>1, <1>5, MoveKeeps, AddKeeps, RemoveKeeps, UpdateKeeps
<1>. QED BY <1>2, <1>3, <1>4, <1>5, Zenon DEF Next

THEOREM OffersInvariant == Spec => []OfferInv
<1>1. Init => OfferInv
  <2>. SUFFICES ASSUME Init PROVE OfferInv
    OBVIOUS
  <2>1. \A i \in Items : place[i] = Null /\ offered[i] = Null
    BY DEF Init
  <2>2. NoCycle(place) /\ Rooted(place) /\ OffersInReach
    BY <2>1, Disjoint DEF NoCycle, Rooted, OffersInReach
  <2>. QED BY <2>2, InitAgrees DEF OfferInv
<1>2. OfferInv /\ [Next]_vars => OfferInv'
  BY OffersStep
<1>. QED BY <1>1, <1>2, PTL DEF Spec

(* Partners agree, and what they offer exists, is in their reach and not in another offer. *)
THEOREM TradesAlwaysPaired == Spec => []TradesPaired
<1>1. OfferInv => TradesPaired
  BY PairedIsPartnersAgree DEF OfferInv, TradeInv, TradesPaired
<1>. QED BY <1>1, OffersInvariant, PTL

(* What is offered is as it was when it was offered, or it is not offered any more. *)
THEOREM OffersLeftAlone == Spec => OffersUntouched
<1>1. OfferInv /\ [Next]_vars =>
        [\A i, j \in Items :
           /\ offered[i] # Null /\ offered'[i] = offered[i]
           /\ place'[j] # place[j] \/ amount'[j] # amount[j]
           => /\ j # i
              /\ ~isHoldingItem(i, j) /\ ~isHoldingItem(i, j)' /\ ~isHoldingItem(j, i)]_vars
  BY OffersStep DEF Untouched
<1>. QED BY <1>1, OffersInvariant, PTL DEF Spec, OffersUntouched
=============================================================================
