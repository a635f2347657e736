---------------------------------- MODULE Trade ----------------------------------
(***************************************************************************)
(* Trades between two players (game.cpp), what the callbacks of items and  *)
(* creatures do to them (player.cpp), and the sale of a house, which is a  *)
(* trade that offers a deed (talkaction.cpp, house.cpp).  A trade is a     *)
(* state, a partner and an item in each of the two Player objects, and an  *)
(* entry of Game::tradeItems for each item.  It stands while the players   *)
(* go on walking and moving things.  Everything runs in the dispatcher     *)
(* thread, so that TRADE_TRANSFER is never seen between two actions.       *)
(***************************************************************************)
EXTENDS Integers

CONSTANTS Players, Items, Null,
          Bags,    \* the items that are containers
          Stacks,  \* the items that are stackable: one or two pieces
          Deeds,   \* house transfer documents
          Edge     \* the tiles are in a row, from 0 to Edge

ASSUME TradeAssumption ==
  /\ Null \notin Players \cup Items \cup Int
  /\ Players \cap Items = {} /\ (Players \cup Items) \cap Int = {}
  /\ Bags \cup Stacks \cup Deeds \subseteq Items
  /\ Bags \cap Stacks = {} /\ Deeds \cap (Bags \cup Stacks) = {}
  /\ Edge \in Nat

VARIABLES
  pos,       \* where each player stands; Null: not in the game
  place,     \* what each item lies in; a deed of p, in his transferContainer, lies in p
  amount,    \* itemCount
  trade,     \* tradeState, tradePartner and tradeItem of the players
  offered,   \* Game::tradeItems
  parented   \* the players whose transferContainer has them for a parent

vars == <<pos, place, amount, trade, offered, parented>>

Tiles == 0 .. Edge

States == {"NONE", "INITIATED", "ACCEPT", "ACKNOWLEDGE"}

Trades == [state : [Players -> States],
           partner : [Players -> Players \cup {Null}],
           item : [Players -> Items \cup {Null}]]

TypeOK ==
  /\ pos \in [Players -> Tiles \cup {Null}]
  /\ place \in [Items -> Players \cup Bags \cup Tiles \cup {Null}]
  /\ amount \in [Items -> 1 .. 2]
  /\ trade \in Trades
  /\ offered \in [Items -> Players \cup {Null}]
  /\ parented \subseteq Players

Init ==
  /\ pos = [p \in Players |-> Null]
  /\ place = [i \in Items |-> Null]
  /\ amount = [i \in Items |-> 1]
  /\ trade = [state |-> [p \in Players |-> "NONE"],
              partner |-> [p \in Players |-> Null],
              item |-> [p \in Players |-> Null]]
  /\ offered = [i \in Items |-> Null]
  /\ parented = {}

-----------------------------------------------------------------------------
(* Places. *)

online == {p \in Players : pos[p] # Null}

(* The containers that hold an item, at any depth: no set of the others has the one that it
   lies in and those that they lie in. *)
Above(i) ==
  IF place[i] \notin Bags THEN {}
  ELSE {b \in Bags : \A S \in SUBSET (Bags \ {b}) :
                       \E j \in {i} \cup S : place[j] \in Bags \ S}

isHoldingItem(b, i) == b \in Above(i)

(* getTopParent(): the player or the tile that the item is with in the end. *)
TopParent(i) ==
  IF place[i] \notin Bags THEN place[i]
  ELSE place[CHOOSE b \in Above(i) : place[b] \notin Bags]

(* getPosition(): Null is Tile::nullTile, out of everybody's range. *)
Position(i) ==
  LET top == TopParent(i)
  IN  IF i \in Deeds /\ top \notin parented THEN Null
      ELSE IF top \in Players THEN pos[top] ELSE top

areInRange(r, a, b) == a # Null /\ b # Null /\ a - b <= r /\ b - a <= r

-----------------------------------------------------------------------------
(* Cancelling.  internalCloseTrade of each player in the set S: his partner's trade goes
   as well. *)

Both(S) == S \cup ({trade.partner[q] : q \in S} \ {Null})

Released(who) == {i \in Items : \E q \in who : trade.item[q] = i}

NoTrade(who) ==
  [state |-> [q \in Players |-> IF q \in who THEN "NONE" ELSE trade.state[q]],
   partner |-> [q \in Players |-> IF q \in who THEN Null ELSE trade.partner[q]],
   item |-> [q \in Players |-> IF q \in who THEN Null ELSE trade.item[q]]]

(* The players in who do not trade any more; things lie as the function places says, but
   deeds are gone (TransferItem::onTradeEvent). *)
Ends(who, places) ==
  LET items == Released(who)
  IN  /\ trade' = NoTrade(who)
      /\ offered' = [i \in Items |-> IF i \in items THEN Null ELSE offered[i]]
      /\ place' = [i \in Items |-> IF i \in items \cap Deeds THEN Null ELSE places[i]]
      /\ parented' = {p \in parented : \A q \in who : q = p => trade.item[p] \notin Deeds}

internalCloseTrade(S, places) ==
  IF S = {} THEN place' = places /\ UNCHANGED <<trade, offered, parented>>
  ELSE Ends(Both(S), places)

-----------------------------------------------------------------------------
(* The callbacks that close a trade. *)

(* Who is told about item i, where it lies. *)
IsTold(q, i) ==
  \/ place[i] = q
  \/ place[i] \in Bags /\ areInRange(2, pos[q], Position(i))
  \/ place[i] \in Tiles

checkTradeState(q, i) == trade.item[q] = i \/ isHoldingItem(trade.item[q], i)

Offering == {q \in online : trade.item[q] # Null}

(* Mutation of onRemove: a container that is taken away with the item in it. *)
onRemoveItself(i) == {q \in Offering : IsTold(q, i) /\ checkTradeState(q, i)}

(* onRemoveTileItem, onRemoveInventoryItem; onRemoveContainerItem looks into the container
   from which i is taken. *)
onRemove(i) ==
  {q \in Offering :
     /\ IsTold(q, i)
     /\ \/ checkTradeState(q, i)
        \/ IF place[i] \in Bags
           THEN place[trade.item[q]] # place[i] /\ isHoldingItem(place[i], trade.item[q])
           ELSE isHoldingItem(i, trade.item[q])}

(* onUpdateTileItem, onUpdateContainerItem, onUpdateInventoryItem: the same item, changed. *)
onUpdate(i) == {q \in Offering : IsTold(q, i) /\ checkTradeState(q, i)}

(* onAddContainerItem: something was put into container b. *)
onAdd(b) ==
  {q \in Offering : checkTradeState(q, b) /\ areInRange(2, pos[q], Position(b))}

Disturbed(i, to) == onRemove(i) \cup (IF to \in Bags THEN onAdd(to) ELSE {})

-----------------------------------------------------------------------------
(* Starting a trade. *)

MayStart(p, x) ==
  /\ \/ trade.state[p] = "NONE"
     \/ trade.state[p] = "ACKNOWLEDGE" /\ trade.partner[p] = x
  /\ trade.state[x] = "NONE" \/ trade.partner[x] = p

internalStartTrade(p, x, i) ==
  /\ MayStart(p, x)
  /\ trade' = [state |-> [trade.state EXCEPT ![p] = "INITIATED",
                                             ![x] = IF @ = "NONE" THEN "ACKNOWLEDGE" ELSE @],
               partner |-> [trade.partner EXCEPT ![p] = x, ![x] = p],
               item |-> [trade.item EXCEPT ![p] = i]]
  /\ offered' = [offered EXCEPT ![i] = p]

(* Not my carried things, and not out of my reach. *)
InReach(p, i) ==
  /\ TopParent(i) \in Tiles \cup {p}
  /\ areInRange(1, Position(i), pos[p])

(* Mutation of BeingTraded: only the item itself. *)
ItselfTraded(i) == offered[i] # Null

BeingTraded(i) ==
  \E j \in {j \in Items : offered[j] # Null} :
    i = j \/ isHoldingItem(i, j) \/ isHoldingItem(j, i)

playerRequestTrade(p, x, i) ==
  /\ {p, x} \subseteq online /\ x # p
  /\ areInRange(2, pos[x], pos[p])
  /\ i \notin Deeds /\ place[i] # Null /\ InReach(p, i)
  /\ ~BeingTraded(i)
  /\ internalStartTrade(p, x, i)
  /\ UNCHANGED <<pos, place, amount, parented>>

(* A sale that is refused takes the parent from the transferContainer, although the deed of
   an earlier sale may be in it. *)
houseSell(p, x, d) ==
  /\ {p, x} \subseteq online /\ x # p
  /\ areInRange(3, pos[x], pos[p])
  /\ d \in Deeds /\ place[d] = Null
  /\ \/ /\ internalStartTrade(p, x, d)
        /\ place' = [place EXCEPT ![d] = p]
        /\ parented' = parented \cup {p}
     \/ /\ ~MayStart(p, x)
        /\ parented' = parented \ {p}
        /\ UNCHANGED <<trade, offered, place>>
  /\ UNCHANGED <<pos, amount>>

-----------------------------------------------------------------------------
(* Accepting it. *)

(* Where the item i goes: to x or into one of his bags, but not into what x has offered.
   A stack may be moved in part, onto another one, because internalMoveItem asks only the
   first place that was found; what is moved is then as good as new and has no name. *)
Destinations(i, x) ==
  IF i \in Deeds THEN {Null}
  ELSE {x} \cup {b \in Bags : /\ TopParent(b) = x /\ b # i /\ ~isHoldingItem(i, b)
                              /\ b # trade.item[x] /\ ~isHoldingItem(trade.item[x], b)}
           \cup (IF i \in Stacks /\ amount[i] = 2 THEN {place[i]} ELSE {})

Exchange(p, x) ==
  LET i == trade.item[p]
      j == trade.item[x]
  IN  /\ i # Null /\ j # Null
      /\ \E toX \in Destinations(i, x), toP \in Destinations(j, p) :
           /\ Ends({p, x} \cup Both((Disturbed(i, toX) \cup Disturbed(j, toP)) \ {p, x}),
                   [place EXCEPT ![i] = toX, ![j] = toP])
           /\ amount' = [amount EXCEPT ![i] = IF toX = place[i] THEN 1 ELSE @,
                                       ![j] = IF toP = place[j] THEN 1 ELSE @]

playerAcceptTrade(p) ==
  LET x == trade.partner[p]
  IN  /\ p \in online /\ trade.state[p] \in {"ACKNOWLEDGE", "INITIATED"}
      /\ x # Null
      /\ \/ /\ trade' = [trade EXCEPT !.state[p] = "ACCEPT"]  \* wait, or denied by a script
            /\ UNCHANGED <<place, amount, offered, parented>>
         \/ trade.state[x] = "ACCEPT" /\ Exchange(p, x)
         \/ /\ trade.state[x] = "ACCEPT"                      \* no room, or no item
            /\ Ends({p, x}, place) /\ UNCHANGED amount
      /\ UNCHANGED pos

(* The client closes the window; or ghost mode. *)
playerCloseTrade(p) ==
  /\ p \in online /\ trade.partner[p] # Null
  /\ internalCloseTrade({p}, place)
  /\ UNCHANGED <<pos, amount>>

-----------------------------------------------------------------------------
(* What happens meanwhile. *)

(* Whoever it is that moves an item: players, scripts. *)
internalMoveItem(i, to) ==
  /\ i \notin Deeds /\ place[i] # Null
  /\ to # place[i] /\ to # i
  /\ \/ to \in online \cup Tiles
     \/ to \in Bags /\ place[to] # Null /\ ~isHoldingItem(i, to)
  /\ internalCloseTrade(Disturbed(i, to), [place EXCEPT ![i] = to])
  /\ UNCHANGED <<pos, amount>>

internalAddItem(i, to) ==
  /\ i \notin Deeds /\ place[i] = Null
  /\ to \in online \cup Tiles \cup {b \in Bags : place[b] # Null}
  /\ internalCloseTrade(IF to \in Bags THEN onAdd(to) ELSE {}, [place EXCEPT ![i] = to])
  /\ \E n \in IF i \in Stacks THEN 1 .. 2 ELSE {1} : amount' = [amount EXCEPT ![i] = n]
  /\ UNCHANGED pos

(* A container goes with all that is in it. *)
internalRemoveItem(i) ==
  /\ i \notin Deeds /\ place[i] # Null
  /\ internalCloseTrade(onRemove(i),
       [j \in Items |-> IF j = i \/ isHoldingItem(i, j) THEN Null ELSE place[j]])
  /\ UNCHANGED <<pos, amount>>

(* Mutation of updateThing: a stack has no limit. *)
updateThingMore(i) ==
  /\ i \in Stacks /\ place[i] # Null
  /\ internalCloseTrade(onUpdate(i), place)
  /\ amount' = [amount EXCEPT ![i] = @ + 1]
  /\ UNCHANGED pos

(* Pieces are added to a stack or taken from it. *)
updateThing(i) ==
  /\ i \in Stacks /\ place[i] # Null
  /\ internalCloseTrade(onUpdate(i), place)
  /\ amount' = [amount EXCEPT ![i] = 3 - @]
  /\ UNCHANGED pos

TooFar(p, to) ==
  LET i == trade.item[p]
      x == trade.partner[p]
  IN  \/ /\ i # Null
         /\ \/ Position(i) = Null
            \/ TopParent(i) # p /\ ~areInRange(1, Position(i), to)
      \/ x # Null /\ ~areInRange(2, pos[x], to)

onCreatureMove(p, to) ==
  /\ p \in online /\ to # pos[p]
  /\ pos' = [pos EXCEPT ![p] = to]
  /\ internalCloseTrade(IF TooFar(p, to) THEN {p} ELSE {}, place)
  /\ UNCHANGED amount

(* The player leaves the game with all that he carries. *)
onCreatureDisappear(p) ==
  /\ p \in online
  /\ internalCloseTrade(IF trade.partner[p] # Null THEN {p} ELSE {},
       [i \in Items |-> IF TopParent(i) = p THEN Null ELSE place[i]])
  /\ pos' = [pos EXCEPT ![p] = Null]
  /\ UNCHANGED amount

onCreatureAppear(p, to) ==
  /\ p \notin online
  /\ pos' = [pos EXCEPT ![p] = to]
  /\ trade' = NoTrade({p})
  /\ parented' = parented \ {p}
  /\ UNCHANGED <<place, amount, offered>>

Next ==
  \/ \E p, x \in Players : \/ \E i \in Items : playerRequestTrade(p, x, i)
                           \/ \E d \in Deeds : houseSell(p, x, d)
  \/ \E p \in Players : \/ playerAcceptTrade(p) \/ playerCloseTrade(p)
                        \/ onCreatureDisappear(p)
                        \/ \E to \in Tiles : onCreatureMove(p, to) \/ onCreatureAppear(p, to)
  \/ \E i \in Items : \/ \E to \in Players \cup Bags \cup Tiles :
                           internalMoveItem(i, to) \/ internalAddItem(i, to)
                      \/ internalRemoveItem(i) \/ updateThing(i)

Spec == Init /\ [][Next]_vars

-----------------------------------------------------------------------------
(* Partners name each other, are in the game and not far apart; a state says whether there
   is an item (but who accepted may have none, and then the exchange fails); and
   Game::tradeItems has the items that players offer, for the players that offer them, and
   no others. *)
PartnersAgree ==
  /\ \A p \in Players :
       /\ trade.partner[p] = Null <=> trade.state[p] = "NONE"
       /\ trade.state[p] \in {"NONE", "ACKNOWLEDGE"} => trade.item[p] = Null
       /\ trade.state[p] = "INITIATED" => trade.item[p] # Null
       /\ trade.partner[p] # Null =>
            LET x == trade.partner[p]
            IN  /\ trade.partner[x] = p /\ x # p /\ p \in online
                /\ trade.item[p] # Null \/ trade.item[x] # Null
                /\ areInRange(3, pos[p], pos[x])
  /\ \A i \in Items, p \in Players : offered[i] = p <=> trade.item[p] = i

(* Each of them still exists, within reach of its owner, and none is in another one.  (A
   deed whose transferContainer lost its parent is nowhere.) *)
OffersInReach ==
  \A i \in Items : offered[i] # Null =>
    /\ place[i] # Null
    /\ i \in Deeds \/ InReach(offered[i], i)
    /\ \A j \in Items : offered[j] # Null => ~isHoldingItem(i, j)

(* The four fields of two Player objects and the map agree, whatever ended earlier trades. *)
TradesPaired == PartnersAgree /\ OffersInReach

(* What a player has been shown lies where it lay: while an offer stands, the item, the
   containers it is in, everything in it and the numbers of pieces are as they were when
   it was made, though anybody may move anything at any time: whatever changes its place
   or its number of pieces is not the item, nor in it before or afterwards, nor around it.
   (Texts, charges and other attributes of the items are not modelled.) *)
OffersUntouched ==
  [][\A i, j \in Items :
       /\ offered[i] # Null /\ offered'[i] = offered[i]
       /\ place'[j] # place[j] \/ amount'[j] # amount[j]
       => /\ j # i
          /\ ~isHoldingItem(i, j) /\ ~isHoldingItem(i, j)' /\ ~isHoldingItem(j, i)]_vars
=============================================================================
