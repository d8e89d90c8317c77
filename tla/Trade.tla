-------------------------------- MODULE Trade --------------------------------
(***************************************************************************)
(* The trade window of two characters (TradeHandler.cpp, TradeData.cpp).   *)
(* Spells on the slot that is not traded, and items that cannot be traded, *)
(* are left out.                                                           *)
(***************************************************************************)
EXTENDS Holdings

CONSTANTS NoTrade, Amounts     \* Amounts: of money that are offered

Windows == [with : Players, items : SUBSET Items, money : Nat, accepted : BOOLEAN]

ASSUME TradeAssumption == NoTrade \notin Windows /\ Amounts \subseteq Nat

VARIABLE trade     \* m_trade: with whom, items, money, accepted

Trading(p)  == trade[p] # NoTrade
Trader(p)   == trade[p].with
\* GetItem of the slots: an item that has left the inventory is none.
Offered(p)  == trade[p].items \cap bag[p]
Window(p)   == <<trade[p].items, trade[p].money>>

InitTrade == trade = [p \in Players |-> NoTrade]

\* HandleInitiateTradeOpcode.
InitiateTrade(p, q) ==
    /\ Online(p) /\ Online(q) /\ p # q
    /\ ~Trading(p) /\ ~Trading(q)
    /\ LET new(r) == [with |-> r, items |-> {}, money |-> 0, accepted |-> FALSE]
       IN  trade' = [trade EXCEPT ![p] = new(q), ![q] = new(p)]
    /\ spent.trades < MaxTrades /\ Spend("trades")
    /\ UNCHANGED owned

Unaccepted(w) == [w EXCEPT !.accepted = FALSE]

\* Mutant: the partner's accept stands.
ChangeOwn(p, w) ==
    trade' = [trade EXCEPT ![p] = Unaccepted(w)]

\* TradeData::SetItem, SetMoney: a change takes both accepts back.
Change(p, w) ==
    trade' = [trade EXCEPT ![p] = Unaccepted(w), ![Trader(p)] = Unaccepted(@)]

SetTradeItem(p, i) ==
    /\ Trading(p)
    /\ i \in bag[p] /\ i \notin trade[p].items
    /\ Change(p, [trade[p] EXCEPT !.items = @ \cup {i}])
    /\ UNCHANGED <<owned, spent>>

ClearTradeItem(p, i) ==
    /\ Trading(p)
    /\ i \in trade[p].items
    /\ Change(p, [trade[p] EXCEPT !.items = @ \ {i}])
    /\ UNCHANGED <<owned, spent>>

SetTradeGold(p, amount) ==
    /\ Trading(p)
    /\ amount # trade[p].money
    /\ HasEnoughMoney(p, amount)
    /\ Change(p, [trade[p] EXCEPT !.money = amount])
    /\ UNCHANGED <<owned, spent>>

Unaccept(p) ==
    /\ Trading(p)
    /\ trade' = [trade EXCEPT ![p] = Unaccepted(@)]
    /\ UNCHANGED <<owned, spent>>

\* TradeCancel, by the client, a flight, or the logout.
Cancelled(p) ==
    IF Trading(p) THEN [trade EXCEPT ![p] = NoTrade, ![Trader(p)] = NoTrade] ELSE trade

TradeCancel(p) ==
    /\ Trading(p)
    /\ trade' = Cancelled(p)
    /\ UNCHANGED <<owned, spent>>

-----------------------------------------------------------------------------
Pays(p) == HasEnoughMoney(p, trade[p].money)
Holds(p) == money[p] < MaxMoney - trade[Trader(p)].money

\* Whose accept the checks of HandleAcceptTradeOpcode take back, in their order.
Refused(p, q) ==
    IF ~Pays(p) THEN {p} ELSE IF ~Pays(q) THEN {q}
    ELSE IF ~Holds(p) THEN {p} ELSE IF ~Holds(q) THEN {q} ELSE {}

(***************************************************************************)
(* The handler's early ends: my accept counts from here on, unless one of  *)
(* the checks fails, or both have accepted and one has no room.            *)
(***************************************************************************)
AcceptTrade(p, full) ==
    LET q == Trader(p)
        refused == Refused(p, q)
        off == IF refused # {} THEN refused ELSE IF full THEN {p, q} ELSE {}
    IN
    /\ Trading(p)
    /\ full => refused = {} /\ trade[q].accepted /\ Offered(p) \cup Offered(q) # {}
    /\ refused # {} \/ full \/ ~trade[q].accepted
    /\ trade' = [r \in Players |->
         IF r \in {p, q}
         THEN [trade[r] EXCEPT !.accepted = r \notin off /\ (r = p \/ trade[r].accepted)]
         ELSE trade[r]]
    /\ UNCHANGED <<owned, spent>>

\* Too far away: my accept is taken back.
AcceptTooFar(p) == Unaccept(p)

\* Mutant: the trader is not saved.
CompleteUnsaved(p) ==
    LET q == Trader(p) IN
    /\ Trading(p)
    /\ Refused(p, q) = {} /\ trade[q].accepted
    /\ bag' = [bag EXCEPT ![p] = (@ \ Offered(p)) \cup Offered(q),
                          ![q] = (@ \ Offered(q)) \cup Offered(p)]
    /\ money' = [money EXCEPT ![p] = @ - trade[p].money + trade[q].money,
                              ![q] = @ - trade[q].money + trade[p].money]
    /\ trade' = [trade EXCEPT ![p] = NoTrade, ![q] = NoTrade]
    /\ Commit({p}, {p}, Nothing)
    /\ UNCHANGED <<status, erased, taken, spent>>

\* Both have accepted: items and money change hands, and both are saved.
CompleteTrade(p) ==
    LET q == Trader(p)
        given(r, s) == Debit(Credit(Debit(money, r, trade[r].money), r, trade[s].money),
                             s, trade[s].money)
    IN
    /\ Trading(p)
    /\ Refused(p, q) = {} /\ trade[q].accepted
    /\ bag' = [bag EXCEPT ![p] = (@ \ Offered(p)) \cup Offered(q),
                          ![q] = (@ \ Offered(q)) \cup Offered(p)]
    /\ money' = Credit(given(p, q), q, trade[p].money)
    /\ trade' = Cancelled(p)
    /\ Commit({p, q}, {p, q}, Nothing)
    /\ UNCHANGED <<status, erased, taken, spent>>

TradeStep(p) ==
    \/ \E q \in Players : InitiateTrade(p, q)
    \/ \E i \in Items : SetTradeItem(p, i) \/ ClearTradeItem(p, i)
    \/ \E amount \in Amounts : SetTradeGold(p, amount)
    \/ \E full \in BOOLEAN : AcceptTrade(p, full)
    \/ Unaccept(p) \/ AcceptTooFar(p) \/ CompleteTrade(p)
    \/ TradeCancel(p)

=============================================================================
