------------------------------- MODULE Economy -------------------------------
(***************************************************************************)
(* Trade, mail and the auction house of one realm, with logins, logouts,   *)
(* periodic saves and crashes: what belongs to whom.                       *)
(***************************************************************************)
EXTENDS Trade, AuctionHouse, Mail

vars == <<owned, spent, trade, auctionVars>>

Init == InitHoldings /\ InitTrade /\ InitAuctions

\* LogoutPlayer: SaveToDB, and CleanupsBeforeDelete, which cancels the trade.
Logout(p) ==
    LET change == SaveMail(p) IN
    /\ Online(p)
    /\ status' = [status EXCEPT ![p] = "offline"]
    /\ UNCHANGED <<money, bag>>
    /\ Commit({p}, {p}, change)
    /\ erased' = erased \ DOMAIN change
    /\ Take(0, DOMAIN change)
    /\ trade' = Cancelled(p)
    /\ UNCHANGED spent

-----------------------------------------------------------------------------
Carried(letters) == [i \in MailIds |-> IF letters[i] = NoMail THEN 0 ELSE letters[i].money]
Held(auctions) == [i \in Items |->
    IF auctions[i] = NoAuction THEN 0 ELSE auctions[i].bid + auctions[i].deposit]

\* Money in purses, mails, bids and deposits.
Wealth(purses, letters, auctions) ==
    SumOver(purses) + SumOver(Carried(letters)) + SumOver(Held(auctions))

\* Deposits that sellers have not paid yet.
Debt == Deposit * SumOver([p \in Players |-> Len(pending[p].auctions)])

Total == SumOver(CHOOSE f \in Purses : TRUE)
ASSUME EconomyAssumption == \A f \in Purses : SumOver(f) = Total

(***************************************************************************)
(* The process dies.  After the start everything is as the database has    *)
(* it: what sellers had not paid, or not saved, is money that was made.    *)
(***************************************************************************)
Crash ==
    /\ status' = [p \in Players |-> "offline"]
    /\ money' = disk.money /\ bag' = disk.bag /\ mails' = disk.mails
    /\ house' = houseRows
    /\ erased' = {}
    /\ trade' = [p \in Players |-> NoTrade]
    /\ pending' = [p \in Players |-> [auctions |-> <<>>, count |-> 0]]
    /\ taken' = [taken EXCEPT !.money = Total - Wealth(disk.money, disk.mails, houseRows)]
    /\ UNCHANGED <<disk, houseRows, spent>>

Next ==
    \/ \E p \in Players :
         \/ (Login(p) \/ SaveToDB(p)) /\ UNCHANGED <<trade, auctionVars>>
         \/ Logout(p) /\ UNCHANGED auctionVars
         \/ TradeStep(p) /\ UNCHANGED auctionVars
    \/ AuctionStep /\ UNCHANGED trade
    \/ MailStep /\ UNCHANGED <<trade, auctionVars>>
    \/ Crash

Spec == Init /\ [][Next]_vars

-----------------------------------------------------------------------------
Places(i, bags, letters, auctions) ==
    {<<"bag", p>> : p \in {q \in Players : i \in bags[q]}}
      \cup {<<"mail", n>> : n \in {k \in MailIds : letters[k] # NoMail /\ letters[k].item = i}}
      \cup {<<"house", a>> : a \in {auctions[i]} \ {NoAuction}}

(***************************************************************************)
(* An item is in exactly one place, an inventory, a mail or the auction    *)
(* house, whatever trades, sales, returns and crashes come together; it is *)
(* in none only if its mail was deleted.  The database, which a crash may  *)
(* show at any time, says the same.                                        *)
(***************************************************************************)
ItemsInOnePlace ==
    \A i \in Items :
      /\ Cardinality(Places(i, bag, mails, house)) = (IF i \in taken.items THEN 0 ELSE 1)
      /\ Cardinality(Places(i, disk.bag, disk.mails, houseRows)) =
           (IF i \in taken.items THEN 0 ELSE 1)

(***************************************************************************)
(* The books balance: purses, mails, bids and deposits, less the deposits  *)
(* still owed, are what there was at first less postage, cuts, lost        *)
(* deposits and deleted mails, plus the deposits that nobody paid.         *)
(***************************************************************************)
MoneyBalances == Wealth(money, mails, house) - Debt + taken.money = Total

(***************************************************************************)
(* A crash shows nothing older than the last handler, but for the debits   *)
(* of deposits, which no transaction saves.                                *)
(***************************************************************************)
CrashLosesNothing ==
    /\ disk.bag = bag /\ disk.mails = mails /\ houseRows = house
    /\ \A p \in Players : money[p] <= disk.money[p]

(***************************************************************************)
(* While an accept stands, neither window changes; and a trade that ends   *)
(* moves nothing, or, after an accept, what the windows show of what their *)
(* owners still have.                                                      *)
(***************************************************************************)
TradeAsAgreed ==
    [][\A p \in Players : Trading(p) =>
         LET q == Trader(p) IN
         IF trade'[p] # NoTrade
         THEN trade[p].accepted /\ trade'[p].accepted =>
                trade'[p].items = trade[p].items /\ trade'[p].money = trade[p].money
                /\ trade'[q].items = trade[q].items /\ trade'[q].money = trade[q].money
         ELSE \/ bag'[p] = bag[p] /\ money'[p] >= money[p]
              \/ /\ trade[p].accepted \/ trade[q].accepted
                 /\ bag'[p] = (bag[p] \ Offered(p)) \cup Offered(q)
                 /\ money'[p] = money[p] - trade[p].money + trade[q].money]_vars

(***************************************************************************)
(* RemoveAuction's comment, AuctionHouseMgr.cpp:570: "we need to delete    *)
(* the entry, it is not referenced any more".                              *)
(***************************************************************************)
RemovedIsUnreferenced == \A p \in Players : Dangling \notin Range(pending[p].auctions)

=============================================================================
