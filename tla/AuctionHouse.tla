----------------------------- MODULE AuctionHouse -----------------------------
(***************************************************************************)
(* The auction house (AuctionHouseMgr.cpp, AuctionHouseHandler.cpp).  An   *)
(* item is in one auction at most, so that it names the auction.  Auctions *)
(* of a part of a stack, and owners that no longer exist, are left out.    *)
(***************************************************************************)
EXTENDS Holdings

CONSTANTS
    NoAuction, Dangling,
    Prices, Buyouts,   \* what sellers and bidders ask for; 0 is no buyout
    Deposit,           \* GetAuctionDeposit of one item
    CutPercent         \* of the bid, kept at a sale

Auctions ==
    [owner : Players, startbid : Nat, buyout : Nat, bidder : Players \cup {NoItem},
     bid : Nat, deposit : Nat]

ASSUME AuctionAssumption ==
    /\ NoAuction \notin Auctions
    /\ Dangling \notin Items
    /\ Prices \subseteq Nat /\ Buyouts \subseteq Nat
    /\ Deposit \in Nat
    /\ CutPercent \in 0..100

VARIABLES
    house,             \* AuctionsMap and mAitems
    pending,           \* pendingAuctionMap: the auctions, and their number at the last update
    houseRows          \* auctionhouse in the database

auctionVars == <<house, pending, houseRows>>

InitAuctions ==
    /\ house = [i \in Items |-> NoAuction]
    /\ pending = [p \in Players |-> [auctions |-> <<>>, count |-> 0]]
    /\ houseRows = house

InHouse(i) == house[i] # NoAuction
Cut(a)     == (a.bid * CutPercent) \div 100
OutBid(a)  == LET five == (a.bid * 5) \div 100 IN IF five = 0 THEN 1 ELSE five

AuctionMail(to, item, amount) == Letter("auction", NoItem, to, item, amount, 0, "")

\* SendAuctionOutbiddedMail and SendAuctionCancelledToBidderMail.
Refund(a) == AuctionMail(a.bidder, NoItem, a.bid)

\* Mutant: the owner gets no deposit back, and pays no cut.
SoldForBid(a, i) ==
    <<AuctionMail(a.owner, NoItem, a.bid), AuctionMail(a.bidder, i, 0)>>

\* SendAuctionSuccessfulMail and SendAuctionWonMail.
Sold(a, i) ==
    <<AuctionMail(a.owner, NoItem, a.bid + a.deposit - Cut(a)), AuctionMail(a.bidder, i, 0)>>

(***************************************************************************)
(* DeleteFromDB, RemoveAItem and RemoveAuction, which deletes the entry: a *)
(* pointer to it in the pending list of its owner dangles from then on.    *)
(***************************************************************************)
RemoveAuction(i) ==
    /\ house' = [house EXCEPT ![i] = NoAuction]
    /\ houseRows' = [houseRows EXCEPT ![i] = NoAuction]
    /\ pending' = [pending EXCEPT ![house[i].owner].auctions =
                      [k \in DOMAIN @ |-> IF @[k] = i THEN Dangling ELSE @[k]]]

(***************************************************************************)
(* HandleAuctionSellItem: the deposit is only looked for; it is paid when  *)
(* the seller has stopped adding auctions.                                 *)
(***************************************************************************)
AuctionSellItem(p, i, startbid, buyout) ==
    LET new == [owner |-> p, startbid |-> startbid, buyout |-> buyout,
                bidder |-> NoItem, bid |-> 0, deposit |-> Deposit]
    IN
    /\ Online(p)
    /\ i \in bag[p] /\ ~InHouse(i)
    /\ HasEnoughMoney(p, Deposit)
    /\ house' = [house EXCEPT ![i] = new]
    /\ pending' = [pending EXCEPT ![p].auctions = Append(@, i)]
    /\ bag' = [bag EXCEPT ![p] = @ \ {i}]
    /\ houseRows' = [houseRows EXCEPT ![i] = new]
    /\ UNCHANGED money
    /\ Commit({p}, {p}, Nothing)
    /\ spent.sales < MaxSales /\ Spend("sales")
    /\ UNCHANGED <<status, erased, taken>>

\* The total deposit is divided; the last auction gets the remainder.
Shares(n) == LET total == Deposit * n
             IN  [k \in 1..n |-> IF k = n THEN total - (n - 1) * (total \div n) ELSE total \div n]

(***************************************************************************)
(* PendingAuctionProcess: the seller pays, or what he has left of it.  It  *)
(* goes through the entries by their pointers: with one that dangles the   *)
(* behaviour is undefined, and no step is modelled.                        *)
(***************************************************************************)
PendingAuctionProcess(p) ==
    LET list == pending[p].auctions
        n == Len(list)
        paid == [i \in Items |->
                   LET at == {k \in DOMAIN list : list[k] = i}
                   IN  IF at = {} THEN house[i]
                       ELSE [house[i] EXCEPT !.deposit = Shares(n)[CHOOSE k \in at : TRUE]]]
    IN
    /\ Online(p)
    /\ n > 0 /\ n = pending[p].count
    /\ Dangling \notin Range(list)
    /\ house' = paid
    /\ houseRows' = [i \in Items |-> IF i \in Range(list) THEN paid[i] ELSE houseRows[i]]
    /\ pending' = [pending EXCEPT ![p] = [auctions |-> <<>>, count |-> 0]]
    /\ money' = Debit(money, p, Deposit * n)
    /\ Take(money[p] - money'[p] - Deposit * n, {})
    /\ UNCHANGED <<status, bag, mails, erased, disk, spent>>

\* UpdatePendingAuctions: the seller has added auctions since the last one.
PendingAuctionCount(p) ==
    /\ Online(p)
    /\ Len(pending[p].auctions) # pending[p].count
    /\ pending' = [pending EXCEPT ![p].count = Len(pending[p].auctions)]
    /\ UNCHANGED <<owned, spent, house, houseRows>>

\* UpdatePendingAuctions: the seller is gone, his auctions expire at once.
PendingAuctionsOffline(p) ==
    LET list == pending[p].auctions IN
    /\ ~Online(p)
    /\ list # <<>>
    /\ Dangling \notin Range(list)
    /\ houseRows' = [i \in Items |-> IF i \in Range(list) THEN house[i] ELSE houseRows[i]]
    /\ pending' = [pending EXCEPT ![p] = [auctions |-> <<>>, count |-> 0]]
    /\ Take(-Deposit * Len(list), {})
    /\ UNCHANGED <<status, money, bag, mails, erased, disk, house, spent>>

-----------------------------------------------------------------------------
\* HandleAuctionPlaceBid: the common checks.
MayBid(p, i, price) ==
    LET a == house[i] IN
    /\ Online(p)
    /\ InHouse(i) /\ a.owner # p
    /\ price > a.bid /\ price >= a.startbid
    /\ price >= IF a.buyout # 0 /\ price >= a.buyout THEN a.buyout ELSE a.bid + OutBid(a)
    /\ HasEnoughMoney(p, price)

\* The bidder pays the price, or what it adds to his own bid.
Owes(p, a, price) == IF a.bidder = p THEN price - a.bid ELSE price

Outbidded(p, a) == IF a.bidder \notin {NoItem, p} THEN <<Refund(a)>> ELSE <<>>

AuctionPlaceBid(p, i, price) ==
    LET a == house[i]
        bid == [a EXCEPT !.bidder = p, !.bid = price]
        outbid == Outbidded(p, a)
    IN
    /\ MayBid(p, i, price)
    /\ a.buyout = 0 \/ price < a.buyout
    /\ Free(Len(outbid))
    /\ money' = Debit(money, p, Owes(p, a, price))
    /\ house' = [house EXCEPT ![i] = bid]
    /\ houseRows' = [houseRows EXCEPT ![i].bidder = p, ![i].bid = price]
    /\ UNCHANGED bag
    /\ Commit({p}, {p}, SendMails(outbid))
    /\ UNCHANGED <<status, erased, taken, spent, pending>>

AuctionBuyout(p, i, price) ==
    LET a == house[i]
        bought == [a EXCEPT !.bidder = p, !.bid = a.buyout]
        sent == Outbidded(p, a) \o Sold(bought, i)
    IN
    /\ MayBid(p, i, price)
    /\ a.buyout # 0 /\ price >= a.buyout
    /\ Free(Len(sent))
    /\ money' = Debit(money, p, Owes(p, a, a.buyout))
    /\ UNCHANGED bag
    /\ Commit({p}, {p}, SendMails(sent))
    /\ RemoveAuction(i)
    /\ Take(Cut(bought), {})
    /\ UNCHANGED <<status, erased, spent>>

(***************************************************************************)
(* HandleAuctionRemoveItem: the owner pays the cut of a bid, the bidder is *)
(* refunded, the item goes back by mail, the deposit is lost.              *)
(***************************************************************************)
AuctionRemoveItem(p, i) ==
    LET a == house[i]
        fee == IF a.bidder # NoItem THEN Cut(a) ELSE 0
        sent == Outbidded(p, a) \o <<AuctionMail(p, i, 0)>>
    IN
    /\ Online(p)
    /\ InHouse(i) /\ a.owner = p
    /\ HasEnoughMoney(p, fee)
    /\ Free(Len(sent))
    /\ money' = Debit(money, p, fee)
    /\ UNCHANGED bag
    /\ Commit({p}, {p}, SendMails(sent))
    /\ RemoveAuction(i)
    /\ Take(fee + a.deposit, {})
    /\ UNCHANGED <<status, erased, spent>>

(***************************************************************************)
(* AuctionHouseObject::Update, for one auction that has expired.  Auctions *)
(* last for hours: none expires while its deposit is pending.              *)
(***************************************************************************)
AuctionExpire(i) ==
    LET a == house[i]
        sold == a.bidder # NoItem
        sent == IF sold THEN Sold(a, i) ELSE <<AuctionMail(a.owner, i, 0)>>
    IN
    /\ InHouse(i)
    /\ i \notin Range(pending[a.owner].auctions)
    /\ Free(Len(sent))
    /\ UNCHANGED <<money, bag>>
    /\ Commit({}, {}, SendMails(sent))
    /\ RemoveAuction(i)
    /\ Take(IF sold THEN Cut(a) ELSE a.deposit, {})
    /\ UNCHANGED <<status, erased, spent>>

AuctionStep ==
    \/ \E p \in Players : PendingAuctionProcess(p) \/ PendingAuctionCount(p) \/ PendingAuctionsOffline(p)
    \/ \E p \in Players, i \in Items :
         \/ \E startbid \in Prices, buyout \in Buyouts : AuctionSellItem(p, i, startbid, buyout)
         \/ \E price \in Prices : AuctionPlaceBid(p, i, price) \/ AuctionBuyout(p, i, price)
         \/ AuctionRemoveItem(p, i)
    \/ \E i \in Items : AuctionExpire(i)

=============================================================================
