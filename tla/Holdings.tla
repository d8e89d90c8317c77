------------------------------ MODULE Holdings ------------------------------
(***************************************************************************)
(* What the characters of the realm own, in memory and in the database:    *)
(* money, inventories and mails.  Trade, Mail and AuctionHouse move it.    *)
(*                                                                         *)
(* Handlers run one at a time on the world thread, and each commits one    *)
(* transaction to one queue: what a crash leaves is what some earlier      *)
(* crash would leave, so that disk may change at the commit.               *)
(*                                                                         *)
(* A mail that carries neither money nor an item is text and is not kept.  *)
(* Delays of delivery may have any length, and none.  An inventory also    *)
(* holds what is not modelled: it may have room for an item or not.        *)
(***************************************************************************)
EXTENDS Integers, Sequences, FiniteSets, Functions

CONSTANTS
    Players, Items,
    NoItem,
    MaxMoney,      \* MAX_MONEY_AMOUNT
    Purses,        \* what money the characters may have at first
    MaxMails,      \* bounds: on mails that exist at once,
    MaxTrades, MaxSales  \* on trades and auctions in all

ASSUME HoldingsAssumption ==
    /\ NoItem \notin Items \cup Players
    /\ Purses \subseteq [Players -> Nat]
    /\ MaxMails \in Nat
    /\ IsFiniteSet(Players) /\ IsFiniteSet(Items)

VARIABLES
    status,        \* offline, online, or listed (online and m_mailsLoaded)
    money,         \* PLAYER_FIELD_COINAGE
    bag,           \* the items of the inventory
    mails,         \* the mails, as their receivers' m_mail will show them
    erased,        \* ids of the mails in MAIL_STATE_DELETED
    disk,          \* money, bag and mails in the database
    spent,         \* how many of the bounds are used up
    taken          \* history: money the realm took, less what it made, and items it deleted

owned == <<status, money, bag, mails, erased, disk, taken>>

\* The sum of a function's values, natural numbers: as many as they have units.
Coins(f)   == UNION {{x} \X (1..f[x]) : x \in DOMAIN f}
SumOver(f) == Cardinality(Coins(f))

Spend(what) == spent' = [spent EXCEPT ![what] = @ + 1]

NoMail  == [to |-> NoItem]
MailIds == 1..MaxMails
Online(p) == status[p] # "offline"

Letter(type, from, to, item, amount, cod, checked) ==
    [type |-> type, from |-> from, to |-> to, item |-> item,
     money |-> amount, cod |-> cod, checked |-> checked]

FreeIds == {i \in MailIds : mails[i] = NoMail}
Free(n) == Cardinality(FreeIds) >= n

\* The places of the letters that carry something.
Carrying(new) == {k \in DOMAIN new : new[k].item # NoItem \/ new[k].money > 0}

(***************************************************************************)
(* SendMailTo: new rows for the mails that carry something.  The result is *)
(* the change of the mails: a function from some ids to their new content. *)
(* Ids only have to be free: no id is used twice in the code.              *)
(***************************************************************************)
SendMails(new) ==
    LET row == CHOOSE f \in Injection(Carrying(new), FreeIds) : TRUE
    IN  [i \in Range(row) |-> new[CHOOSE k \in DOMAIN row : row[k] = i]]

\* f, and g where f is not defined.
Over(f, g) ==
    [x \in DOMAIN f \cup DOMAIN g |-> IF x \in DOMAIN f THEN f[x] ELSE g[x]]

Remains(m) == IF m.item = NoItem /\ m.money = 0 THEN NoMail ELSE m

Nothing == SendMails(<<>>)

HasEnoughMoney(p, amount) == money[p] >= amount

\* ModifyMoney of a negative amount stops at zero; of a positive one, it fails
\* when the sum would reach the limit.
Debit(purse, p, amount)  == [purse EXCEPT ![p] = IF @ > amount THEN @ - amount ELSE 0]
CanCredit(p, amount)     == amount = 0 \/ money[p] < MaxMoney - amount
Credit(purse, p, amount) == [purse EXCEPT ![p] = @ + amount]

Written(old, new, who) == [p \in Players |-> IF p \in who THEN new[p] ELSE old[p]]

\* A transaction with SaveGoldToDB of some characters, _SaveInventory of some,
\* and a change of the mails.
Commit(gold, inventory, change) ==
    /\ mails' = Over(change, mails)
    /\ disk' = [money |-> Written(disk.money, money', gold),
                bag   |-> Written(disk.bag, bag', inventory),
                mails |-> Over(change, disk.mails)]

\* _SaveMail: the mails deleted by p go, with what they carry.
SaveMail(p) == [i \in {i \in erased : mails[i].to = p} |-> NoMail]

\* The realm keeps a fee, and what the mails that are deleted carry.
Take(fee, deleted) ==
    taken' = [money |-> taken.money + fee + SumOver([i \in deleted |-> mails[i].money]),
              items |-> taken.items \cup ({mails[i].item : i \in deleted} \ {NoItem})]

InitHoldings ==
    /\ status = [p \in Players |-> "offline"]
    /\ money \in Purses
    /\ bag \in {[p \in Players |-> {i \in Items : owner[i] = p}] : owner \in [Items -> Players]}
    /\ mails = [i \in MailIds |-> NoMail] /\ erased = {}
    /\ disk = [money |-> money, bag |-> bag, mails |-> mails]
    /\ taken = [money |-> 0, items |-> {}]
    /\ spent = [trades |-> 0, sales |-> 0]

\* LoadFromDB.
Login(p) ==
    /\ ~Online(p)
    /\ status' = [status EXCEPT ![p] = "online"]
    /\ money' = [money EXCEPT ![p] = disk.money[p]]
    /\ bag' = [bag EXCEPT ![p] = disk.bag[p]]
    /\ UNCHANGED <<mails, erased, disk, taken, spent>>

\* SaveToDB: periodically and at logout.
SaveToDB(p) ==
    LET change == SaveMail(p) IN
    /\ Online(p)
    /\ UNCHANGED <<status, money, bag, spent>>
    /\ Commit({p}, {p}, change)
    /\ erased' = erased \ DOMAIN change
    /\ Take(0, DOMAIN change)

=============================================================================
