-------------------------------- MODULE Mail --------------------------------
(***************************************************************************)
(* The mailbox (MailHandler.cpp, Mail.cpp, ObjectMgr.cpp).                 *)
(***************************************************************************)
EXTENDS Holdings

CONSTANTS
    Postage,       \* price of a mail
    Parcels        \* money, and price (COD), of the mails that players send

ASSUME MailAssumption == Postage \in Nat /\ Parcels \subseteq Nat \X Nat

\* HandleSendMail: of one item or none, with money or a price (COD).
SendMail(p, q, item, amount, cod) ==
    LET new == Letter("normal", p, q, item, amount, cod, "") IN
    /\ Online(p) /\ p # q
    /\ item = NoItem \/ item \in bag[p]
    /\ item # NoItem \/ (amount > 0 /\ cod = 0)
    /\ HasEnoughMoney(p, Postage + amount)
    /\ Free(1)
    /\ money' = Debit(money, p, Postage + amount)
    /\ bag' = [bag EXCEPT ![p] = @ \ {item}]
    /\ Commit({p}, {p}, SendMails(<<new>>))
    /\ Take(Postage, {})
    /\ UNCHANGED <<status, erased, spent>>

\* HandleGetMailList.
GetMailList(p) ==
    /\ status[p] = "online"
    /\ status' = [status EXCEPT ![p] = "listed"]
    /\ UNCHANGED <<money, bag, mails, erased, disk, taken, spent>>

\* Mutant: MAIL_STATE_DELETED is not looked at.
OpensErased(p, i) ==
    status[p] = "listed" /\ mails[i] # NoMail /\ mails[i].to = p

\* GetMail, and the checks every handler makes of what it finds.
Opens(p, i) ==
    /\ status[p] = "listed"
    /\ mails[i] # NoMail /\ mails[i].to = p
    /\ i \notin erased

\* HandleMailDelete: only marks the mail, whatever it carries, if it has no COD.
MailDelete(p, i) ==
    /\ Opens(p, i)
    /\ mails[i].cod = 0
    /\ erased' = erased \cup {i}
    /\ UNCHANGED <<status, money, bag, mails, disk, taken, spent>>

(***************************************************************************)
(* HandleMailReturnToSender: a new mail without the COD; a mail that no    *)
(* player sent is deleted with what it carries.                            *)
(***************************************************************************)
MailReturnToSender(p, i) ==
    LET m == mails[i]
        back == Letter("normal", p, m.from, m.item, m.money, 0, "returned")
        returned == m.type = "normal"
    IN
    /\ Opens(p, i)
    /\ UNCHANGED <<money, bag>>
    /\ Commit({}, {}, [j \in {i} |-> IF returned THEN back ELSE NoMail])
    /\ Take(0, IF returned THEN {} ELSE {i})
    /\ UNCHANGED <<status, erased, spent>>

\* HandleMailTakeItem: the COD goes to the sender by mail.  Without room in the
\* inventory nothing happens.
MailTakeItem(p, i) ==
    LET m == mails[i]
        payment == Letter("normal", p, m.from, NoItem, m.cod, 0, "codpaid")
        rest == [j \in {i} |-> Remains([m EXCEPT !.item = NoItem, !.cod = 0])]
    IN
    /\ Opens(p, i)
    /\ m.item # NoItem
    /\ HasEnoughMoney(p, m.cod)
    /\ Free(1)
    /\ money' = Debit(money, p, m.cod)
    /\ bag' = [bag EXCEPT ![p] = @ \cup {m.item}]
    /\ Commit({p}, {p}, Over(Over(SaveMail(p), rest), SendMails(<<payment>>)))
    /\ erased' = erased \ DOMAIN SaveMail(p)
    /\ Take(0, DOMAIN SaveMail(p))
    /\ UNCHANGED <<status, spent>>

\* HandleMailTakeMoney.
MailTakeMoney(p, i) ==
    LET m == mails[i]
        rest == [j \in {i} |-> Remains([m EXCEPT !.money = 0])]
    IN
    /\ Opens(p, i)
    /\ CanCredit(p, m.money)
    /\ money' = Credit(money, p, m.money)
    /\ UNCHANGED bag
    /\ Commit({p}, {}, Over(SaveMail(p), rest))
    /\ erased' = erased \ DOMAIN SaveMail(p)
    /\ Take(0, DOMAIN SaveMail(p))
    /\ UNCHANGED <<status, spent>>

(***************************************************************************)
(* ReturnOrDeleteOldMails, for one mail that has expired.  A receiver who  *)
(* has listed his mails is passed over.  A mail with an item goes back to  *)
(* its sender, once, without the COD; any other is deleted.                *)
(***************************************************************************)
ReturnOrDelete(i) ==
    LET m == mails[i]
        returned == m.item # NoItem /\ m.type = "normal" /\ m.checked = ""
        back == [m EXCEPT !.from = m.to, !.to = m.from, !.cod = 0, !.checked = "returned"]
    IN
    /\ m # NoMail
    /\ status[m.to] # "listed"
    /\ UNCHANGED <<money, bag>>
    /\ Commit({}, {}, [j \in {i} |-> IF returned THEN back ELSE NoMail])
    /\ Take(0, IF returned THEN {} ELSE {i})
    /\ UNCHANGED <<status, erased, spent>>

MailStep ==
    \/ \E p, q \in Players, item \in Items \cup {NoItem}, parcel \in Parcels :
         SendMail(p, q, item, parcel[1], parcel[2])
    \/ \E p \in Players : GetMailList(p)
    \/ \E p \in Players, i \in MailIds :
         \/ MailDelete(p, i) \/ MailReturnToSender(p, i)
         \/ MailTakeItem(p, i) \/ MailTakeMoney(p, i)
    \/ \E i \in MailIds : ReturnOrDelete(i)

=============================================================================
