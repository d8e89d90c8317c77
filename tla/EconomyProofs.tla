---------------------------- MODULE EconomyProofs ----------------------------
(***************************************************************************)
(* Proofs about Economy, for any characters, items and prices: an item is  *)
(* in one place, a crash loses nothing but deposits, and a trade moves     *)
(* what its windows show.                                                  *)
(***************************************************************************)
EXTENDS Economy, FiniteSetTheorems, TLAPS

Letters ==
    {m \in [type : {"normal", "auction"}, from : Players \cup {NoItem}, to : Players,
            item : Items \cup {NoItem}, money : Nat, cod : Nat,
            checked : {"", "returned", "codpaid"}] :
       /\ m.type = "normal" => m.from \in Players
       /\ m.type = "auction" => m.cod = 0}

Purse  == [Players -> Nat]
Bags   == [Players -> SUBSET Items]
Box    == [MailIds -> Letters \cup {NoMail}]
House  == [Items -> Auctions \cup {NoAuction}]
Adding == [auctions : Seq(Items \cup {Dangling}), count : Nat]

\* What is in memory is in the database, but for debits of deposits.
Stored ==
    /\ money \in Purse /\ bag \in Bags /\ mails \in Box
    /\ disk \in [money : Purse, bag : Bags, mails : Box]
    /\ disk.bag = bag /\ disk.mails = mails
    /\ \A p \in Players : money[p] <= disk.money[p]

\* A bid stays below the buyout; a pending auction whose entry is not deleted
\* is in the house, its owner's.
HouseInv ==
    /\ house \in House /\ houseRows = house
    /\ \A i \in Items : InHouse(i) /\ house[i].buyout # 0 => house[i].bid < house[i].buyout
    /\ pending \in [Players -> Adding]
    /\ \A p \in Players : \A k \in DOMAIN pending[p].auctions :
          LET i == pending[p].auctions[k] IN
          i # Dangling => house[i] # NoAuction /\ house[i].owner = p

\* The two windows of a trade name each other.
TradeInv ==
    /\ trade \in [Players -> Windows \cup {NoTrade}]
    /\ \A p \in Players : Trading(p) =>
          Trader(p) # p /\ Trading(Trader(p)) /\ Trader(Trader(p)) = p

Bookkeeping ==
    /\ status \in [Players -> {"offline", "online", "listed"}]
    /\ erased \subseteq MailIds
    /\ taken = [money |-> taken.money, items |-> taken.items]

InMail(letters, n, i) == letters[n] # NoMail /\ letters[n].item = i

Somewhere(i) ==
    \/ \E p \in Players : i \in bag[p]
    \/ \E n \in MailIds : InMail(mails, n, i)
    \/ InHouse(i)

\* ItemsInOnePlace for what is in memory, without a cardinality.
OnePlace(i) ==
    /\ \A p, q \in Players : i \in bag[p] /\ i \in bag[q] => p = q
    /\ \A m, n \in MailIds : InMail(mails, m, i) /\ InMail(mails, n, i) => m = n
    /\ \A p \in Players, n \in MailIds : ~(i \in bag[p] /\ InMail(mails, n, i))
    /\ \A p \in Players : ~(i \in bag[p] /\ InHouse(i))
    /\ \A n \in MailIds : ~(InMail(mails, n, i) /\ InHouse(i))
    /\ i \in taken.items <=> ~Somewhere(i)

PlaceInv == \A i \in Items : OnePlace(i)

IInv == Stored /\ HouseInv /\ TradeInv /\ Bookkeeping /\ PlaceInv

-----------------------------------------------------------------------------
(***************************************************************************)
(* What SendMailTo writes, and what a transaction changes.                 *)
(***************************************************************************)
\* With room for them, there are rows for the letters that carry something.
LEMMA RowsExist ==
    ASSUME NEW new \in Seq(Letters), Free(Len(new))
    PROVE  Injection(Carrying(new), FreeIds) # {}
<1> DEFINE S == FreeIds
<1> DEFINE C == Carrying(new)
<1>1. C \subseteq 1..Len(new) /\ Len(new) \in Nat  BY DEF Carrying
<1>2. IsFiniteSet(1..MaxMails)
  <2>1. MaxMails \in Nat  BY HoldingsAssumption
  <2> QED  BY <2>1, FS_Interval
<1>3. S \in SUBSET (1..MaxMails)  BY DEF FreeIds, MailIds
<1>4. Cardinality(S) >= Len(new)  BY DEF Free
<1> HIDE DEF S, C
<1>5. IsFiniteSet(S)  BY <1>2, <1>3, FS_Subset
<1>6. Cardinality(S) \in Nat /\ ExistsBijection(1..Cardinality(S), S)
  BY <1>5, FS_CardinalityType
<1>7. PICK b \in Bijection(1..Cardinality(S), S) : TRUE  BY <1>6 DEF ExistsBijection
<1>8. b \in [1..Cardinality(S) -> S] /\ IsInjective(b)  BY <1>7 DEF Bijection, Injection
<1>9. C \subseteq 1..Cardinality(S)  BY <1>1, <1>4, <1>6
<1> DEFINE f == [k \in C |-> b[k]]
<1>10. f \in [C -> S]  BY <1>8, <1>9
<1>11. IsInjective(f)  BY <1>8, <1>9 DEF IsInjective
<1>12. f \in Injection(C, S)  BY <1>10, <1>11 DEF Injection
<1> QED  BY <1>12 DEF C, S

\* The rows are of free ids, each of one letter, and hold that letter.
LEMMA SentRows ==
    ASSUME NEW new \in Seq(Letters), Free(Len(new))
    PROVE  \E row \in [Carrying(new) -> FreeIds] :
             /\ IsInjective(row)
             /\ DOMAIN SendMails(new) = Range(row)
             /\ \A k \in Carrying(new) : SendMails(new)[row[k]] = new[k]
<1> DEFINE C == Carrying(new)
<1> DEFINE row == CHOOSE f \in Injection(C, FreeIds) : TRUE
<1>1. row \in Injection(C, FreeIds)  BY RowsExist
<1>2. SendMails(new) = [i \in Range(row) |-> new[CHOOSE k \in DOMAIN row : row[k] = i]]
  BY DEF SendMails
<1> HIDE DEF row, C
<1>3. row \in [C -> FreeIds] /\ IsInjective(row) /\ DOMAIN row = C  BY <1>1 DEF Injection
<1>4. ASSUME NEW k \in C  PROVE SendMails(new)[row[k]] = new[k]
  <2>1. row[k] \in Range(row)  BY <1>3, <1>4 DEF Range
  <2>2. SendMails(new)[row[k]] = new[CHOOSE x \in DOMAIN row : row[x] = row[k]]
    BY <1>2, <2>1
  <2>3. \A x \in C : row[x] = row[k] => x = k  BY <1>3, <1>4 DEF IsInjective
  <2>4. (CHOOSE x \in DOMAIN row : row[x] = row[k]) = k  BY <1>3, <1>4, <2>3
  <2> QED  BY <2>2, <2>4
<1>5. DOMAIN SendMails(new) = Range(row)  BY <1>2
<1> QED  BY <1>3, <1>4, <1>5 DEF C

\* A letter is not the mark of a free id: it has a receiver.
LEMMA LettersAreMails == NoMail \notin Letters
<1>1. ASSUME NoMail \in Letters  PROVE FALSE
  <2>1. NoMail.to \in Players  BY <1>1 DEF Letters
  <2>2. NoMail.to = NoItem  BY DEF NoMail
  <2> QED  BY <2>1, <2>2, HoldingsAssumption
<1> QED  BY <1>1

\* A change of the mails.
LEMMA OverBox ==
    ASSUME NEW f, DOMAIN f \subseteq MailIds,
           \A n \in DOMAIN f : f[n] \in Letters \cup {NoMail}, NEW b \in Box
    PROVE  /\ Over(f, b) \in Box
           /\ \A n \in MailIds : Over(f, b)[n] = IF n \in DOMAIN f THEN f[n] ELSE b[n]
<1>1. DOMAIN f \cup DOMAIN b = MailIds /\ b \in [MailIds -> Letters \cup {NoMail}]  BY DEF Box
<1>2. Over(f, b) = [n \in MailIds |-> IF n \in DOMAIN f THEN f[n] ELSE b[n]]
  BY <1>1 DEF Over
<1> QED  BY <1>1, <1>2 DEF Box

\* Two changes in turn are one.
LEMMA OverOver ==
    ASSUME NEW f, NEW g, NEW h
    PROVE  Over(Over(f, g), h) = Over(f, Over(g, h))
<1> DEFINE D == DOMAIN f \cup DOMAIN g \cup DOMAIN h
<1> DEFINE both == [x \in D |-> IF x \in DOMAIN f THEN f[x] ELSE IF x \in DOMAIN g THEN g[x] ELSE h[x]]
<1>1. Over(Over(f, g), h) = both
  <2>1. DOMAIN Over(f, g) = DOMAIN f \cup DOMAIN g  BY DEF Over
  <2>2. \A x \in DOMAIN f \cup DOMAIN g : Over(f, g)[x] = IF x \in DOMAIN f THEN f[x] ELSE g[x]
    BY DEF Over
  <2> DEFINE o == Over(f, g)
  <2> HIDE DEF o
  <2>3. Over(o, h) = [x \in DOMAIN o \cup DOMAIN h |-> IF x \in DOMAIN o THEN o[x] ELSE h[x]]  BY DEF Over
  <2> QED  BY <2>1, <2>2, <2>3 DEF o
<1>2. Over(f, Over(g, h)) = both
  <2>1. DOMAIN Over(g, h) = DOMAIN g \cup DOMAIN h  BY DEF Over
  <2>2. \A x \in DOMAIN g \cup DOMAIN h : Over(g, h)[x] = IF x \in DOMAIN g THEN g[x] ELSE h[x]
    BY DEF Over
  <2> DEFINE o == Over(g, h)
  <2> HIDE DEF o
  <2>3. Over(f, o) = [x \in DOMAIN f \cup DOMAIN o |-> IF x \in DOMAIN f THEN f[x] ELSE o[x]]  BY DEF Over
  <2> QED  BY <2>1, <2>2, <2>3 DEF o
<1> QED  BY <1>1, <1>2

\* What is sent is a change of the mails.
LEMMA SentIsChange ==
    ASSUME NEW new \in Seq(Letters), Free(Len(new))
    PROVE  /\ DOMAIN SendMails(new) \subseteq FreeIds
           /\ DOMAIN SendMails(new) \subseteq MailIds
           /\ \A n \in DOMAIN SendMails(new) :
                 \E k \in Carrying(new) : SendMails(new)[n] = new[k] /\ new[k] \in Letters
<1>1. PICK row \in [Carrying(new) -> FreeIds] :
             /\ IsInjective(row)
             /\ DOMAIN SendMails(new) = Range(row)
             /\ \A k \in Carrying(new) : SendMails(new)[row[k]] = new[k]  BY SentRows
<1> DEFINE sent == SendMails(new)
<1> DEFINE C == Carrying(new)
<1>2. \A k \in C : new[k] \in Letters  BY DEF Carrying
<1>3. FreeIds \subseteq MailIds  BY DEF FreeIds
<1>4. DOMAIN sent = Range(row) /\ \A k \in C : sent[row[k]] = new[k]  BY <1>1
<1>5. row \in [C -> FreeIds]  BY <1>1
<1> HIDE DEF sent, C
<1>6. DOMAIN sent \subseteq FreeIds  BY <1>4, <1>5 DEF Range
<1>7. ASSUME NEW n \in DOMAIN sent  PROVE \E k \in C : sent[n] = new[k] /\ new[k] \in Letters
  BY <1>2, <1>4, <1>5, <1>7 DEF Range
<1> QED  BY <1>3, <1>6, <1>7 DEF sent, C

\* The mails once it is done.
LEMMA SentBox ==
    ASSUME NEW new \in Seq(Letters), Free(Len(new)), NEW b \in Box
    PROVE  /\ Over(SendMails(new), b) \in Box
           /\ \A n \in MailIds : Over(SendMails(new), b)[n] =
                IF n \in DOMAIN SendMails(new) THEN SendMails(new)[n] ELSE b[n]
<1> DEFINE sent == SendMails(new)
<1> DEFINE C == Carrying(new)
<1>1. DOMAIN sent \subseteq MailIds
      /\ \A n \in DOMAIN sent : \E k \in C : sent[n] = new[k] /\ new[k] \in Letters
  BY SentIsChange
<1> HIDE DEF sent, C
<1>2. \A n \in DOMAIN sent : sent[n] \in Letters \cup {NoMail}  BY <1>1
<1>3. Over(sent, b) \in Box
      /\ \A n \in MailIds : Over(sent, b)[n] = IF n \in DOMAIN sent THEN sent[n] ELSE b[n]
  BY <1>1, <1>2, OverBox
<1> QED  BY <1>3 DEF sent

\* An item that no letter carries is sent nowhere.
LEMMA SentWithout ==
    ASSUME NEW new \in Seq(Letters), Free(Len(new)), mails \in Box, NEW i \in Items,
           \A k \in DOMAIN new : new[k].item # i
    PROVE  \A n \in MailIds : InMail(Over(SendMails(new), mails), n, i) <=> InMail(mails, n, i)
<1> DEFINE sent == SendMails(new)
<1> DEFINE C == Carrying(new)
<1> DEFINE after == Over(sent, mails)
<1>1. DOMAIN sent \subseteq FreeIds
      /\ \A n \in DOMAIN sent : \E k \in C : sent[n] = new[k] /\ new[k] \in Letters
  BY SentIsChange
<1>2. C \subseteq DOMAIN new  BY DEF Carrying
<1>3. \A n \in MailIds : after[n] = IF n \in DOMAIN sent THEN sent[n] ELSE mails[n]  BY SentBox
<1> HIDE DEF sent, C, after
<1>4. ASSUME NEW n \in MailIds  PROVE InMail(after, n, i) <=> InMail(mails, n, i)
  <2>1. CASE n \in DOMAIN sent
    <3>1. mails[n] = NoMail  BY <1>1, <2>1 DEF FreeIds
    <3>2. after[n].item # i  BY <1>1, <1>2, <1>3, <1>4, <2>1
    <3> QED  BY <3>1, <3>2 DEF InMail
  <2>2. CASE n \notin DOMAIN sent
    BY <1>3, <1>4, <2>2 DEF InMail
  <2> QED  BY <2>1, <2>2
<1> QED  BY <1>4 DEF sent, after

\* An item that one letter carries is in one more mail.
LEMMA SentItem ==
    ASSUME NEW new \in Seq(Letters), Free(Len(new)), mails \in Box, NEW i \in Items,
           NEW j \in DOMAIN new, new[j].item = i, \A k \in DOMAIN new : new[k].item = i => k = j
    PROVE  \E m \in MailIds :
             \A n \in MailIds :
                InMail(Over(SendMails(new), mails), n, i) <=> n = m \/ InMail(mails, n, i)
<1>1. PICK row \in [Carrying(new) -> FreeIds] :
             /\ IsInjective(row)
             /\ DOMAIN SendMails(new) = Range(row)
             /\ \A k \in Carrying(new) : SendMails(new)[row[k]] = new[k]  BY SentRows
<1> DEFINE sent == SendMails(new)
<1> DEFINE C == Carrying(new)
<1> DEFINE after == Over(sent, mails)
<1>2. DOMAIN sent \subseteq FreeIds  BY SentIsChange
<1>3. C \subseteq DOMAIN new  BY DEF Carrying
<1>4. j \in C  BY HoldingsAssumption DEF Carrying
<1>5. row \in [C -> FreeIds] /\ DOMAIN sent = Range(row) /\ \A k \in C : sent[row[k]] = new[k]
  BY <1>1
<1>6. FreeIds \subseteq MailIds  BY DEF FreeIds
<1>7. \A n \in MailIds : after[n] = IF n \in DOMAIN sent THEN sent[n] ELSE mails[n]  BY SentBox
<1> HIDE DEF sent, C, after
<1>8. row[j] \in MailIds /\ row[j] \in DOMAIN sent  BY <1>4, <1>5, <1>6 DEF Range
<1>9. ASSUME NEW n \in MailIds
      PROVE InMail(after, n, i) <=> n = row[j] \/ InMail(mails, n, i)
  <2>1. CASE n \in DOMAIN sent
    <3>1. mails[n] = NoMail  BY <1>2, <2>1 DEF FreeIds
    <3>2. PICK k \in C : n = row[k]  BY <1>5, <2>1 DEF Range
    <3>3. after[n] = new[k]  BY <1>5, <1>7, <2>1, <3>2
    <3>4. new[k] # NoMail  BY <1>3, LettersAreMails
    <3>5. new[k].item = i <=> k = j  BY <1>3
    <3>6. k = j <=> n = row[j]  BY <1>1, <1>4, <1>5, <3>2 DEF IsInjective, C
    <3> QED  BY <3>1, <3>3, <3>4, <3>5, <3>6 DEF InMail
  <2>2. CASE n \notin DOMAIN sent
    BY <1>7, <1>8, <1>9, <2>2 DEF InMail
  <2> QED  BY <2>1, <2>2
<1> QED  BY <1>8, <1>9 DEF sent, after

\* What is written of some of the characters, when nothing else changed.
LEMMA BagsWritten ==
    ASSUME NEW old \in Bags, NEW new \in Bags, NEW who,
           \A p \in Players : p \notin who => new[p] = old[p]
    PROVE  Written(old, new, who) = new
  BY DEF Written, Bags

\* Money that was not written is at least what there is.
LEMMA GoldWritten ==
    ASSUME NEW old \in Purse, NEW before \in Purse, NEW new \in Purse, NEW who,
           \A p \in Players : before[p] <= old[p],
           \A p \in Players : p \notin who => new[p] <= before[p]
    PROVE  /\ Written(old, new, who) \in Purse
           /\ \A p \in Players : new[p] <= Written(old, new, who)[p]
<1> DEFINE w == Written(old, new, who)
<1>1. w = [p \in Players |-> IF p \in who THEN new[p] ELSE old[p]]  BY DEF Written
<1>2. old \in [Players -> Nat] /\ new \in [Players -> Nat] /\ before \in [Players -> Nat]  BY DEF Purse
<1> HIDE DEF w
<1>3. w \in [Players -> Nat]  BY <1>1, <1>2
<1>4. ASSUME NEW p \in Players  PROVE new[p] <= w[p]
  <2>1. new[p] \in Nat /\ old[p] \in Nat /\ before[p] \in Nat  BY <1>2
  <2>2. CASE p \in who  BY <1>1, <2>1, <2>2
  <2>3. CASE p \notin who  BY <1>1, <2>1, <2>3
  <2> QED  BY <2>2, <2>3
<1> QED  BY <1>3, <1>4 DEF w, Purse

\* A transaction that saves who changed keeps memory and database together.
LEMMA CommitKeeps ==
    ASSUME Stored, NEW gold, NEW inventory, NEW change, Commit(gold, inventory, change),
           money' \in Purse, bag' \in Bags, Over(change, mails) \in Box,
           \A p \in Players : p \notin gold => money'[p] <= money[p],
           \A p \in Players : p \notin inventory => bag'[p] = bag[p]
    PROVE  Stored'
<1>1. money \in Purse /\ bag \in Bags /\ disk.money \in Purse
      /\ disk.bag = bag /\ disk.mails = mails /\ \A p \in Players : money[p] <= disk.money[p]
  BY DEF Stored
<1>2. mails' = Over(change, mails)
      /\ disk' = [money |-> Written(disk.money, money', gold),
                  bag |-> Written(disk.bag, bag', inventory), mails |-> Over(change, disk.mails)]
  BY DEF Commit
<1>3. Written(disk.bag, bag', inventory) = bag'  BY <1>1, BagsWritten
<1>4. Written(disk.money, money', gold) \in Purse
      /\ \A p \in Players : money'[p] <= Written(disk.money, money', gold)[p]
  BY <1>1, GoldWritten
<1> QED  BY <1>1, <1>2, <1>3, <1>4 DEF Stored

-----------------------------------------------------------------------------
(***************************************************************************)
(* Where an item was, and where it goes.                                   *)
(***************************************************************************)
\* An item in an inventory is nowhere else.
LEMMA FromBag ==
    ASSUME NEW i \in Items, OnePlace(i), NEW p \in Players, i \in bag[p]
    PROVE  /\ \A q \in Players : i \in bag[q] <=> q = p
           /\ \A n \in MailIds : ~InMail(mails, n, i)
           /\ ~InHouse(i) /\ i \notin taken.items
  BY DEF OnePlace, Somewhere

\* Nor is one in a mail ...
LEMMA FromMail ==
    ASSUME NEW i \in Items, OnePlace(i), NEW m \in MailIds, InMail(mails, m, i)
    PROVE  /\ \A q \in Players : i \notin bag[q]
           /\ \A n \in MailIds : InMail(mails, n, i) <=> n = m
           /\ ~InHouse(i) /\ i \notin taken.items
  BY DEF OnePlace, Somewhere

\* ... or one in the auction house.
LEMMA FromHouse ==
    ASSUME NEW i \in Items, OnePlace(i), InHouse(i)
    PROVE  /\ \A q \in Players : i \notin bag[q]
           /\ \A n \in MailIds : ~InMail(mails, n, i)
           /\ i \notin taken.items
  BY DEF OnePlace, Somewhere

\* An item that did not move.
LEMMA Stays ==
    ASSUME NEW i \in Items, OnePlace(i),
           \A q \in Players : i \in bag'[q] <=> i \in bag[q],
           \A n \in MailIds : InMail(mails', n, i) <=> InMail(mails, n, i),
           InHouse(i)' <=> InHouse(i), i \in taken'.items <=> i \in taken.items
    PROVE  OnePlace(i)'
<1>1. Somewhere(i)' <=> Somewhere(i)  BY DEF Somewhere, InMail
<1> QED  BY <1>1 DEF OnePlace, InMail

\* An item that is now in one inventory, and nowhere else.
LEMMA ToBag ==
    ASSUME NEW i \in Items, NEW p \in Players,
           \A q \in Players : i \in bag'[q] <=> q = p,
           \A n \in MailIds : ~InMail(mails', n, i),
           ~InHouse(i)', i \notin taken'.items
    PROVE  OnePlace(i)'
<1>1. Somewhere(i)'  BY DEF Somewhere
<1> QED  BY <1>1 DEF OnePlace, InMail

\* In one mail ...
LEMMA ToMail ==
    ASSUME NEW i \in Items, NEW m \in MailIds,
           \A q \in Players : i \notin bag'[q],
           \A n \in MailIds : InMail(mails', n, i) <=> n = m,
           ~InHouse(i)', i \notin taken'.items
    PROVE  OnePlace(i)'
<1>1. Somewhere(i)'  BY DEF Somewhere, InMail
<1> QED  BY <1>1 DEF OnePlace, InMail

\* ... in the auction house ...
LEMMA ToHouse ==
    ASSUME NEW i \in Items,
           \A q \in Players : i \notin bag'[q],
           \A n \in MailIds : ~InMail(mails', n, i),
           InHouse(i)', i \notin taken'.items
    PROVE  OnePlace(i)'
<1>1. Somewhere(i)'  BY DEF Somewhere
<1> QED  BY <1>1 DEF OnePlace, InMail

\* ... or deleted with its mail.
LEMMA ToNowhere ==
    ASSUME NEW i \in Items,
           \A q \in Players : i \notin bag'[q],
           \A n \in MailIds : ~InMail(mails', n, i),
           ~InHouse(i)', i \in taken'.items
    PROVE  OnePlace(i)'
<1>1. ~Somewhere(i)'  BY DEF Somewhere, InMail
<1> QED  BY <1>1 DEF OnePlace, InMail

\* Mails are deleted with what they carry, and no other item moves.
LEMMA Deleted ==
    ASSUME NEW i \in Items, OnePlace(i), NEW del, del \subseteq MailIds,
           \A n \in del : mails[n] # NoMail,
           taken'.items = taken.items \cup ({mails[n].item : n \in del} \ {NoItem}),
           \A q \in Players : i \in bag'[q] <=> i \in bag[q],
           \A n \in MailIds : InMail(mails', n, i) <=> n \notin del /\ InMail(mails, n, i),
           InHouse(i)' <=> InHouse(i)
    PROVE  OnePlace(i)'
<1>1. i # NoItem  BY HoldingsAssumption
<1>2. CASE \E m \in del : mails[m].item = i
  <2>1. PICK m \in del : mails[m].item = i  BY <1>2
  <2>2. InMail(mails, m, i) /\ m \in MailIds  BY <2>1 DEF InMail
  <2>3. /\ \A q \in Players : i \notin bag[q]
        /\ \A n \in MailIds : InMail(mails, n, i) <=> n = m
        /\ ~InHouse(i) /\ i \notin taken.items
    BY <2>2, FromMail
  <2>4. i \in taken'.items  BY <1>1, <2>1
  <2>5. \A n \in MailIds : ~InMail(mails', n, i)  BY <2>1, <2>3
  <2>6. \A q \in Players : i \notin bag'[q]  BY <2>3
  <2>7. ~InHouse(i)'  BY <2>3
  <2> QED  BY <2>4, <2>5, <2>6, <2>7, ToNowhere
<1>3. CASE ~\E m \in del : mails[m].item = i
  <2>1. i \in taken'.items <=> i \in taken.items  BY <1>3
  <2>2. \A n \in MailIds : InMail(mails', n, i) <=> InMail(mails, n, i)  BY <1>3 DEF InMail
  <2> QED  BY <2>1, <2>2, Stays
<1> QED  BY <1>2, <1>3

\* _SaveMail deletes mails of the character, and only them.
LEMMA SaveMailIs ==
    ASSUME mails \in Box, erased \subseteq MailIds, NEW p \in Players
    PROVE  /\ DOMAIN SaveMail(p) \subseteq MailIds
           /\ DOMAIN SaveMail(p) \subseteq erased
           /\ \A n \in DOMAIN SaveMail(p) : SaveMail(p)[n] = NoMail /\ mails[n] # NoMail
<1>1. DOMAIN SaveMail(p) = {n \in erased : mails[n].to = p}  BY DEF SaveMail
<1>2. NoMail.to # p  BY HoldingsAssumption DEF NoMail
<1>3. ASSUME NEW n \in DOMAIN SaveMail(p)  PROVE SaveMail(p)[n] = NoMail /\ mails[n] # NoMail
  BY <1>1, <1>2, <1>3 DEF SaveMail
<1> QED  BY <1>1, <1>3

\* The mails after it.
LEMMA SavedMails ==
    ASSUME mails \in Box, erased \subseteq MailIds, NEW p \in Players, NEW b \in Box
    PROVE  /\ Over(SaveMail(p), b) \in Box
           /\ \A n \in MailIds : Over(SaveMail(p), b)[n] =
                IF n \in DOMAIN SaveMail(p) THEN NoMail ELSE b[n]
<1> DEFINE s == SaveMail(p)
<1>1. DOMAIN s \subseteq MailIds /\ \A n \in DOMAIN s : s[n] = NoMail  BY SaveMailIs
<1> HIDE DEF s
<1>2. DOMAIN s \subseteq MailIds  BY <1>1
<1>3. \A n \in DOMAIN s : s[n] \in Letters \cup {NoMail}  BY <1>1
<1>4. Over(s, b) \in Box
      /\ \A n \in MailIds : Over(s, b)[n] = IF n \in DOMAIN s THEN s[n] ELSE b[n]
  BY <1>2, <1>3, OverBox
<1>5. \A n \in MailIds : Over(s, b)[n] = IF n \in DOMAIN s THEN NoMail ELSE b[n]  BY <1>1, <1>4
<1> QED  BY <1>4, <1>5 DEF s

\* ModifyMoney leaves a purse a purse; a debit leaves no more than there was.
LEMMA DebitIs ==
    ASSUME NEW purse \in Purse, NEW p \in Players, NEW amount \in Nat
    PROVE  /\ Debit(purse, p, amount) \in Purse
           /\ Debit(purse, p, amount)[p] <= purse[p]
           /\ purse[p] >= amount => Debit(purse, p, amount)[p] = purse[p] - amount
           /\ \A q \in Players : q # p => Debit(purse, p, amount)[q] = purse[q]
<1>1. purse \in [Players -> Nat]  BY DEF Purse
<1>2. purse[p] \in Nat  BY <1>1
<1>3. (IF purse[p] > amount THEN purse[p] - amount ELSE 0) \in Nat  BY <1>2
<1>4. Debit(purse, p, amount) =
        [purse EXCEPT ![p] = IF purse[p] > amount THEN purse[p] - amount ELSE 0]
  BY DEF Debit
<1> DEFINE left == IF purse[p] > amount THEN purse[p] - amount ELSE 0
<1>5. left <= purse[p] /\ (purse[p] >= amount => left = purse[p] - amount)  BY <1>2
<1> HIDE DEF left
<1> QED  BY <1>1, <1>3, <1>4, <1>5 DEF Purse, left

\* A credit.
LEMMA CreditIs ==
    ASSUME NEW purse \in Purse, NEW p \in Players, NEW amount \in Nat
    PROVE  /\ Credit(purse, p, amount) \in Purse
           /\ Credit(purse, p, amount)[p] = purse[p] + amount
           /\ \A q \in Players : q # p => Credit(purse, p, amount)[q] = purse[q]
<1>1. purse \in [Players -> Nat]  BY DEF Purse
<1>2. purse[p] + amount \in Nat  BY <1>1
<1> QED  BY <1>1, <1>2 DEF Purse, Credit

-----------------------------------------------------------------------------
(***************************************************************************)
(* Steps that leave parts of the invariant alone.                          *)
(***************************************************************************)
\* A step that leaves the windows alone.
LEMMA SameTrade ==
    ASSUME TradeInv, UNCHANGED trade
    PROVE  TradeInv'
  BY DEF TradeInv, Trading, Trader

\* A step that leaves the auctions alone.
LEMMA SameHouse ==
    ASSUME HouseInv, UNCHANGED auctionVars
    PROVE  HouseInv'
  BY DEF HouseInv, InHouse, auctionVars

\* A step that leaves money, bags, mails and database alone.
LEMMA SameOwned ==
    ASSUME Stored, Bookkeeping, UNCHANGED owned
    PROVE  Stored' /\ Bookkeeping'
  BY DEF Stored, Bookkeeping, owned

\* A step that moves no item.
LEMMA SamePlaces ==
    ASSUME PlaceInv, UNCHANGED <<bag, mails, taken>>, \A i \in Items : InHouse(i)' <=> InHouse(i)
    PROVE  PlaceInv'
<1>1. ASSUME NEW i \in Items  PROVE OnePlace(i)'
  <2>1. OnePlace(i)  BY DEF PlaceInv
  <2>2. \A n \in MailIds : InMail(mails', n, i) <=> InMail(mails, n, i)  BY DEF InMail
  <2> QED  BY <2>1, <2>2, Stays
<1> QED  BY <1>1 DEF PlaceInv

-----------------------------------------------------------------------------
(***************************************************************************)
(* Logins, saves and logouts.                                              *)
(***************************************************************************)
\* Player::LoadFromDB.
LEMMA LoginKeeps ==
    ASSUME IInv, NEW p \in Players, Login(p), UNCHANGED <<trade, auctionVars>>
    PROVE  IInv'
<1>1. Stored /\ HouseInv /\ TradeInv /\ Bookkeeping /\ PlaceInv  BY DEF IInv
<1>2. bag' = bag
  <2>1. bag \in Bags /\ disk.bag = bag /\ bag' = [bag EXCEPT ![p] = disk.bag[p]]  BY <1>1 DEF Stored, Login
  <2> QED  BY <2>1 DEF Bags
<1>3. Stored'
  <2>1. money' = [money EXCEPT ![p] = disk.money[p]] /\ mails' = mails /\ disk' = disk  BY DEF Login
  <2>2. money \in [Players -> Nat] /\ disk.money \in [Players -> Nat]
        /\ \A q \in Players : money[q] <= disk.money[q]
    BY <1>1 DEF Stored, Purse
  <2>3. money' \in [Players -> Nat]  BY <2>1, <2>2
  <2>4. \A q \in Players : money'[q] <= disk.money[q]  BY <2>1, <2>2
  <2> QED  BY <1>1, <1>2, <2>1, <2>3, <2>4 DEF Stored, Purse
<1>4. Bookkeeping'  BY <1>1 DEF Login, Bookkeeping
<1>5. PlaceInv'
  <2>1. UNCHANGED <<bag, mails, taken>>  BY <1>2 DEF Login
  <2>2. \A i \in Items : InHouse(i)' <=> InHouse(i)  BY DEF InHouse, auctionVars
  <2> QED  BY <1>1, <2>1, <2>2, SamePlaces
<1> QED  BY <1>1, <1>3, <1>4, <1>5, SameTrade, SameHouse DEF IInv

\* SaveToDB: what memory has is in the database, less the deleted mails.
LEMMA SaveKeeps ==
    ASSUME Stored, Bookkeeping, PlaceInv, NEW p \in Players,
           UNCHANGED <<money, bag, house>>, Commit({p}, {p}, SaveMail(p)),
           erased' = erased \ DOMAIN SaveMail(p), Take(0, DOMAIN SaveMail(p))
    PROVE  Stored' /\ erased' \subseteq MailIds /\ PlaceInv'
           /\ taken' = [money |-> taken'.money, items |-> taken'.items]
<1>1. erased \subseteq MailIds  BY DEF Bookkeeping
<1>2. money \in Purse /\ bag \in Bags /\ mails \in Box  BY DEF Stored
<1>3. Over(SaveMail(p), mails) \in Box
      /\ \A n \in MailIds : Over(SaveMail(p), mails)[n] =
            IF n \in DOMAIN SaveMail(p) THEN NoMail ELSE mails[n]
  BY <1>1, <1>2, SavedMails
<1>4. DOMAIN SaveMail(p) \subseteq MailIds /\ \A n \in DOMAIN SaveMail(p) : mails[n] # NoMail
  BY <1>1, <1>2, SaveMailIs
<1>5. Stored'
  <2>1. money' \in Purse /\ bag' \in Bags  BY <1>2
  <2>2. \A q \in Players : q \notin {p} => money'[q] <= money[q]
    <3>1. money \in [Players -> Nat]  BY <1>2 DEF Purse
    <3> QED  BY <3>1
  <2>3. \A q \in Players : q \notin {p} => bag'[q] = bag[q]  OBVIOUS
  <2>4. Over(SaveMail(p), mails) \in Box  BY <1>3
  <2> QED  BY <2>1, <2>2, <2>3, <2>4, CommitKeeps
<1>6. taken' = [money |-> taken'.money, items |-> taken'.items]
      /\ taken'.items = taken.items \cup ({mails[n].item : n \in DOMAIN SaveMail(p)} \ {NoItem})
  BY DEF Take
<1>7. mails' = Over(SaveMail(p), mails)  BY DEF Commit
<1>8. ASSUME NEW i \in Items  PROVE OnePlace(i)'
  <2> DEFINE del == DOMAIN SaveMail(p)
  <2>1. OnePlace(i)  BY DEF PlaceInv
  <2>2. del \subseteq MailIds /\ \A n \in del : mails[n] # NoMail  BY <1>4
  <2>3. taken'.items = taken.items \cup ({mails[n].item : n \in del} \ {NoItem})  BY <1>6
  <2>4. \A n \in MailIds : InMail(mails', n, i) <=> n \notin del /\ InMail(mails, n, i)
    BY <1>3, <1>7 DEF InMail
  <2>5. \A q \in Players : i \in bag'[q] <=> i \in bag[q]  OBVIOUS
  <2>6. InHouse(i)' <=> InHouse(i)  BY DEF InHouse
  <2> HIDE DEF del
  <2> QED  BY <2>1, <2>2, <2>3, <2>4, <2>5, <2>6, Deleted
<1>9. erased' \subseteq MailIds  BY <1>1
<1> QED  BY <1>5, <1>6, <1>8, <1>9 DEF PlaceInv

\* Player::SaveToDB: the mails deleted in memory leave the database.
LEMMA SaveToDBKeeps ==
    ASSUME IInv, NEW p \in Players, SaveToDB(p), UNCHANGED <<trade, auctionVars>>
    PROVE  IInv'
<1>1. Stored /\ HouseInv /\ TradeInv /\ Bookkeeping /\ PlaceInv  BY DEF IInv
<1>2. UNCHANGED <<money, bag, house>>  BY DEF SaveToDB, auctionVars
<1>3. Commit({p}, {p}, SaveMail(p))  BY DEF SaveToDB
<1>4. erased' = erased \ DOMAIN SaveMail(p)  BY DEF SaveToDB
<1>5. Take(0, DOMAIN SaveMail(p))  BY DEF SaveToDB
<1>6. Stored' /\ erased' \subseteq MailIds /\ PlaceInv'
      /\ taken' = [money |-> taken'.money, items |-> taken'.items]
  BY <1>1, <1>2, <1>3, <1>4, <1>5, SaveKeeps
<1>7. Bookkeeping'  BY <1>1, <1>6 DEF SaveToDB, Bookkeeping
<1> QED  BY <1>1, <1>6, <1>7, SameTrade, SameHouse DEF IInv

\* TradeCancel ends both windows.
LEMMA CancelKeeps ==
    ASSUME TradeInv, NEW p \in Players, trade' = Cancelled(p)
    PROVE  TradeInv'
<1>1. CASE ~Trading(p)
  <2>1. UNCHANGED trade  BY <1>1 DEF Cancelled
  <2> QED  BY <2>1, SameTrade
<1>2. CASE Trading(p)
  <2>1. trade \in [Players -> Windows \cup {NoTrade}]  BY DEF TradeInv
  <2>2. Trader(p) \in Players  BY <1>2, <2>1 DEF Trading, Trader, Windows
  <2>3. trade' = [trade EXCEPT ![p] = NoTrade, ![Trader(p)] = NoTrade]  BY <1>2 DEF Cancelled
  <2>4. trade' \in [Players -> Windows \cup {NoTrade}]  BY <2>1, <2>3
  <2>5. ASSUME NEW q \in Players, trade'[q] # NoTrade
        PROVE  /\ trade'[q].with # q /\ trade'[trade'[q].with] # NoTrade
               /\ trade'[trade'[q].with].with = q
    <3>1. q # p /\ q # Trader(p) /\ trade'[q] = trade[q]  BY <2>1, <2>2, <2>3, <2>5
    <3>2. Trading(q)  BY <2>5, <3>1 DEF Trading
    <3>3. Trader(q) # q /\ Trading(Trader(q)) /\ Trader(Trader(q)) = q  BY <3>2 DEF TradeInv
    <3>4. Trader(q) \in Players  BY <2>1, <3>2 DEF Trading, Trader, Windows
    <3>5. Trader(q) # p /\ Trader(q) # Trader(p)
      <4>1. Trader(Trader(p)) = p  BY <1>2 DEF TradeInv
      <4> QED  BY <3>1, <3>3, <4>1
    <3>6. trade'[Trader(q)] = trade[Trader(q)]  BY <2>1, <2>2, <2>3, <3>4, <3>5
    <3> QED  BY <3>1, <3>3, <3>6 DEF Trader, Trading
  <2> QED  BY <2>4, <2>5 DEF TradeInv, Trading, Trader
<1> QED  BY <1>1, <1>2

\* LogoutPlayer: the trade is cancelled, then the character is saved.
LEMMA LogoutKeeps ==
    ASSUME IInv, NEW p \in Players, Logout(p), UNCHANGED auctionVars
    PROVE  IInv'
<1>1. Stored /\ HouseInv /\ TradeInv /\ Bookkeeping /\ PlaceInv  BY DEF IInv
<1>2. UNCHANGED <<money, bag, house>>  BY DEF Logout, auctionVars
<1>3. Commit({p}, {p}, SaveMail(p))  BY DEF Logout
<1>4. erased' = erased \ DOMAIN SaveMail(p)  BY DEF Logout
<1>5. Take(0, DOMAIN SaveMail(p))  BY DEF Logout
<1>6. Stored' /\ erased' \subseteq MailIds /\ PlaceInv'
      /\ taken' = [money |-> taken'.money, items |-> taken'.items]
  BY <1>1, <1>2, <1>3, <1>4, <1>5, SaveKeeps
<1>7. Bookkeeping'  BY <1>1, <1>6 DEF Logout, Bookkeeping
<1>8. TradeInv'  BY <1>1, CancelKeeps DEF Logout
<1> QED  BY <1>1, <1>6, <1>7, <1>8, SameHouse DEF IInv

-----------------------------------------------------------------------------
(***************************************************************************)
(* Trade.                                                                  *)
(***************************************************************************)
\* Who trades with whom, in a window's terms.
LEMMA Partners ==
    ASSUME TradeInv, NEW p \in Players, Trading(p)
    PROVE  /\ trade[p] \in Windows /\ Trader(p) \in Players /\ Trader(p) # p
           /\ trade[Trader(p)] \in Windows /\ Trading(Trader(p)) /\ Trader(Trader(p)) = p
<1>1. trade[p] \in Windows  BY DEF TradeInv, Trading
<1>2. Trader(p) \in Players  BY <1>1 DEF Trader, Windows
<1>3. Trader(p) # p /\ Trading(Trader(p)) /\ Trader(Trader(p)) = p  BY DEF TradeInv
<1>4. trade[Trader(p)] \in Windows  BY <1>2, <1>3 DEF TradeInv, Trading
<1> QED  BY <1>1, <1>2, <1>3, <1>4

\* New contents of windows, of the same two traders.
LEMMA SameTraders ==
    ASSUME TradeInv, trade' \in [Players -> Windows \cup {NoTrade}],
           \A q \in Players : trade'[q] = NoTrade <=> trade[q] = NoTrade,
           \A q \in Players : Trading(q) => trade'[q].with = trade[q].with
    PROVE  TradeInv'
<1>1. ASSUME NEW q \in Players, trade'[q] # NoTrade
      PROVE  /\ trade'[q].with # q /\ trade'[trade'[q].with] # NoTrade
             /\ trade'[trade'[q].with].with = q
  <2>1. Trading(q)  BY <1>1 DEF Trading
  <2>2. Trader(q) \in Players /\ Trader(q) # q /\ Trading(Trader(q)) /\ Trader(Trader(q)) = q
    BY <2>1, Partners
  <2>3. trade'[q].with = Trader(q)  BY <2>1 DEF Trader
  <2>4. trade'[Trader(q)] # NoTrade /\ trade'[Trader(q)].with = q  BY <2>2 DEF Trading, Trader
  <2> QED  BY <2>2, <2>3, <2>4
<1> QED  BY <1>1 DEF TradeInv, Trading, Trader

\* SetItem and SetMoney.
LEMMA ChangeKeeps ==
    ASSUME TradeInv, NEW p \in Players, Trading(p), NEW w \in Windows, w.with = trade[p].with,
           Change(p, w)
    PROVE  TradeInv'
<1>1. trade[p] \in Windows /\ Trader(p) \in Players /\ Trader(p) # p
      /\ trade[Trader(p)] \in Windows /\ Trading(Trader(p))  BY Partners
<1>2. trade \in [Players -> Windows \cup {NoTrade}]  BY DEF TradeInv
<1>3. trade' = [trade EXCEPT ![p] = Unaccepted(w), ![Trader(p)] = Unaccepted(trade[Trader(p)])]
  BY <1>1, <1>2 DEF Change
<1>4. \A v \in Windows : Unaccepted(v) \in Windows /\ Unaccepted(v).with = v.with
  BY DEF Unaccepted, Windows
<1>5. trade' \in [Players -> Windows \cup {NoTrade}]  BY <1>1, <1>2, <1>3, <1>4
<1>6. trade'[p] = Unaccepted(w) /\ trade'[Trader(p)] = Unaccepted(trade[Trader(p)])
      /\ \A q \in Players : q # p /\ q # Trader(p) => trade'[q] = trade[q]
  BY <1>1, <1>2, <1>3
<1>7. Unaccepted(w) # NoTrade /\ Unaccepted(trade[Trader(p)]) # NoTrade
  BY <1>1, <1>4, TradeAssumption
<1>8. \A q \in Players : trade'[q] = NoTrade <=> trade[q] = NoTrade
  BY <1>1, <1>6, <1>7 DEF Trading
<1>9. \A q \in Players : Trading(q) => trade'[q].with = trade[q].with  BY <1>1, <1>4, <1>6
<1> QED  BY <1>5, <1>8, <1>9, SameTraders

\* TradeStep but for the last accept: nothing changes hands.
LEMMA WindowsKeep ==
    ASSUME TradeInv, NEW p \in Players,
           \/ \E q \in Players : InitiateTrade(p, q)
           \/ \E i \in Items : SetTradeItem(p, i) \/ ClearTradeItem(p, i)
           \/ \E amount \in Amounts : SetTradeGold(p, amount)
           \/ \E full \in BOOLEAN : AcceptTrade(p, full)
           \/ Unaccept(p) \/ AcceptTooFar(p) \/ TradeCancel(p)
    PROVE  TradeInv' /\ UNCHANGED owned
<1>1. ASSUME NEW q \in Players, InitiateTrade(p, q)  PROVE TradeInv' /\ UNCHANGED owned
  <2> DEFINE new(r) == [with |-> r, items |-> {}, money |-> 0, accepted |-> FALSE]
  <2>1. p # q /\ trade[p] = NoTrade /\ trade[q] = NoTrade
        /\ trade' = [trade EXCEPT ![p] = new(q), ![q] = new(p)] /\ UNCHANGED owned
    BY <1>1 DEF InitiateTrade, Trading
  <2>2. trade \in [Players -> Windows \cup {NoTrade}]  BY DEF TradeInv
  <2>3. new(q) \in Windows /\ new(p) \in Windows /\ new(q).with = q /\ new(p).with = p
    BY DEF Windows
  <2>4. new(q) # NoTrade /\ new(p) # NoTrade  BY <2>3, TradeAssumption
  <2> HIDE DEF new
  <2>5. trade'[p] = new(q) /\ trade'[q] = new(p)
        /\ \A r \in Players : r # p /\ r # q => trade'[r] = trade[r]
    BY <2>1, <2>2
  <2>6. trade' \in [Players -> Windows \cup {NoTrade}]  BY <2>1, <2>2, <2>3
  <2>7. ASSUME NEW r \in Players, trade'[r] # NoTrade
        PROVE  /\ trade'[r].with # r /\ trade'[trade'[r].with] # NoTrade
               /\ trade'[trade'[r].with].with = r
    <3>1. CASE r \in {p, q}  BY <2>1, <2>3, <2>4, <2>5, <3>1
    <3>2. CASE r \notin {p, q}
      <4>1. trade'[r] = trade[r] /\ Trading(r)  BY <2>5, <2>7, <3>2 DEF Trading
      <4>2. Trader(r) \in Players /\ Trader(r) # r /\ Trading(Trader(r)) /\ Trader(Trader(r)) = r
        BY <4>1, Partners
      <4>3. Trader(r) # p /\ Trader(r) # q  BY <2>1, <4>2 DEF Trading
      <4>4. trade'[Trader(r)] = trade[Trader(r)]  BY <2>5, <4>2, <4>3
      <4> QED  BY <4>1, <4>2, <4>4 DEF Trader, Trading
    <3> QED  BY <3>1, <3>2
  <2> QED  BY <2>1, <2>6, <2>7 DEF TradeInv, Trading, Trader
<1>2. ASSUME NEW i \in Items, SetTradeItem(p, i)  PROVE TradeInv' /\ UNCHANGED owned
  <2>1. Trading(p) /\ UNCHANGED owned  BY <1>2 DEF SetTradeItem
  <2>2. trade[p] \in Windows  BY <2>1, Partners
  <2> DEFINE w == [trade[p] EXCEPT !.items = @ \cup {i}]
  <2>3. w \in Windows /\ w.with = trade[p].with  BY <2>2 DEF Windows
  <2>4. Change(p, w)  BY <1>2 DEF SetTradeItem
  <2> HIDE DEF w
  <2>5. TradeInv'  BY <2>1, <2>3, <2>4, ChangeKeeps
  <2> QED  BY <2>1, <2>5
<1>3. ASSUME NEW i \in Items, ClearTradeItem(p, i)  PROVE TradeInv' /\ UNCHANGED owned
  <2>1. Trading(p) /\ UNCHANGED owned  BY <1>3 DEF ClearTradeItem
  <2>2. trade[p] \in Windows  BY <2>1, Partners
  <2> DEFINE w == [trade[p] EXCEPT !.items = @ \ {i}]
  <2>3. w \in Windows /\ w.with = trade[p].with  BY <2>2 DEF Windows
  <2>4. Change(p, w)  BY <1>3 DEF ClearTradeItem
  <2> HIDE DEF w
  <2>5. TradeInv'  BY <2>1, <2>3, <2>4, ChangeKeeps
  <2> QED  BY <2>1, <2>5
<1>4. ASSUME NEW amount \in Amounts, SetTradeGold(p, amount)  PROVE TradeInv' /\ UNCHANGED owned
  <2>1. Trading(p) /\ UNCHANGED owned  BY <1>4 DEF SetTradeGold
  <2>2. trade[p] \in Windows /\ amount \in Nat  BY <2>1, Partners, TradeAssumption
  <2> DEFINE w == [trade[p] EXCEPT !.money = amount]
  <2>3. w \in Windows /\ w.with = trade[p].with  BY <2>2 DEF Windows
  <2>4. Change(p, w)  BY <1>4 DEF SetTradeGold
  <2> HIDE DEF w
  <2>5. TradeInv'  BY <2>1, <2>3, <2>4, ChangeKeeps
  <2> QED  BY <2>1, <2>5
<1>5. ASSUME NEW full \in BOOLEAN, AcceptTrade(p, full)  PROVE TradeInv' /\ UNCHANGED owned
  <2> DEFINE refused == Refused(p, Trader(p))
  <2> DEFINE off == IF refused # {} THEN refused ELSE IF full THEN {p, Trader(p)} ELSE {}
  <2>1. Trading(p) /\ UNCHANGED owned
        /\ trade' = [r \in Players |->
              IF r \in {p, Trader(p)}
              THEN [trade[r] EXCEPT !.accepted = r \notin off /\ (r = p \/ trade[r].accepted)]
              ELSE trade[r]]
    BY <1>5 DEF AcceptTrade
  <2>2. trade[p] \in Windows /\ Trader(p) \in Players /\ trade[Trader(p)] \in Windows
        /\ Trading(Trader(p))
    BY <2>1, Partners
  <2> HIDE DEF off
  <2>3. \A v \in Windows : \A b \in BOOLEAN :
          [v EXCEPT !.accepted = b] \in Windows /\ [v EXCEPT !.accepted = b].with = v.with
    BY DEF Windows
  <2>4. trade \in [Players -> Windows \cup {NoTrade}]  BY DEF TradeInv
  <2>5. ASSUME NEW r \in Players
        PROVE  /\ trade'[r] \in Windows \cup {NoTrade}
               /\ trade'[r] = NoTrade <=> trade[r] = NoTrade
               /\ Trading(r) => trade'[r].with = trade[r].with
    <3>1. CASE r \in {p, Trader(p)}
      <4> DEFINE b == r \notin off /\ (r = p \/ trade[r].accepted)
      <4>1. trade[r] \in Windows  BY <2>2, <3>1
      <4>2. b \in BOOLEAN  OBVIOUS
      <4>3. trade'[r] = [trade[r] EXCEPT !.accepted = b]  BY <2>1, <3>1
      <4> HIDE DEF b
      <4>4. trade'[r] \in Windows /\ trade'[r].with = trade[r].with  BY <2>3, <4>1, <4>2, <4>3
      <4> QED  BY <4>1, <4>4, TradeAssumption
    <3>2. CASE r \notin {p, Trader(p)}  BY <2>1, <2>4, <3>2
    <3> QED  BY <3>1, <3>2
  <2>6. trade' \in [Players -> Windows \cup {NoTrade}]  BY <2>1, <2>5
  <2>7. TradeInv'  BY <2>5, <2>6, SameTraders
  <2> QED  BY <2>1, <2>7
<1>6. ASSUME Unaccept(p)  PROVE TradeInv' /\ UNCHANGED owned
  <2>1. Trading(p) /\ UNCHANGED owned /\ trade' = [trade EXCEPT ![p] = Unaccepted(trade[p])]
    BY <1>6 DEF Unaccept
  <2>2. trade[p] \in Windows  BY <2>1, Partners
  <2>3. Unaccepted(trade[p]) \in Windows /\ Unaccepted(trade[p]).with = trade[p].with
    BY <2>2 DEF Unaccepted, Windows
  <2>4. trade \in [Players -> Windows \cup {NoTrade}]  BY DEF TradeInv
  <2>5. trade' \in [Players -> Windows \cup {NoTrade}]  BY <2>1, <2>3, <2>4
  <2>6. \A q \in Players : trade'[q] = NoTrade <=> trade[q] = NoTrade
    BY <2>1, <2>2, <2>3, <2>4, TradeAssumption
  <2>7. \A q \in Players : Trading(q) => trade'[q].with = trade[q].with  BY <2>1, <2>3, <2>4
  <2>8. TradeInv'  BY <2>5, <2>6, <2>7, SameTraders
  <2> QED  BY <2>1, <2>8
<1>7. ASSUME TradeCancel(p)  PROVE TradeInv' /\ UNCHANGED owned
  BY <1>7, CancelKeeps DEF TradeCancel
<1> QED  BY <1>1, <1>2, <1>3, <1>4, <1>5, <1>6, <1>7 DEF AcceptTooFar

\* Both pay what their windows show, and get what the other shows.
LEMMA TradedMoney ==
    ASSUME Stored, TradeInv, NEW p \in Players, CompleteTrade(p)
    PROVE  /\ money' \in Purse
           /\ money'[p] = money[p] - trade[p].money + trade[Trader(p)].money
           /\ money'[Trader(p)] = money[Trader(p)] - trade[Trader(p)].money + trade[p].money
           /\ \A r \in Players : r # p /\ r # Trader(p) => money'[r] = money[r]
<1> DEFINE q == Trader(p)
<1> DEFINE a == trade[p].money
<1> DEFINE b == trade[q].money
<1>1. q \in Players /\ q # p /\ trade[p] \in Windows /\ trade[q] \in Windows
  BY Partners DEF CompleteTrade
<1>2. a \in Nat /\ b \in Nat  BY <1>1 DEF Windows
<1>3. Refused(p, q) = {}  BY DEF CompleteTrade
<1>4. money[p] >= a /\ money[q] >= b  BY <1>3 DEF Refused, Pays, HasEnoughMoney
<1> DEFINE m1 == Debit(money, p, a)
<1> DEFINE m2 == Credit(m1, p, b)
<1> DEFINE m3 == Debit(m2, q, b)
<1> DEFINE m4 == Credit(m3, q, a)
<1>5. money' = m4  BY DEF CompleteTrade
<1>6. money \in Purse  BY DEF Stored
<1>7. money \in [Players -> Nat]  BY <1>6 DEF Purse
<1> HIDE DEF q, a, b
<1>8. m1 \in Purse /\ m1[p] = money[p] - a /\ \A r \in Players : r # p => m1[r] = money[r]
  BY <1>2, <1>4, <1>6, DebitIs
<1> HIDE DEF m1
<1>9. m2 \in Purse /\ m2[p] = m1[p] + b /\ \A r \in Players : r # p => m2[r] = m1[r]
  BY <1>2, <1>8, CreditIs
<1>10. m2[q] >= b  BY <1>1, <1>4, <1>8, <1>9
<1> HIDE DEF m2
<1>11. m3 \in Purse /\ m3[q] = m2[q] - b /\ \A r \in Players : r # q => m3[r] = m2[r]
  BY <1>1, <1>2, <1>9, <1>10, DebitIs
<1> HIDE DEF m3
<1>12. m4 \in Purse /\ m4[q] = m3[q] + a /\ \A r \in Players : r # q => m4[r] = m3[r]
  BY <1>1, <1>2, <1>11, CreditIs
<1> HIDE DEF m4
<1>13. m4[p] = money[p] - a + b  BY <1>1, <1>8, <1>9, <1>11, <1>12
<1>14. m4[q] = money[q] - b + a  BY <1>1, <1>8, <1>9, <1>11, <1>12
<1>15. \A r \in Players : r # p /\ r # q => m4[r] = money[r]  BY <1>8, <1>9, <1>11, <1>12
<1> QED  BY <1>5, <1>12, <1>13, <1>14, <1>15 DEF q, a, b

\* And the items they offered change hands.
LEMMA TradedItems ==
    ASSUME Stored, TradeInv, NEW p \in Players, CompleteTrade(p)
    PROVE  /\ bag' \in Bags
           /\ bag'[p] = (bag[p] \ Offered(p)) \cup Offered(Trader(p))
           /\ bag'[Trader(p)] = (bag[Trader(p)] \ Offered(Trader(p))) \cup Offered(p)
           /\ \A r \in Players : r # p /\ r # Trader(p) => bag'[r] = bag[r]
<1> DEFINE q == Trader(p)
<1>1. q \in Players /\ q # p  BY Partners DEF CompleteTrade
<1>2. bag \in [Players -> SUBSET Items]  BY DEF Stored, Bags
<1>3. bag' = [bag EXCEPT ![p] = (bag[p] \ Offered(p)) \cup Offered(q),
                         ![q] = (bag[q] \ Offered(q)) \cup Offered(p)]
  BY <1>1, <1>2 DEF CompleteTrade
<1>4. Offered(p) \subseteq bag[p] /\ Offered(q) \subseteq bag[q]  BY DEF Offered
<1> HIDE DEF q
<1>5. bag' \in [Players -> SUBSET Items]  BY <1>1, <1>2, <1>3, <1>4
<1>6. bag'[p] = (bag[p] \ Offered(p)) \cup Offered(q)
      /\ bag'[q] = (bag[q] \ Offered(q)) \cup Offered(p)
      /\ \A r \in Players : r # p /\ r # q => bag'[r] = bag[r]
  BY <1>1, <1>2, <1>3
<1> QED  BY <1>5, <1>6 DEF q, Bags

\* Letters that carry nothing are not sent.
LEMMA NoneAreSent ==
    ASSUME NEW new, Carrying(new) = {}, NEW b \in Box
    PROVE  Over(SendMails(new), b) = b
<1> DEFINE C == Carrying(new)
<1> DEFINE row == CHOOSE f \in Injection(C, FreeIds) : TRUE
<1> DEFINE sent == SendMails(new)
<1>1. C = {} /\ DOMAIN sent = Range(row)  BY DEF SendMails
<1>2. Injection({}, FreeIds) # {}
  <2> DEFINE none == [k \in {} |-> k]
  <2>1. none \in [{} -> FreeIds] /\ IsInjective(none)  BY DEF IsInjective
  <2>2. none \in Injection({}, FreeIds)  BY <2>1 DEF Injection
  <2> QED  BY <2>2
<1>3. row \in Injection({}, FreeIds)  BY <1>1, <1>2
<1>4. DOMAIN row = {}  BY <1>3 DEF Injection
<1>5. DOMAIN sent = {}  BY <1>1, <1>4 DEF Range
<1> HIDE DEF sent
<1>6. Over(sent, b) \in Box /\ \A n \in MailIds : Over(sent, b)[n] = b[n]  BY <1>5, OverBox
<1> QED  BY <1>6 DEF Box, sent

\* A transaction without mails.
LEMMA NothingIsSent ==
    ASSUME Stored
    PROVE  Over(Nothing, mails) = mails
<1>1. mails \in Box  BY DEF Stored
<1>2. Carrying(<<>>) = {}  BY DEF Carrying
<1>3. Over(SendMails(<<>>), mails) = mails  BY <1>1, <1>2, NoneAreSent
<1> QED  BY <1>3 DEF Nothing

\* The last accept: the offered items change bags, and both bags are stored.
LEMMA CompleteTradeKeeps ==
    ASSUME IInv, NEW p \in Players, CompleteTrade(p), UNCHANGED auctionVars
    PROVE  IInv'
<1> DEFINE q == Trader(p)
<1>1. Stored /\ HouseInv /\ TradeInv /\ Bookkeeping /\ PlaceInv  BY DEF IInv
<1>2. q \in Players /\ q # p  BY <1>1, Partners DEF CompleteTrade
<1>3. /\ bag' \in Bags
      /\ bag'[p] = (bag[p] \ Offered(p)) \cup Offered(q)
      /\ bag'[q] = (bag[q] \ Offered(q)) \cup Offered(p)
      /\ \A r \in Players : r # p /\ r # q => bag'[r] = bag[r]
  BY <1>1, TradedItems
<1>4. money' \in Purse /\ \A r \in Players : r # p /\ r # q => money'[r] = money[r]
  BY <1>1, TradedMoney
<1>5. Over(Nothing, mails) = mails  BY <1>1, NothingIsSent
<1>6. Commit({p, q}, {p, q}, Nothing)  BY DEF CompleteTrade
<1>7. Offered(p) \subseteq bag[p] /\ Offered(q) \subseteq bag[q]  BY DEF Offered
<1>8. Stored'
  <2>1. \A r \in Players : r \notin {p, q} => money'[r] <= money[r]
    <3>1. money \in [Players -> Nat]  BY <1>1 DEF Stored, Purse
    <3> QED  BY <1>4, <3>1
  <2>2. \A r \in Players : r \notin {p, q} => bag'[r] = bag[r]  BY <1>3
  <2>3. Over(Nothing, mails) \in Box  BY <1>1, <1>5 DEF Stored
  <2>4. money' \in Purse /\ bag' \in Bags  BY <1>3, <1>4
  <2> DEFINE who == {p, q}
  <2>5. Commit(who, who, Nothing)  BY <1>6
  <2>6. \A r \in Players : r \notin who => money'[r] <= money[r]  BY <2>1
  <2>7. \A r \in Players : r \notin who => bag'[r] = bag[r]  BY <2>2
  <2> HIDE DEF who
  <2> QED  BY <1>1, <2>3, <2>4, <2>5, <2>6, <2>7, CommitKeeps
<1>9. Bookkeeping'  BY <1>1 DEF CompleteTrade, Bookkeeping
<1>10. TradeInv'  BY <1>1, CancelKeeps DEF CompleteTrade
<1>11. mails' = mails  BY <1>5, <1>6 DEF Commit
<1>12. taken' = taken /\ house' = house  BY DEF CompleteTrade, auctionVars
<1> HIDE DEF q
<1>13. ASSUME NEW i \in Items  PROVE OnePlace(i)'
  <2>1. OnePlace(i)  BY <1>1 DEF PlaceInv
  <2>2. \A n \in MailIds : InMail(mails', n, i) <=> InMail(mails, n, i)  BY <1>11
  <2>3. i \in taken'.items <=> i \in taken.items  BY <1>12
  <2>4. InHouse(i)' <=> InHouse(i)  BY <1>12 DEF InHouse
  <2>5. ASSUME NEW r \in Players, NEW s \in Players, r # s, i \in bag[r],
               i \notin bag'[r], i \in bag'[s],
               \A t \in Players : t # r /\ t # s => bag'[t] = bag[t]
        PROVE  OnePlace(i)'
    <3>1. /\ \A t \in Players : i \in bag[t] <=> t = r
          /\ \A n \in MailIds : ~InMail(mails, n, i)
          /\ ~InHouse(i) /\ i \notin taken.items
      BY <2>1, <2>5, FromBag
    <3>2. \A t \in Players : i \in bag'[t] <=> t = s  BY <2>5, <3>1
    <3>3. \A n \in MailIds : ~InMail(mails', n, i)  BY <2>2, <3>1
    <3>4. ~InHouse(i)' /\ i \notin taken'.items  BY <2>3, <2>4, <3>1
    <3> QED  BY <3>2, <3>3, <3>4, ToBag
  <2>6. i \in bag[p] => i \notin bag[q]  BY <1>2, <2>1 DEF OnePlace
  <2>7. CASE i \in Offered(p)
    <3>1. i \in bag[p] /\ i \notin bag'[p] /\ i \in bag'[q]  BY <1>3, <1>7, <2>6, <2>7
    <3> QED  BY <1>2, <1>3, <2>5, <3>1
  <2>8. CASE i \in Offered(q)
    <3>1. i \in bag[q] /\ i \notin bag'[q] /\ i \in bag'[p]  BY <1>3, <1>7, <2>6, <2>8
    <3> QED  BY <1>2, <1>3, <2>5, <3>1
  <2>9. CASE i \notin Offered(p) /\ i \notin Offered(q)
    <3>1. \A r \in Players : i \in bag'[r] <=> i \in bag[r]  BY <1>3, <2>9
    <3> QED  BY <2>1, <2>2, <2>3, <2>4, <3>1, Stays
  <2> QED  BY <2>7, <2>8, <2>9
<1>14. PlaceInv'  BY <1>13 DEF PlaceInv
<1> QED  BY <1>1, <1>8, <1>9, <1>10, <1>14, SameHouse DEF IInv

-----------------------------------------------------------------------------
(***************************************************************************)
(* Mail.                                                                   *)
(***************************************************************************)
LEMMA SendMailKeeps ==
    ASSUME IInv, NEW p \in Players, NEW q \in Players, NEW item \in Items \cup {NoItem},
           NEW parcel \in Parcels, SendMail(p, q, item, parcel[1], parcel[2]),
           UNCHANGED <<trade, auctionVars>>
    PROVE  IInv'
<1> DEFINE letter == Letter("normal", p, q, item, parcel[1], parcel[2], "")
<1> DEFINE new == <<letter>>
<1> DEFINE price == Postage + parcel[1]
<1>1. Stored /\ HouseInv /\ TradeInv /\ Bookkeeping /\ PlaceInv  BY DEF IInv
<1>2. parcel[1] \in Nat /\ parcel[2] \in Nat /\ price \in Nat  BY MailAssumption
<1>3. letter \in Letters  BY <1>2 DEF Letter, Letters
<1>4. letter.item = item  BY DEF Letter
<1>5. /\ item = NoItem \/ item \in bag[p]
      /\ Free(1)
      /\ money' = Debit(money, p, price)
      /\ bag' = [bag EXCEPT ![p] = bag[p] \ {item}]
      /\ Commit({p}, {p}, SendMails(new))
      /\ Take(Postage, {})
      /\ UNCHANGED <<status, erased, spent>>
  BY DEF SendMail
<1>6. house' = house  BY DEF auctionVars
<1> HIDE DEF letter, price
<1>7. new \in Seq(Letters) /\ Len(new) = 1 /\ DOMAIN new = {1} /\ new[1] = letter  BY <1>3
<1>8. Free(Len(new))  BY <1>5, <1>7
<1> HIDE DEF new
<1>9. mails \in Box /\ money \in Purse /\ bag \in [Players -> SUBSET Items]  BY <1>1 DEF Stored, Bags
<1>10. Over(SendMails(new), mails) \in Box  BY <1>7, <1>8, <1>9, SentBox
<1>11. money' \in Purse /\ \A r \in Players : r # p => money'[r] = money[r]
  BY <1>2, <1>5, <1>9, DebitIs
<1>12. bag' \in Bags /\ bag'[p] = bag[p] \ {item} /\ \A r \in Players : r # p => bag'[r] = bag[r]
  BY <1>5, <1>9 DEF Bags
<1>13. Stored'
  <2>1. \A r \in Players : r \notin {p} => money'[r] <= money[r]
    <3>1. money \in [Players -> Nat]  BY <1>9 DEF Purse
    <3> QED  BY <1>11, <3>1
  <2>2. \A r \in Players : r \notin {p} => bag'[r] = bag[r]  BY <1>12
  <2> QED  BY <1>1, <1>5, <1>10, <1>11, <1>12, <2>1, <2>2, CommitKeeps
<1>14. taken' = [money |-> taken'.money, items |-> taken'.items] /\ taken'.items = taken.items
  BY <1>5 DEF Take
<1>15. Bookkeeping'  BY <1>1, <1>5, <1>14 DEF Bookkeeping
<1>16. mails' = Over(SendMails(new), mails)  BY <1>5 DEF Commit
<1>17. ASSUME NEW i \in Items  PROVE OnePlace(i)'
  <2>1. OnePlace(i)  BY <1>1 DEF PlaceInv
  <2>2. InHouse(i)' <=> InHouse(i)  BY <1>6 DEF InHouse
  <2>3. CASE i = item
    <3>1. i \in bag[p]  BY <1>5, <2>3, HoldingsAssumption
    <3>2. /\ \A r \in Players : i \in bag[r] <=> r = p
          /\ \A n \in MailIds : ~InMail(mails, n, i)
          /\ ~InHouse(i) /\ i \notin taken.items
      BY <2>1, <3>1, FromBag
    <3>3. 1 \in DOMAIN new /\ new[1].item = i /\ \A k \in DOMAIN new : new[k].item = i => k = 1
      BY <1>4, <1>7, <2>3
    <3>4. PICK m \in MailIds : \A n \in MailIds :
             InMail(Over(SendMails(new), mails), n, i) <=> n = m \/ InMail(mails, n, i)
      BY <1>7, <1>8, <1>9, <3>3, SentItem
    <3>5. \A n \in MailIds : InMail(mails', n, i) <=> n = m  BY <1>16, <3>2, <3>4
    <3>6. \A r \in Players : i \notin bag'[r]  BY <1>12, <2>3, <3>2
    <3>7. ~InHouse(i)' /\ i \notin taken'.items  BY <1>14, <2>2, <3>2
    <3> QED  BY <3>5, <3>6, <3>7, ToMail
  <2>4. CASE i # item
    <3>1. \A k \in DOMAIN new : new[k].item # i  BY <1>4, <1>7, <2>4
    <3>2. \A n \in MailIds : InMail(Over(SendMails(new), mails), n, i) <=> InMail(mails, n, i)
      BY <1>7, <1>8, <1>9, <3>1, SentWithout
    <3>3. \A n \in MailIds : InMail(mails', n, i) <=> InMail(mails, n, i)  BY <1>16, <3>2
    <3>4. \A r \in Players : i \in bag'[r] <=> i \in bag[r]  BY <1>12, <2>4
    <3>5. i \in taken'.items <=> i \in taken.items  BY <1>14
    <3> QED  BY <2>1, <2>2, <3>3, <3>4, <3>5, Stays
  <2> QED  BY <2>3, <2>4
<1>18. PlaceInv'  BY <1>17 DEF PlaceInv
<1> QED  BY <1>1, <1>13, <1>15, <1>18, SameTrade, SameHouse DEF IInv

\* A list of the mails, or a mark on one, moves nothing.
LEMMA MarksKeep ==
    ASSUME IInv, NEW p \in Players, GetMailList(p) \/ \E i \in MailIds : MailDelete(p, i),
           UNCHANGED <<trade, auctionVars>>
    PROVE  IInv'
<1>1. Stored /\ HouseInv /\ TradeInv /\ Bookkeeping /\ PlaceInv  BY DEF IInv
<1>2. UNCHANGED <<money, bag, mails, disk, taken>>  BY DEF GetMailList, MailDelete
<1>3. Stored'  BY <1>1, <1>2 DEF Stored
<1>4. Bookkeeping'  BY <1>1, <1>2 DEF Bookkeeping, GetMailList, MailDelete
<1>5. \A i \in Items : InHouse(i)' <=> InHouse(i)  BY DEF InHouse, auctionVars
<1>6. PlaceInv'  BY <1>1, <1>2, <1>5, SamePlaces
<1> QED  BY <1>1, <1>3, <1>4, <1>6, SameTrade, SameHouse DEF IInv

\* A mail is replaced by one of the same item, or deleted with what it carries.
LEMMA ReplaceKeeps ==
    ASSUME IInv, NEW i \in MailIds, NEW returned \in BOOLEAN, NEW back,
           mails[i] # NoMail, returned => back \in Letters /\ back.item = mails[i].item,
           UNCHANGED <<money, bag, status, erased, trade, auctionVars>>,
           Commit({}, {}, [j \in {i} |-> IF returned THEN back ELSE NoMail]),
           Take(0, IF returned THEN {} ELSE {i})
    PROVE  IInv'
<1> DEFINE f == [j \in {i} |-> IF returned THEN back ELSE NoMail]
<1>1. Stored /\ HouseInv /\ TradeInv /\ Bookkeeping /\ PlaceInv  BY DEF IInv
<1>2. money \in Purse /\ bag \in Bags /\ mails \in Box  BY <1>1 DEF Stored
<1>3. DOMAIN f = {i} /\ f[i] = IF returned THEN back ELSE NoMail  OBVIOUS
<1>4. Commit({}, {}, f)  OBVIOUS
<1> HIDE DEF f
<1>5. DOMAIN f \subseteq MailIds /\ \A n \in DOMAIN f : f[n] \in Letters \cup {NoMail}  BY <1>3
<1>6. Over(f, mails) \in Box
      /\ \A n \in MailIds : Over(f, mails)[n] = IF n \in DOMAIN f THEN f[n] ELSE mails[n]
  BY <1>2, <1>5, OverBox
<1>7. Stored'
  <2>1. money' \in Purse /\ bag' \in Bags  BY <1>2
  <2>2. \A r \in Players : r \notin {} => money'[r] <= money[r]
    <3>1. money \in [Players -> Nat]  BY <1>2 DEF Purse
    <3> QED  BY <3>1
  <2>3. \A r \in Players : r \notin {} => bag'[r] = bag[r]  OBVIOUS
  <2> QED  BY <1>1, <1>4, <1>6, <2>1, <2>2, <2>3, CommitKeeps
<1> DEFINE del == IF returned THEN {} ELSE {i}
<1>8. taken' = [money |-> taken'.money, items |-> taken'.items]
      /\ taken'.items = taken.items \cup ({mails[n].item : n \in del} \ {NoItem})
  BY DEF Take
<1>9. Bookkeeping'  BY <1>1, <1>8 DEF Bookkeeping
<1>10. mails' = Over(f, mails)  BY <1>4 DEF Commit
<1>11. ASSUME NEW x \in Items  PROVE OnePlace(x)'
  <2>1. OnePlace(x)  BY <1>1 DEF PlaceInv
  <2>2. InHouse(x)' <=> InHouse(x)  BY DEF InHouse, auctionVars
  <2>3. del \subseteq MailIds /\ \A n \in del : mails[n] # NoMail  OBVIOUS
  <2>4. \A n \in MailIds : InMail(mails', n, x) <=> n \notin del /\ InMail(mails, n, x)
    <3>1. back # NoMail \/ ~returned  BY LettersAreMails
    <3> QED  BY <1>3, <1>6, <1>10, <3>1 DEF InMail
  <2>5. \A r \in Players : x \in bag'[r] <=> x \in bag[r]  OBVIOUS
  <2>6. taken'.items = taken.items \cup ({mails[n].item : n \in del} \ {NoItem})  BY <1>8
  <2> HIDE DEF del
  <2> QED  BY <2>1, <2>2, <2>3, <2>4, <2>5, <2>6, Deleted
<1>12. PlaceInv'  BY <1>11 DEF PlaceInv
<1> QED  BY <1>1, <1>7, <1>9, <1>12, SameTrade, SameHouse DEF IInv

\* What GetMail finds.
LEMMA OpenMail ==
    ASSUME Stored, NEW i \in MailIds, mails[i] # NoMail
    PROVE  mails[i] \in Letters
  BY DEF Stored, Box

\* HandleMailReturnToSender: a normal mail goes back, another is deleted.
LEMMA ReturnKeeps ==
    ASSUME IInv, NEW p \in Players, NEW i \in MailIds, MailReturnToSender(p, i),
           UNCHANGED <<trade, auctionVars>>
    PROVE  IInv'
<1> DEFINE m == mails[i]
<1> DEFINE returned == m.type = "normal"
<1> DEFINE back == Letter("normal", p, m.from, m.item, m.money, 0, "returned")
<1>1. m # NoMail  BY DEF MailReturnToSender, Opens
<1>2. m \in Letters  BY <1>1, OpenMail DEF IInv
<1>3. returned => back \in Letters /\ back.item = m.item  BY <1>2 DEF Letters, Letter
<1>4. UNCHANGED <<money, bag, status, erased, trade, auctionVars>>
      /\ Commit({}, {}, [j \in {i} |-> IF returned THEN back ELSE NoMail])
      /\ Take(0, IF returned THEN {} ELSE {i})
  BY DEF MailReturnToSender
<1>5. returned \in BOOLEAN  OBVIOUS
<1> HIDE DEF returned, back
<1> QED  BY <1>1, <1>3, <1>4, <1>5, ReplaceKeeps

\* ReturnOrDeleteOldMails: the mail goes back once, or is deleted.
LEMMA ExpireKeeps ==
    ASSUME IInv, NEW i \in MailIds, ReturnOrDelete(i), UNCHANGED <<trade, auctionVars>>
    PROVE  IInv'
<1> DEFINE m == mails[i]
<1> DEFINE returned == m.item # NoItem /\ m.type = "normal" /\ m.checked = ""
<1> DEFINE back == [m EXCEPT !.from = m.to, !.to = m.from, !.cod = 0, !.checked = "returned"]
<1>1. m # NoMail  BY DEF ReturnOrDelete
<1>2. m \in Letters  BY <1>1, OpenMail DEF IInv
<1>3. returned => back \in Letters /\ back.item = m.item  BY <1>2 DEF Letters
<1>4. UNCHANGED <<money, bag, status, erased, trade, auctionVars>>
      /\ Commit({}, {}, [j \in {i} |-> IF returned THEN back ELSE NoMail])
      /\ Take(0, IF returned THEN {} ELSE {i})
  BY DEF ReturnOrDelete
<1>5. returned \in BOOLEAN  OBVIOUS
<1> HIDE DEF returned, back
<1> QED  BY <1>1, <1>3, <1>4, <1>5, ReplaceKeeps

\* What is left of a mail is a mail, or no mail.
LEMMA RemainsOfMail ==
    ASSUME NEW m \in Letters
    PROVE  /\ Remains([m EXCEPT !.money = 0]) \in Letters \cup {NoMail}
           /\ Remains([m EXCEPT !.item = NoItem, !.cod = 0]) \in Letters \cup {NoMail}
           /\ m.item # NoItem => /\ Remains([m EXCEPT !.money = 0]) # NoMail
                                 /\ Remains([m EXCEPT !.money = 0]).item = m.item
           /\ m.item = NoItem => Remains([m EXCEPT !.money = 0]) = NoMail
           /\ \/ Remains([m EXCEPT !.item = NoItem, !.cod = 0]) = NoMail
              \/ Remains([m EXCEPT !.item = NoItem, !.cod = 0]).item = NoItem
<1> DEFINE a == [m EXCEPT !.money = 0]
<1> DEFINE b == [m EXCEPT !.item = NoItem, !.cod = 0]
<1>1. a \in Letters /\ a.item = m.item /\ a.money = 0  BY DEF Letters
<1>2. b \in Letters /\ b.item = NoItem  BY DEF Letters
<1> HIDE DEF a, b
<1>3. Remains(a) = IF m.item = NoItem THEN NoMail ELSE a  BY <1>1 DEF Remains
<1>4. Remains(b) = NoMail \/ Remains(b) = b  BY DEF Remains
<1>5. a # NoMail  BY <1>1, LettersAreMails
<1> QED  BY <1>1, <1>2, <1>3, <1>4, <1>5 DEF a, b

\* HandleMailTakeMoney: the mail keeps its item, or goes if it has none.
LEMMA TakeMoneyKeeps ==
    ASSUME IInv, NEW p \in Players, NEW i \in MailIds, MailTakeMoney(p, i),
           UNCHANGED <<trade, auctionVars>>
    PROVE  IInv'
<1> DEFINE m == mails[i]
<1> DEFINE rest == [j \in {i} |-> Remains([m EXCEPT !.money = 0])]
<1> DEFINE left == Over(rest, mails)
<1> DEFINE del == DOMAIN SaveMail(p)
<1>1. Stored /\ HouseInv /\ TradeInv /\ Bookkeeping /\ PlaceInv  BY DEF IInv
<1>2. m # NoMail  BY DEF MailTakeMoney, Opens
<1>3. m \in Letters  BY <1>1, <1>2, OpenMail
<1>4. /\ money' = Credit(money, p, m.money)
      /\ UNCHANGED bag
      /\ Commit({p}, {}, Over(SaveMail(p), rest))
      /\ erased' = erased \ DOMAIN SaveMail(p)
      /\ Take(0, DOMAIN SaveMail(p))
      /\ UNCHANGED <<status, spent>>
  BY DEF MailTakeMoney
<1>5. money \in Purse /\ bag \in Bags /\ mails \in Box /\ erased \subseteq MailIds
  BY <1>1 DEF Stored, Bookkeeping
<1>6. m.money \in Nat  BY <1>3 DEF Letters
<1>7. money' \in Purse /\ \A r \in Players : r # p => money'[r] = money[r]
  BY <1>4, <1>5, <1>6, CreditIs
<1>8. rest[i] \in Letters \cup {NoMail} /\ DOMAIN rest = {i}
      /\ (m.item # NoItem => rest[i] # NoMail /\ rest[i].item = m.item)
      /\ (m.item = NoItem => rest[i] = NoMail)
  BY <1>3, RemainsOfMail
<1> HIDE DEF rest
<1>9. left \in Box /\ \A n \in MailIds : left[n] = IF n \in DOMAIN rest THEN rest[n] ELSE mails[n]
  BY <1>5, <1>8, OverBox
<1>10. ASSUME NEW x \in Items, NEW n \in MailIds  PROVE InMail(left, n, x) <=> InMail(mails, n, x)
  <2>1. x # NoItem  BY HoldingsAssumption
  <2> HIDE DEF left
  <2>2. CASE n = i  BY <1>2, <1>8, <1>9, <2>1, <2>2 DEF InMail
  <2>3. CASE n # i  BY <1>8, <1>9, <2>3 DEF InMail
  <2> QED  BY <2>2, <2>3
<1>11. mails' = Over(SaveMail(p), left)
  <2>1. mails' = Over(Over(SaveMail(p), rest), mails)  BY <1>4 DEF Commit
  <2> QED  BY <2>1, OverOver
<1>12. Over(Over(SaveMail(p), rest), mails) = Over(SaveMail(p), left)  BY OverOver
<1> HIDE DEF left
<1>13. Over(SaveMail(p), left) \in Box
       /\ \A n \in MailIds : Over(SaveMail(p), left)[n] = IF n \in del THEN NoMail ELSE left[n]
  BY <1>5, <1>9, SavedMails
<1>14. del \subseteq MailIds /\ \A n \in del : mails[n] # NoMail  BY <1>5, SaveMailIs
<1>15. Stored'
  <2>1. \A r \in Players : r \notin {p} => money'[r] <= money[r]
    <3>1. money \in [Players -> Nat]  BY <1>5 DEF Purse
    <3> QED  BY <1>7, <3>1
  <2>2. \A r \in Players : r \notin {} => bag'[r] = bag[r]  BY <1>4
  <2>3. bag' \in Bags  BY <1>4, <1>5
  <2>4. Over(Over(SaveMail(p), rest), mails) \in Box  BY <1>12, <1>13
  <2> QED  BY <1>1, <1>4, <1>7, <2>1, <2>2, <2>3, <2>4, CommitKeeps
<1>16. taken' = [money |-> taken'.money, items |-> taken'.items]
       /\ taken'.items = taken.items \cup ({mails[n].item : n \in del} \ {NoItem})
  BY <1>4 DEF Take
<1>17. Bookkeeping'  BY <1>1, <1>4, <1>5, <1>16 DEF Bookkeeping
<1>18. ASSUME NEW x \in Items  PROVE OnePlace(x)'
  <2>1. OnePlace(x)  BY <1>1 DEF PlaceInv
  <2>2. InHouse(x)' <=> InHouse(x)  BY DEF InHouse, auctionVars
  <2>3. \A r \in Players : x \in bag'[r] <=> x \in bag[r]  BY <1>4
  <2>4. \A n \in MailIds : InMail(mails', n, x) <=> n \notin del /\ InMail(mails, n, x)
    <3>1. \A n \in MailIds : mails'[n] = IF n \in del THEN NoMail ELSE left[n]  BY <1>11, <1>13
    <3>2. \A n \in MailIds : InMail(mails', n, x) <=> n \notin del /\ InMail(left, n, x)
      BY <3>1 DEF InMail
    <3> QED  BY <1>10, <3>2
  <2>5. taken'.items = taken.items \cup ({mails[n].item : n \in del} \ {NoItem})  BY <1>16
  <2> HIDE DEF del
  <2> QED  BY <1>14, <2>1, <2>2, <2>3, <2>4, <2>5, Deleted
<1>19. PlaceInv'  BY <1>18 DEF PlaceInv
<1> QED  BY <1>1, <1>15, <1>17, <1>19, SameTrade, SameHouse DEF IInv

\* HandleMailTakeItem: the item moves to the bag, the payment is a letter.
LEMMA TakeItemKeeps ==
    ASSUME IInv, NEW p \in Players, NEW i \in MailIds, MailTakeItem(p, i),
           UNCHANGED <<trade, auctionVars>>
    PROVE  IInv'
<1> DEFINE m == mails[i]
<1> DEFINE payment == Letter("normal", p, m.from, NoItem, m.cod, 0, "codpaid")
<1> DEFINE new == <<payment>>
<1> DEFINE rest == [j \in {i} |-> Remains([m EXCEPT !.item = NoItem, !.cod = 0])]
<1> DEFINE paid == Over(SendMails(new), mails)
<1> DEFINE left == Over(rest, paid)
<1> DEFINE del == DOMAIN SaveMail(p)
<1> DEFINE change == Over(Over(SaveMail(p), rest), SendMails(new))
<1>1. Stored /\ HouseInv /\ TradeInv /\ Bookkeeping /\ PlaceInv  BY DEF IInv
<1>2. m # NoMail /\ i \notin erased  BY DEF MailTakeItem, Opens
<1>3. m \in Letters  BY <1>1, <1>2, OpenMail
<1>4. /\ m.item # NoItem /\ Free(1)
      /\ money' = Debit(money, p, m.cod)
      /\ bag' = [bag EXCEPT ![p] = bag[p] \cup {m.item}]
      /\ Commit({p}, {p}, change)
      /\ erased' = erased \ DOMAIN SaveMail(p)
      /\ Take(0, DOMAIN SaveMail(p))
      /\ UNCHANGED <<status, spent>>
  BY DEF MailTakeItem
<1>5. money \in Purse /\ bag \in [Players -> SUBSET Items] /\ mails \in Box /\ erased \subseteq MailIds
  BY <1>1 DEF Stored, Bookkeeping, Bags
<1>6. m.cod \in Nat /\ m.item \in Items  BY <1>3, <1>4 DEF Letters
<1>7. money' \in Purse /\ \A r \in Players : r # p => money'[r] = money[r]
  BY <1>4, <1>5, <1>6, DebitIs
<1>8. bag' \in Bags /\ bag'[p] = bag[p] \cup {m.item} /\ \A r \in Players : r # p => bag'[r] = bag[r]
  BY <1>4, <1>5, <1>6 DEF Bags
<1>9. rest[i] \in Letters \cup {NoMail} /\ DOMAIN rest = {i}
      /\ (rest[i] = NoMail \/ rest[i].item = NoItem)
  BY <1>3, RemainsOfMail
<1>10. payment.item = NoItem /\ payment.money = m.cod  BY DEF Letter
<1>11. paid \in Box /\ \A x \in Items : \A n \in MailIds : InMail(paid, n, x) <=> InMail(mails, n, x)
  <2>1. CASE m.type = "auction"
    <3>1. m.cod = 0  BY <1>3, <2>1 DEF Letters
    <3> HIDE DEF payment
    <3>2. Carrying(new) = {}  BY <1>10, <3>1 DEF Carrying
    <3> HIDE DEF new
    <3> QED  BY <1>5, <3>2, NoneAreSent
  <2>2. CASE m.type = "normal"
    <3>1. payment \in Letters  BY <1>3, <1>6, <2>2 DEF Letter, Letters
    <3> HIDE DEF payment
    <3>2. new \in Seq(Letters) /\ Len(new) = 1 /\ DOMAIN new = {1} /\ new[1] = payment  BY <3>1
    <3> HIDE DEF new
    <3>3. Free(Len(new))  BY <1>4, <3>2
    <3>4. Over(SendMails(new), mails) \in Box  BY <1>5, <3>2, <3>3, SentBox
    <3>5. ASSUME NEW x \in Items
          PROVE \A n \in MailIds : InMail(Over(SendMails(new), mails), n, x) <=> InMail(mails, n, x)
      <4>1. \A k \in DOMAIN new : new[k].item # x  BY <1>10, <3>2, HoldingsAssumption
      <4> QED  BY <1>5, <3>2, <3>3, <4>1, SentWithout
    <3> QED  BY <3>4, <3>5
  <2>3. m.type \in {"normal", "auction"}  BY <1>3 DEF Letters
  <2> QED  BY <2>1, <2>2, <2>3
<1>12. Over(change, mails) = Over(SaveMail(p), left)
  <2>1. Over(change, mails) = Over(Over(SaveMail(p), rest), paid)  BY OverOver
  <2> QED  BY <2>1, OverOver
<1>13. mails' = Over(SaveMail(p), left)  BY <1>4, <1>12 DEF Commit
<1> HIDE DEF rest, paid, change, new, payment
<1>14. left \in Box /\ \A n \in MailIds : left[n] = IF n \in DOMAIN rest THEN rest[n] ELSE paid[n]
  BY <1>9, <1>11, OverBox
<1> HIDE DEF left
<1>15. Over(SaveMail(p), left) \in Box
       /\ \A n \in MailIds : Over(SaveMail(p), left)[n] = IF n \in del THEN NoMail ELSE left[n]
  BY <1>5, <1>14, SavedMails
<1>16. del \subseteq MailIds /\ i \notin del /\ \A n \in del : mails[n] # NoMail
  BY <1>2, <1>5, SaveMailIs
<1>17. Stored'
  <2>1. \A r \in Players : r \notin {p} => money'[r] <= money[r]
    <3>1. money \in [Players -> Nat]  BY <1>5 DEF Purse
    <3> QED  BY <1>7, <3>1
  <2>2. \A r \in Players : r \notin {p} => bag'[r] = bag[r]  BY <1>8
  <2>3. Over(change, mails) \in Box  BY <1>12, <1>15
  <2> QED  BY <1>1, <1>4, <1>7, <1>8, <2>1, <2>2, <2>3, CommitKeeps
<1>18. taken' = [money |-> taken'.money, items |-> taken'.items]
       /\ taken'.items = taken.items \cup ({mails[n].item : n \in del} \ {NoItem})
  BY <1>4 DEF Take
<1>19. Bookkeeping'  BY <1>1, <1>4, <1>5, <1>18 DEF Bookkeeping
<1>20. ASSUME NEW x \in Items  PROVE OnePlace(x)'
  <2>1. OnePlace(x)  BY <1>1 DEF PlaceInv
  <2>2. InHouse(x)' <=> InHouse(x)  BY DEF InHouse, auctionVars
  <2>3. \A n \in MailIds : InMail(mails', n, x) <=> n \notin del /\ n # i /\ InMail(mails, n, x)
    <3>1. \A n \in MailIds : mails'[n] = IF n \in del THEN NoMail ELSE left[n]  BY <1>13, <1>15
    <3>2. \A n \in MailIds : InMail(mails', n, x) <=> n \notin del /\ InMail(left, n, x)
      BY <3>1 DEF InMail
    <3>3. ASSUME NEW n \in MailIds  PROVE InMail(left, n, x) <=> n # i /\ InMail(mails, n, x)
      <4>1. x # NoItem  BY HoldingsAssumption
      <4>2. CASE n = i  BY <1>9, <1>14, <4>1, <4>2 DEF InMail
      <4>3. CASE n # i
        <5>1. left[n] = paid[n]  BY <1>9, <1>14, <4>3
        <5>2. InMail(paid, n, x) <=> InMail(mails, n, x)  BY <1>11
        <5> QED  BY <4>3, <5>1, <5>2 DEF InMail
      <4> QED  BY <4>2, <4>3
    <3> QED  BY <3>2, <3>3
  <2>4. CASE x = m.item
    <3>1. InMail(mails, i, x)  BY <1>2, <2>4 DEF InMail
    <3>2. /\ \A r \in Players : x \notin bag[r]
          /\ \A n \in MailIds : InMail(mails, n, x) <=> n = i
          /\ ~InHouse(x) /\ x \notin taken.items
      BY <2>1, <3>1, FromMail
    <3>3. \A r \in Players : x \in bag'[r] <=> r = p  BY <1>8, <2>4, <3>2
    <3>4. \A n \in MailIds : ~InMail(mails', n, x)  BY <2>3, <3>2
    <3>5. x \notin taken'.items  BY <1>16, <1>18, <3>2 DEF InMail
    <3>6. ~InHouse(x)'  BY <2>2, <3>2
    <3> QED  BY <3>3, <3>4, <3>5, <3>6, ToBag
  <2>5. CASE x # m.item
    <3>1. ~InMail(mails, i, x)  BY <2>5 DEF InMail
    <3>2. \A n \in MailIds : InMail(mails', n, x) <=> n \notin del /\ InMail(mails, n, x)
      BY <2>3, <3>1
    <3>3. \A r \in Players : x \in bag'[r] <=> x \in bag[r]  BY <1>8, <2>5
    <3>4. taken'.items = taken.items \cup ({mails[n].item : n \in del} \ {NoItem})  BY <1>18
    <3>5. del \subseteq MailIds /\ \A n \in del : mails[n] # NoMail  BY <1>16
    <3> HIDE DEF del
    <3> QED  BY <2>1, <2>2, <3>2, <3>3, <3>4, <3>5, Deleted
  <2> QED  BY <2>4, <2>5
<1>21. PlaceInv'  BY <1>20 DEF PlaceInv
<1> QED  BY <1>1, <1>17, <1>19, <1>21, SameTrade, SameHouse DEF IInv

-----------------------------------------------------------------------------
(***************************************************************************)
(* The auction house.                                                      *)
(***************************************************************************)
LEMMA AuctionIs ==
    ASSUME HouseInv, NEW i \in Items, InHouse(i)
    PROVE  house[i] \in Auctions
  BY DEF HouseInv, House, InHouse

\* The cut is a part of the bid.
LEMMA CutIs ==
    ASSUME NEW a \in Auctions
    PROVE  Cut(a) \in Nat /\ Cut(a) <= a.bid
<1> DEFINE b == a.bid
<1> DEFINE c == CutPercent
<1>1. b \in Nat /\ c \in 0..100  BY AuctionAssumption DEF Auctions
<1>2. Cut(a) = (b * c) \div 100  BY DEF Cut
<1> HIDE DEF b, c
<1>3. b * c \in Nat /\ b * c <= b * 100  BY <1>1
<1> DEFINE x == b * c
<1> HIDE DEF x
<1>4. x \in Nat /\ x <= b * 100  BY <1>3 DEF x
<1>5. x \div 100 \in Nat /\ x \div 100 <= b  BY <1>1, <1>4
<1> QED  BY <1>2, <1>5 DEF b, x

\* The deposits are as the seller was told.
LEMMA SharesAre ==
    ASSUME NEW n \in Nat, n # 0
    PROVE  \A k \in 1..n : Shares(n)[k] = Deposit
<1> DEFINE d == Deposit
<1>1. d \in Nat  BY AuctionAssumption
<1>2. Shares(n) = [k \in 1..n |-> IF k = n THEN d * n - (n - 1) * ((d * n) \div n)
                                           ELSE (d * n) \div n]
  BY DEF Shares
<1> HIDE DEF d
<1>3. (d * n) \div n = d  BY <1>1
<1>4. d * n - (n - 1) * d = d  BY <1>1
<1> QED  BY <1>2, <1>3, <1>4 DEF d

\* A mail of the auction house.
LEMMA AuctionMailIs ==
    ASSUME NEW to \in Players, NEW item \in Items \cup {NoItem}, NEW amount \in Nat
    PROVE  AuctionMail(to, item, amount) \in Letters /\ AuctionMail(to, item, amount).item = item
  BY DEF AuctionMail, Letter, Letters

\* The mails that end an auction: one at most refunds the last bidder ...
LEMMA OutbiddedIs ==
    ASSUME NEW p \in Players, NEW a \in Auctions
    PROVE  /\ Outbidded(p, a) \in Seq(Letters) /\ Len(Outbidded(p, a)) \in {0, 1}
           /\ \A k \in DOMAIN Outbidded(p, a) : Outbidded(p, a)[k].item = NoItem
<1>1. CASE a.bidder \notin {NoItem, p}
  <2>1. a.bidder \in Players /\ a.bid \in Nat  BY <1>1 DEF Auctions
  <2>2. Refund(a) \in Letters /\ Refund(a).item = NoItem  BY <2>1, AuctionMailIs DEF Refund
  <2>3. Outbidded(p, a) = <<Refund(a)>>  BY <1>1 DEF Outbidded
  <2> QED  BY <2>2, <2>3
<1>2. CASE a.bidder \in {NoItem, p}
  <2>1. Outbidded(p, a) = <<>>  BY <1>2 DEF Outbidded
  <2> QED  BY <2>1
<1> QED  BY <1>1, <1>2

\* ... and a sale pays the owner, and sends the item to the bidder.
LEMMA SoldIs ==
    ASSUME NEW a \in Auctions, a.bidder # NoItem, NEW i \in Items
    PROVE  /\ Sold(a, i) \in Seq(Letters) /\ Len(Sold(a, i)) = 2
           /\ Sold(a, i)[1].item = NoItem /\ Sold(a, i)[2].item = i
<1> DEFINE first == AuctionMail(a.owner, NoItem, a.bid + a.deposit - Cut(a))
<1> DEFINE second == AuctionMail(a.bidder, i, 0)
<1>1. a.owner \in Players /\ a.bidder \in Players /\ a.bid \in Nat /\ a.deposit \in Nat  BY DEF Auctions
<1>2. a.bid + a.deposit - Cut(a) \in Nat  BY <1>1, CutIs
<1>3. first \in Letters /\ first.item = NoItem  BY <1>1, <1>2, AuctionMailIs
<1>4. second \in Letters /\ second.item = i  BY <1>1, AuctionMailIs
<1>5. Sold(a, i) = <<first, second>>  BY DEF Sold
<1> HIDE DEF first, second
<1> QED  BY <1>3, <1>4, <1>5

\* Letters of which the last carries the item, and the others none.
SendsLast(new, i) ==
    /\ new \in Seq(Letters) /\ Len(new) > 0
    /\ new[Len(new)].item = i
    /\ \A k \in DOMAIN new : k # Len(new) => new[k].item = NoItem

\* Refunds, which carry money only, may come before the letter with the item.
LEMMA LastOfTwoParts ==
    ASSUME NEW first \in Seq(Letters), \A k \in DOMAIN first : first[k].item = NoItem,
           NEW second, NEW i \in Items, SendsLast(second, i)
    PROVE  SendsLast(first \o second, i)
<1> DEFINE new == first \o second
<1>1. second \in Seq(Letters) /\ Len(second) > 0 /\ second[Len(second)].item = i
      /\ \A k \in DOMAIN second : k # Len(second) => second[k].item = NoItem
  BY DEF SendsLast
<1>2. new \in Seq(Letters) /\ Len(new) = Len(first) + Len(second)  BY <1>1
<1>3. Len(first) \in Nat /\ Len(second) \in Nat /\ DOMAIN second = 1..Len(second)
      /\ DOMAIN first = 1..Len(first) /\ DOMAIN new = 1..Len(new)
  BY <1>1, <1>2
<1>4. \A k \in 1..Len(new) : new[k] = IF k <= Len(first) THEN first[k] ELSE second[k - Len(first)]
  BY <1>1, <1>2, <1>3
<1> HIDE DEF new
<1>5. new[Len(new)] = second[Len(second)]  BY <1>1, <1>2, <1>3, <1>4
<1>6. ASSUME NEW k \in 1..Len(new), k # Len(new)  PROVE new[k].item = NoItem
  <2>1. CASE k <= Len(first)
    <3>1. k \in DOMAIN first /\ new[k] = first[k]  BY <1>3, <1>4, <2>1
    <3> QED  BY <3>1
  <2>2. CASE k > Len(first)
    <3>1. k - Len(first) \in DOMAIN second /\ k - Len(first) # Len(second)
      BY <1>2, <1>3, <1>6, <2>2
    <3>2. new[k] = second[k - Len(first)]  BY <1>3, <1>4, <2>2
    <3> QED  BY <1>1, <3>1, <3>2
  <2> QED  BY <1>3, <2>1, <2>2
<1>7. SendsLast(new, i)  BY <1>1, <1>2, <1>3, <1>5, <1>6 DEF SendsLast
<1> QED  BY <1>7 DEF new

\* The mails of a sale end with the item's.
LEMMA SoldSends ==
    ASSUME NEW a \in Auctions, a.bidder # NoItem, NEW i \in Items
    PROVE  SendsLast(Sold(a, i), i)
  BY SoldIs DEF SendsLast

\* HandleAuctionSellItem: the new entry is the seller's, and pending.
LEMMA SellKeepsHouse ==
    ASSUME HouseInv, NEW p \in Players, NEW i \in Items, NEW startbid \in Prices, NEW buyout \in Buyouts,
           AuctionSellItem(p, i, startbid, buyout)
    PROVE  HouseInv' /\ InHouse(i)' /\ \A j \in Items : j # i => (InHouse(j)' <=> InHouse(j))
<1> DEFINE new == [owner |-> p, startbid |-> startbid, buyout |-> buyout,
                   bidder |-> NoItem, bid |-> 0, deposit |-> Deposit]
<1>1. house' = [house EXCEPT ![i] = new] /\ houseRows' = [houseRows EXCEPT ![i] = new]
      /\ pending' = [pending EXCEPT ![p].auctions = Append(pending[p].auctions, i)]
      /\ house[i] = NoAuction
  BY DEF AuctionSellItem, InHouse
<1>2. new \in Auctions /\ new.owner = p /\ new.bid = 0 /\ new.buyout \in Nat
  BY AuctionAssumption DEF Auctions
<1> HIDE DEF new
<1>3. new # NoAuction  BY <1>2, AuctionAssumption
<1>4. house \in [Items -> Auctions \cup {NoAuction}] /\ houseRows = house
      /\ pending \in [Players -> Adding]
  BY DEF HouseInv, House
<1>5. house' \in [Items -> Auctions \cup {NoAuction}] /\ houseRows' = house'
      /\ house'[i] = new /\ \A j \in Items : j # i => house'[j] = house[j]
  BY <1>1, <1>2, <1>4
<1>6. pending[p].auctions \in Seq(Items \cup {Dangling}) /\ pending[p].count \in Nat
  BY <1>4 DEF Adding
<1> DEFINE list == pending[p].auctions
<1> DEFINE longer == Append(list, i)
<1>7. list \in Seq(Items \cup {Dangling}) /\ longer \in Seq(Items \cup {Dangling})  BY <1>6
<1>8. Len(list) \in Nat /\ DOMAIN list = 1..Len(list) /\ DOMAIN longer = 1..(Len(list) + 1)
      /\ longer[Len(list) + 1] = i /\ \A k \in DOMAIN list : longer[k] = list[k]
  BY <1>7
<1>9. pending' = [pending EXCEPT ![p].auctions = longer]  BY <1>1
<1> HIDE DEF longer
<1>10. pending' \in [Players -> Adding] /\ pending'[p].auctions = longer
       /\ \A q \in Players : q # p => pending'[q] = pending[q]
  BY <1>4, <1>7, <1>9 DEF Adding
<1> HIDE DEF list
<1>11. ASSUME NEW j \in Items, house'[j] # NoAuction, house'[j].buyout # 0
       PROVE  house'[j].bid < house'[j].buyout
  <2>1. CASE j = i  BY <1>2, <1>5, <1>11, <2>1
  <2>2. CASE j # i  BY <1>5, <1>11, <2>2 DEF HouseInv, InHouse
  <2> QED  BY <2>1, <2>2
<1>12. ASSUME NEW q \in Players, NEW k \in DOMAIN pending'[q].auctions,
              pending'[q].auctions[k] # Dangling
       PROVE  /\ house'[pending'[q].auctions[k]] # NoAuction
              /\ house'[pending'[q].auctions[k]].owner = q
  <2> DEFINE j == pending'[q].auctions[k]
  <2>1. CASE q = p /\ k = Len(list) + 1
    <3>1. j = i  BY <1>8, <1>10, <2>1
    <3> QED  BY <1>2, <1>3, <1>5, <2>1, <3>1
  <2>2. CASE ~(q = p /\ k = Len(list) + 1)
    <3>1. k \in DOMAIN pending[q].auctions /\ j = pending[q].auctions[k]
      <4>1. CASE q = p
        <5>1. k \in 1..(Len(list) + 1) /\ k # Len(list) + 1  BY <1>8, <1>10, <1>12, <2>2, <4>1
        <5>2. k \in DOMAIN list  BY <1>8, <5>1
        <5> QED  BY <1>8, <1>10, <4>1, <5>2 DEF list
      <4>2. CASE q # p  BY <1>10, <1>12, <4>2
      <4> QED  BY <4>1, <4>2
    <3>2. house[j] # NoAuction /\ house[j].owner = q  BY <1>12, <3>1 DEF HouseInv
    <3>3. j \in Items
      <4>1. pending[q].auctions \in Seq(Items \cup {Dangling})  BY <1>4 DEF Adding
      <4> QED  BY <1>12, <3>1, <4>1
    <3>4. j # i  BY <1>1, <3>2
    <3> QED  BY <1>5, <3>2, <3>3, <3>4
  <2> QED  BY <2>1, <2>2
<1>13. HouseInv'  BY <1>5, <1>10, <1>11, <1>12 DEF HouseInv, House, InHouse
<1> QED  BY <1>3, <1>5, <1>13 DEF InHouse

\* RemoveAuction: no pending list has the entry any more.
LEMMA RemoveKeepsHouse ==
    ASSUME HouseInv, NEW i \in Items, InHouse(i), RemoveAuction(i)
    PROVE  HouseInv' /\ ~InHouse(i)' /\ \A j \in Items : j # i => (InHouse(j)' <=> InHouse(j))
<1> DEFINE o == house[i].owner
<1>1. house[i] \in Auctions  BY AuctionIs
<1>2. o \in Players  BY <1>1 DEF Auctions
<1>3. house' = [house EXCEPT ![i] = NoAuction] /\ houseRows' = [houseRows EXCEPT ![i] = NoAuction]
  BY DEF RemoveAuction
<1> DEFINE list == pending[o].auctions
<1> DEFINE struck == [k \in DOMAIN list |-> IF list[k] = i THEN Dangling ELSE list[k]]
<1>4. house \in [Items -> Auctions \cup {NoAuction}] /\ houseRows = house
      /\ pending \in [Players -> Adding]
  BY DEF HouseInv, House
<1>5. house' \in [Items -> Auctions \cup {NoAuction}] /\ houseRows' = house'
      /\ house'[i] = NoAuction /\ \A j \in Items : j # i => house'[j] = house[j]
  BY <1>3, <1>4
<1>6. pending' = [pending EXCEPT ![o].auctions = struck]  BY <1>2, <1>4 DEF RemoveAuction
<1>7. list \in Seq(Items \cup {Dangling})  BY <1>2, <1>4 DEF Adding
<1>8. struck \in Seq(Items \cup {Dangling}) /\ DOMAIN struck = DOMAIN list
      /\ \A k \in DOMAIN list : struck[k] = IF list[k] = i THEN Dangling ELSE list[k]
  BY <1>7
<1> HIDE DEF struck
<1>9. pending' \in [Players -> Adding] /\ pending'[o].auctions = struck
      /\ \A q \in Players : q # o => pending'[q] = pending[q]
  BY <1>2, <1>4, <1>6, <1>8 DEF Adding
<1> HIDE DEF list, o
<1>10. ASSUME NEW j \in Items, house'[j] # NoAuction, house'[j].buyout # 0
       PROVE  house'[j].bid < house'[j].buyout
  BY <1>5, <1>10 DEF HouseInv, InHouse
<1>11. ASSUME NEW q \in Players, NEW k \in DOMAIN pending'[q].auctions,
              pending'[q].auctions[k] # Dangling
       PROVE  /\ house'[pending'[q].auctions[k]] # NoAuction
              /\ house'[pending'[q].auctions[k]].owner = q
  <2> DEFINE j == pending'[q].auctions[k]
  <2>1. k \in DOMAIN pending[q].auctions /\ j = pending[q].auctions[k] /\ (q = o => j # i)
    <3>1. CASE q = o  BY <1>8, <1>9, <1>11, <3>1 DEF list
    <3>2. CASE q # o  BY <1>9, <1>11, <3>2
    <3> QED  BY <3>1, <3>2
  <2>2. house[j] # NoAuction /\ house[j].owner = q  BY <1>11, <2>1 DEF HouseInv
  <2>3. j \in Items
    <3>1. pending[q].auctions \in Seq(Items \cup {Dangling})  BY <1>4 DEF Adding
    <3> QED  BY <1>11, <2>1, <3>1
  <2>4. j # i  BY <2>1, <2>2 DEF o
  <2> QED  BY <1>5, <2>2, <2>3, <2>4
<1>12. HouseInv'  BY <1>5, <1>9, <1>10, <1>11 DEF HouseInv, House, InHouse
<1> QED  BY <1>5, <1>12 DEF InHouse

\* HandleAuctionSellItem: the item moves from the bag to the house.
LEMMA SellKeeps ==
    ASSUME IInv, NEW p \in Players, NEW i \in Items, NEW startbid \in Prices, NEW buyout \in Buyouts,
           AuctionSellItem(p, i, startbid, buyout), UNCHANGED trade
    PROVE  IInv'
<1>1. Stored /\ HouseInv /\ TradeInv /\ Bookkeeping /\ PlaceInv  BY DEF IInv
<1>2. HouseInv' /\ InHouse(i)' /\ \A j \in Items : j # i => (InHouse(j)' <=> InHouse(j))
  BY <1>1, SellKeepsHouse
<1>3. i \in bag[p] /\ bag' = [bag EXCEPT ![p] = bag[p] \ {i}] /\ UNCHANGED <<status, money, erased, taken>>
      /\ Commit({p}, {p}, Nothing)
  BY DEF AuctionSellItem
<1>4. money \in Purse /\ bag \in [Players -> SUBSET Items] /\ mails \in Box  BY <1>1 DEF Stored, Bags
<1>5. bag' \in Bags /\ bag'[p] = bag[p] \ {i} /\ \A r \in Players : r # p => bag'[r] = bag[r]
  BY <1>3, <1>4 DEF Bags
<1>6. Over(Nothing, mails) = mails  BY <1>1, NothingIsSent
<1>7. Stored'
  <2>1. \A r \in Players : r \notin {p} => money'[r] <= money[r]
    <3>1. money \in [Players -> Nat]  BY <1>4 DEF Purse
    <3> QED  BY <1>3, <3>1
  <2>2. \A r \in Players : r \notin {p} => bag'[r] = bag[r]  BY <1>5
  <2>3. money' \in Purse  BY <1>3, <1>4
  <2>4. Over(Nothing, mails) \in Box  BY <1>4, <1>6
  <2> QED  BY <1>1, <1>3, <1>5, <2>1, <2>2, <2>3, <2>4, CommitKeeps
<1>8. Bookkeeping'  BY <1>1, <1>3 DEF Bookkeeping
<1>9. mails' = mails  BY <1>3, <1>6 DEF Commit
<1>10. ASSUME NEW x \in Items  PROVE OnePlace(x)'
  <2>1. OnePlace(x)  BY <1>1 DEF PlaceInv
  <2>2. \A n \in MailIds : InMail(mails', n, x) <=> InMail(mails, n, x)  BY <1>9
  <2>3. CASE x = i
    <3>1. /\ \A r \in Players : x \in bag[r] <=> r = p
          /\ \A n \in MailIds : ~InMail(mails, n, x)
          /\ ~InHouse(x) /\ x \notin taken.items
      BY <1>3, <2>1, <2>3, FromBag
    <3>2. \A r \in Players : x \notin bag'[r]  BY <1>5, <2>3, <3>1
    <3>3. \A n \in MailIds : ~InMail(mails', n, x)  BY <2>2, <3>1
    <3>4. InHouse(x)'  BY <1>2, <2>3
    <3>5. x \notin taken'.items  BY <1>3, <3>1
    <3> QED  BY <3>2, <3>3, <3>4, <3>5, ToHouse
  <2>4. CASE x # i
    <3>1. \A r \in Players : x \in bag'[r] <=> x \in bag[r]  BY <1>5, <2>4
    <3>2. InHouse(x)' <=> InHouse(x)  BY <1>2, <2>4
    <3>3. x \in taken'.items <=> x \in taken.items  BY <1>3
    <3> QED  BY <2>1, <2>2, <3>1, <3>2, <3>3, Stays
  <2> QED  BY <2>3, <2>4
<1>11. PlaceInv'  BY <1>10 DEF PlaceInv
<1> QED  BY <1>1, <1>2, <1>7, <1>8, <1>11, SameTrade DEF IInv

\* An auction ends: its item goes by mail.
LEMMA SentAway ==
    ASSUME IInv, NEW i \in Items, InHouse(i), RemoveAuction(i),
           NEW new, SendsLast(new, i), Free(Len(new)), NEW gold, NEW inventory,
           Commit(gold, inventory, SendMails(new)), money' \in Purse,
           \A r \in Players : r \notin gold => money'[r] <= money[r],
           UNCHANGED <<status, bag, erased, trade>>, NEW fee, Take(fee, {})
    PROVE  IInv'
<1>1. Stored /\ HouseInv /\ TradeInv /\ Bookkeeping /\ PlaceInv  BY DEF IInv
<1>2. HouseInv' /\ ~InHouse(i)' /\ \A j \in Items : j # i => (InHouse(j)' <=> InHouse(j))
  BY <1>1, RemoveKeepsHouse
<1>3. new \in Seq(Letters) /\ Len(new) > 0 /\ new[Len(new)].item = i
      /\ \A k \in DOMAIN new : k # Len(new) => new[k].item = NoItem
  BY DEF SendsLast
<1>4. mails \in Box /\ bag \in Bags  BY <1>1 DEF Stored
<1>5. Over(SendMails(new), mails) \in Box  BY <1>3, <1>4, SentBox
<1>6. Stored'
  <2>1. \A r \in Players : r \notin inventory => bag'[r] = bag[r]  OBVIOUS
  <2>2. bag' \in Bags  BY <1>4
  <2> QED  BY <1>1, <1>5, <2>1, <2>2, CommitKeeps
<1>7. taken' = [money |-> taken'.money, items |-> taken'.items] /\ taken'.items = taken.items
  BY DEF Take
<1>8. Bookkeeping'  BY <1>1, <1>7 DEF Bookkeeping
<1>9. mails' = Over(SendMails(new), mails)  BY DEF Commit
<1>10. ASSUME NEW x \in Items  PROVE OnePlace(x)'
  <2>1. OnePlace(x)  BY <1>1 DEF PlaceInv
  <2>2. x # NoItem  BY HoldingsAssumption
  <2>3. CASE x = i
    <3>1. /\ \A r \in Players : x \notin bag[r]
          /\ \A n \in MailIds : ~InMail(mails, n, x)
          /\ x \notin taken.items
      BY <2>1, <2>3, FromHouse
    <3>2. Len(new) \in DOMAIN new /\ new[Len(new)].item = x
          /\ \A k \in DOMAIN new : new[k].item = x => k = Len(new)
      BY <1>3, <2>2, <2>3
    <3>3. PICK m \in MailIds : \A n \in MailIds :
             InMail(Over(SendMails(new), mails), n, x) <=> n = m \/ InMail(mails, n, x)
      BY <1>3, <1>4, <3>2, SentItem
    <3>4. \A n \in MailIds : InMail(mails', n, x) <=> n = m  BY <1>9, <3>1, <3>3
    <3>5. \A r \in Players : x \notin bag'[r]  BY <3>1
    <3>6. ~InHouse(x)' /\ x \notin taken'.items  BY <1>2, <1>7, <2>3, <3>1
    <3> QED  BY <3>4, <3>5, <3>6, ToMail
  <2>4. CASE x # i
    <3>1. \A k \in DOMAIN new : new[k].item # x  BY <1>3, <2>2, <2>4
    <3>2. \A n \in MailIds : InMail(Over(SendMails(new), mails), n, x) <=> InMail(mails, n, x)
      BY <1>3, <1>4, <3>1, SentWithout
    <3>3. \A n \in MailIds : InMail(mails', n, x) <=> InMail(mails, n, x)  BY <1>9, <3>2
    <3>4. InHouse(x)' <=> InHouse(x)  BY <1>2, <2>4
    <3>5. x \in taken'.items <=> x \in taken.items  BY <1>7
    <3>6. \A r \in Players : x \in bag'[r] <=> x \in bag[r]  OBVIOUS
    <3> QED  BY <2>1, <3>3, <3>4, <3>5, <3>6, Stays
  <2> QED  BY <2>3, <2>4
<1>11. PlaceInv'  BY <1>10 DEF PlaceInv
<1> QED  BY <1>1, <1>2, <1>6, <1>8, <1>11, SameTrade DEF IInv

\* What a bidder pays, of what he has.
LEMMA OwesIs ==
    ASSUME NEW p \in Players, NEW a \in Auctions, NEW price \in Nat, price > a.bid
    PROVE  Owes(p, a, price) \in Nat
  BY DEF Owes, Auctions

\* HandleAuctionPlaceBid at the buyout: the item leaves by mail to the buyer.
LEMMA BuyoutKeeps ==
    ASSUME IInv, NEW p \in Players, NEW i \in Items, NEW price \in Prices,
           AuctionBuyout(p, i, price), UNCHANGED trade
    PROVE  IInv'
<1> DEFINE a == house[i]
<1> DEFINE bought == [a EXCEPT !.bidder = p, !.bid = a.buyout]
<1> DEFINE sent == Outbidded(p, a) \o Sold(bought, i)
<1>1. Stored /\ HouseInv  BY DEF IInv
<1>2. InHouse(i) /\ a.buyout # 0  BY DEF AuctionBuyout, MayBid
<1>3. a \in Auctions /\ a.bid < a.buyout /\ a.buyout \in Nat
  <2>1. a \in Auctions  BY <1>1, <1>2, AuctionIs
  <2>2. a.bid < a.buyout  BY <1>1, <1>2 DEF HouseInv
  <2> QED  BY <2>1, <2>2 DEF Auctions
<1>4. bought \in Auctions /\ bought.bidder # NoItem
  BY <1>3, HoldingsAssumption DEF Auctions
<1>5. /\ Free(Len(sent))
      /\ money' = Debit(money, p, Owes(p, a, a.buyout))
      /\ UNCHANGED <<bag, status, erased>>
      /\ Commit({p}, {p}, SendMails(sent))
      /\ RemoveAuction(i)
      /\ Take(Cut(bought), {})
  BY DEF AuctionBuyout
<1> HIDE DEF bought
<1>6. SendsLast(sent, i)
  <2> DEFINE first == Outbidded(p, a)
  <2> DEFINE second == Sold(bought, i)
  <2>1. first \in Seq(Letters) /\ \A k \in DOMAIN first : first[k].item = NoItem
    BY <1>3, OutbiddedIs
  <2>2. SendsLast(second, i)  BY <1>4, SoldSends
  <2> HIDE DEF first, second
  <2>3. SendsLast(first \o second, i)  BY <2>1, <2>2, LastOfTwoParts
  <2> QED  BY <2>3 DEF first, second
<1>7. money' \in Purse /\ \A r \in Players : r \notin {p} => money'[r] <= money[r]
  <2>1. Owes(p, a, a.buyout) \in Nat  BY <1>3, OwesIs
  <2>2. money \in Purse /\ money \in [Players -> Nat]  BY <1>1 DEF Stored, Purse
  <2>3. money' \in Purse /\ \A r \in Players : r # p => money'[r] = money[r]
    BY <1>5, <2>1, <2>2, DebitIs
  <2> QED  BY <2>2, <2>3
<1>8. UNCHANGED <<status, bag, erased, trade>>  BY <1>5
<1> HIDE DEF sent, a
<1> QED  BY <1>2, <1>5, <1>6, <1>7, <1>8, SentAway

\* HandleAuctionRemoveItem: the item leaves by mail to its owner.
LEMMA RemoveKeeps ==
    ASSUME IInv, NEW p \in Players, NEW i \in Items, AuctionRemoveItem(p, i), UNCHANGED trade
    PROVE  IInv'
<1> DEFINE a == house[i]
<1> DEFINE fee == IF a.bidder # NoItem THEN Cut(a) ELSE 0
<1> DEFINE sent == Outbidded(p, a) \o <<AuctionMail(p, i, 0)>>
<1>1. Stored /\ HouseInv  BY DEF IInv
<1>2. InHouse(i)  BY DEF AuctionRemoveItem
<1>3. a \in Auctions  BY <1>1, <1>2, AuctionIs
<1>4. /\ Free(Len(sent))
      /\ money' = Debit(money, p, fee)
      /\ UNCHANGED <<bag, status, erased>>
      /\ Commit({p}, {p}, SendMails(sent))
      /\ RemoveAuction(i)
      /\ Take(fee + a.deposit, {})
  BY DEF AuctionRemoveItem
<1>5. SendsLast(sent, i)
  <2> DEFINE first == Outbidded(p, a)
  <2> DEFINE letter == AuctionMail(p, i, 0)
  <2> DEFINE second == <<letter>>
  <2>1. first \in Seq(Letters) /\ \A k \in DOMAIN first : first[k].item = NoItem
    BY <1>3, OutbiddedIs
  <2>2. letter \in Letters /\ letter.item = i  BY AuctionMailIs
  <2> HIDE DEF letter
  <2>3. SendsLast(second, i)  BY <2>2 DEF SendsLast
  <2> HIDE DEF first, second
  <2>4. SendsLast(first \o second, i)  BY <2>1, <2>3, LastOfTwoParts
  <2> QED  BY <2>4 DEF first, second, letter
<1>6. money' \in Purse /\ \A r \in Players : r \notin {p} => money'[r] <= money[r]
  <2>1. fee \in Nat  BY <1>3, CutIs
  <2>2. money \in Purse /\ money \in [Players -> Nat]  BY <1>1 DEF Stored, Purse
  <2> HIDE DEF fee
  <2>3. money' \in Purse /\ \A r \in Players : r # p => money'[r] = money[r]
    BY <1>4, <2>1, <2>2, DebitIs
  <2> QED  BY <2>2, <2>3
<1>7. UNCHANGED <<status, bag, erased, trade>>  BY <1>4
<1> DEFINE all == fee + a.deposit
<1>8. Take(all, {})  BY <1>4
<1> HIDE DEF sent, a, all
<1> QED  BY <1>2, <1>4, <1>5, <1>6, <1>7, <1>8, SentAway

\* AuctionHouseObject::Update: the item leaves by mail, sold or not.
LEMMA AuctionExpireKeeps ==
    ASSUME IInv, NEW i \in Items, AuctionExpire(i), UNCHANGED trade
    PROVE  IInv'
<1> DEFINE a == house[i]
<1> DEFINE sold == a.bidder # NoItem
<1> DEFINE sent == IF sold THEN Sold(a, i) ELSE <<AuctionMail(a.owner, i, 0)>>
<1> DEFINE fee == IF sold THEN Cut(a) ELSE a.deposit
<1>1. Stored /\ HouseInv  BY DEF IInv
<1>2. InHouse(i)  BY DEF AuctionExpire
<1>3. a \in Auctions  BY <1>1, <1>2, AuctionIs
<1>4. /\ Free(Len(sent))
      /\ UNCHANGED <<money, bag, status, erased>>
      /\ Commit({}, {}, SendMails(sent))
      /\ RemoveAuction(i)
      /\ Take(fee, {})
  BY DEF AuctionExpire
<1>5. SendsLast(sent, i)
  <2>1. CASE sold  BY <1>3, <2>1, SoldSends
  <2>2. CASE ~sold
    <3> DEFINE letter == AuctionMail(a.owner, i, 0)
    <3>1. a.owner \in Players  BY <1>3 DEF Auctions
    <3>2. letter \in Letters /\ letter.item = i  BY <3>1, AuctionMailIs
    <3> HIDE DEF letter
    <3>3. SendsLast(<<letter>>, i)  BY <3>2 DEF SendsLast
    <3> QED  BY <2>2, <3>3 DEF letter
  <2> QED  BY <2>1, <2>2
<1>6. money' \in Purse /\ \A r \in Players : r \notin {} => money'[r] <= money[r]
  <2>1. money \in Purse /\ money \in [Players -> Nat]  BY <1>1 DEF Stored, Purse
  <2> QED  BY <1>4, <2>1
<1>7. UNCHANGED <<status, bag, erased, trade>>  BY <1>4
<1> HIDE DEF sent, a, fee
<1> QED  BY <1>2, <1>4, <1>5, <1>6, <1>7, SentAway

\* Another bid: the entry has a new bidder, and the item stays.
LEMMA PlaceBidKeeps ==
    ASSUME IInv, NEW p \in Players, NEW i \in Items, NEW price \in Prices,
           AuctionPlaceBid(p, i, price), UNCHANGED trade
    PROVE  IInv'
<1> DEFINE a == house[i]
<1> DEFINE bid == [a EXCEPT !.bidder = p, !.bid = price]
<1> DEFINE outbid == Outbidded(p, a)
<1>1. Stored /\ HouseInv /\ TradeInv /\ Bookkeeping /\ PlaceInv  BY DEF IInv
<1>2. InHouse(i) /\ price > a.bid /\ (a.buyout = 0 \/ price < a.buyout)
  BY DEF AuctionPlaceBid, MayBid
<1>3. a \in Auctions  BY <1>1, <1>2, AuctionIs
<1>4. price \in Nat  BY AuctionAssumption
<1>5. bid \in Auctions /\ bid.owner = a.owner /\ bid.buyout = a.buyout /\ bid.bid = price
  BY <1>3, <1>4 DEF Auctions
<1>6. bid # NoAuction  BY <1>5, AuctionAssumption
<1>7. /\ Free(Len(outbid))
      /\ money' = Debit(money, p, Owes(p, a, price))
      /\ house' = [house EXCEPT ![i] = bid]
      /\ houseRows' = [houseRows EXCEPT ![i].bidder = p, ![i].bid = price]
      /\ UNCHANGED <<bag, status, erased, taken, pending>>
      /\ Commit({p}, {p}, SendMails(outbid))
  BY DEF AuctionPlaceBid
<1>8. house \in [Items -> Auctions \cup {NoAuction}] /\ houseRows = house
      /\ pending \in [Players -> Adding]
  BY <1>1 DEF HouseInv, House
<1>9. houseRows' = [houseRows EXCEPT ![i] = bid]  BY <1>7, <1>8
<1> HIDE DEF bid
<1>10. house' \in [Items -> Auctions \cup {NoAuction}] /\ houseRows' = house'
       /\ house'[i] = bid /\ \A j \in Items : j # i => house'[j] = house[j]
  BY <1>5, <1>7, <1>8, <1>9
<1>11. HouseInv'
  <2>1. ASSUME NEW j \in Items, house'[j] # NoAuction, house'[j].buyout # 0
        PROVE  house'[j].bid < house'[j].buyout
    <3>1. CASE j = i  BY <1>2, <1>5, <1>10, <2>1, <3>1
    <3>2. CASE j # i  BY <1>1, <1>10, <2>1, <3>2 DEF HouseInv, InHouse
    <3> QED  BY <3>1, <3>2
  <2>2. ASSUME NEW q \in Players, NEW k \in DOMAIN pending'[q].auctions,
               pending'[q].auctions[k] # Dangling
        PROVE  /\ house'[pending'[q].auctions[k]] # NoAuction
               /\ house'[pending'[q].auctions[k]].owner = q
    <3> DEFINE j == pending'[q].auctions[k]
    <3>1. k \in DOMAIN pending[q].auctions /\ j = pending[q].auctions[k]  BY <1>7, <2>2
    <3>2. house[j] # NoAuction /\ house[j].owner = q  BY <1>1, <2>2, <3>1 DEF HouseInv
    <3>3. j \in Items
      <4>1. pending[q].auctions \in Seq(Items \cup {Dangling})  BY <1>8 DEF Adding
      <4> QED  BY <2>2, <3>1, <4>1
    <3> HIDE DEF j
    <3>4. CASE j = i  BY <1>5, <1>6, <1>10, <3>2, <3>4 DEF j
    <3>5. CASE j # i  BY <1>10, <3>2, <3>3, <3>5 DEF j
    <3> QED  BY <3>4, <3>5
  <2> QED  BY <1>7, <1>8, <1>10, <2>1, <2>2 DEF HouseInv, House, InHouse
<1>12. outbid \in Seq(Letters) /\ \A k \in DOMAIN outbid : outbid[k].item = NoItem
  BY <1>3, OutbiddedIs
<1>13. money' \in Purse /\ \A r \in Players : r \notin {p} => money'[r] <= money[r]
  <2>1. Owes(p, a, price) \in Nat  BY <1>2, <1>3, <1>4, OwesIs
  <2>2. money \in Purse /\ money \in [Players -> Nat]  BY <1>1 DEF Stored, Purse
  <2>3. money' \in Purse /\ \A r \in Players : r # p => money'[r] = money[r]
    BY <1>7, <2>1, <2>2, DebitIs
  <2> QED  BY <2>2, <2>3
<1> HIDE DEF outbid
<1>14. mails \in Box /\ bag \in Bags  BY <1>1 DEF Stored
<1>15. Over(SendMails(outbid), mails) \in Box  BY <1>7, <1>12, <1>14, SentBox
<1>16. Stored'
  <2>1. bag' \in Bags /\ \A r \in Players : r \notin {p} => bag'[r] = bag[r]  BY <1>7, <1>14
  <2> QED  BY <1>1, <1>7, <1>13, <1>15, <2>1, CommitKeeps
<1>17. Bookkeeping'  BY <1>1, <1>7 DEF Bookkeeping
<1>18. ASSUME NEW x \in Items  PROVE OnePlace(x)'
  <2>1. OnePlace(x)  BY <1>1 DEF PlaceInv
  <2>2. x # NoItem  BY HoldingsAssumption
  <2>3. \A k \in DOMAIN outbid : outbid[k].item # x  BY <1>12, <2>2
  <2>4. \A n \in MailIds : InMail(Over(SendMails(outbid), mails), n, x) <=> InMail(mails, n, x)
    BY <1>7, <1>12, <1>14, <2>3, SentWithout
  <2>5. mails' = Over(SendMails(outbid), mails)  BY <1>7 DEF Commit
  <2>6. \A n \in MailIds : InMail(mails', n, x) <=> InMail(mails, n, x)  BY <2>4, <2>5
  <2>7. InHouse(x)' <=> InHouse(x)  BY <1>2, <1>6, <1>10 DEF InHouse
  <2>8. \A r \in Players : x \in bag'[r] <=> x \in bag[r]  BY <1>7
  <2>9. x \in taken'.items <=> x \in taken.items  BY <1>7
  <2> QED  BY <2>1, <2>6, <2>7, <2>8, <2>9, Stays
<1>19. PlaceInv'  BY <1>18 DEF PlaceInv
<1> QED  BY <1>1, <1>11, <1>16, <1>17, <1>19, SameTrade DEF IInv

\* An entry of a pending list that is not deleted.
LEMMA PendingIs ==
    ASSUME HouseInv, NEW p \in Players, NEW k \in DOMAIN pending[p].auctions,
           pending[p].auctions[k] # Dangling
    PROVE  /\ pending[p].auctions[k] \in Items
           /\ house[pending[p].auctions[k]] \in Auctions
           /\ house[pending[p].auctions[k]].owner = p
<1> DEFINE i == pending[p].auctions[k]
<1>1. pending[p].auctions \in Seq(Items \cup {Dangling})  BY DEF HouseInv, Adding
<1>2. i \in Items  BY <1>1
<1>3. house[i] # NoAuction /\ house[i].owner = p  BY DEF HouseInv
<1>4. house[i] \in Auctions  BY <1>2, <1>3, AuctionIs DEF InHouse
<1> QED  BY <1>2, <1>3, <1>4

\* PendingAuctionProcess writes the shares of the deposit.
LEMMA ProcessKeeps ==
    ASSUME IInv, NEW p \in Players, PendingAuctionProcess(p), UNCHANGED trade
    PROVE  IInv'
<1> DEFINE list == pending[p].auctions
<1> DEFINE n == Len(list)
<1> DEFINE at(i) == {k \in DOMAIN list : list[k] = i}
<1> DEFINE share(i) == Shares(n)[CHOOSE k \in at(i) : TRUE]
<1> DEFINE paid == [i \in Items |-> IF at(i) = {} THEN house[i]
                                    ELSE [house[i] EXCEPT !.deposit = share(i)]]
<1>1. Stored /\ HouseInv /\ TradeInv /\ Bookkeeping /\ PlaceInv  BY DEF IInv
<1>2. /\ n > 0 /\ Dangling \notin Range(list)
      /\ house' = paid
      /\ houseRows' = [i \in Items |-> IF i \in Range(list) THEN paid[i] ELSE houseRows[i]]
      /\ pending' = [pending EXCEPT ![p] = [auctions |-> <<>>, count |-> 0]]
      /\ money' = Debit(money, p, Deposit * n)
      /\ Take(money[p] - money'[p] - Deposit * n, {})
      /\ UNCHANGED <<status, bag, mails, erased, disk>>
  BY DEF PendingAuctionProcess
<1>3. list \in Seq(Items \cup {Dangling}) /\ pending \in [Players -> Adding]
      /\ house \in [Items -> Auctions \cup {NoAuction}] /\ houseRows = house
  BY <1>1 DEF HouseInv, House, Adding
<1>4. n \in Nat /\ n # 0 /\ DOMAIN list = 1..n  BY <1>2, <1>3
<1>5. ASSUME NEW i \in Items, at(i) # {}
      PROVE  /\ house[i] \in Auctions /\ share(i) \in Nat
  <2>1. PICK k \in DOMAIN list : list[k] = i  BY <1>5
  <2>2. i # Dangling  BY AuctionAssumption
  <2>3. house[i] \in Auctions  BY <1>1, <2>1, <2>2, PendingIs
  <2>4. (CHOOSE x \in at(i) : TRUE) \in at(i)  BY <1>5
  <2>5. (CHOOSE x \in at(i) : TRUE) \in 1..n  BY <1>4, <2>4
  <2>6. \A x \in 1..n : Shares(n)[x] = Deposit  BY <1>4, SharesAre
  <2>7. share(i) = Deposit  BY <2>5, <2>6
  <2> QED  BY <2>3, <2>7, AuctionAssumption
<1>6. ASSUME NEW i \in Items
      PROVE  /\ paid[i] \in Auctions \cup {NoAuction}
             /\ paid[i] # NoAuction <=> house[i] # NoAuction
             /\ house[i] # NoAuction =>
                  paid[i].owner = house[i].owner /\ paid[i].bid = house[i].bid
                  /\ paid[i].buyout = house[i].buyout
  <2>1. CASE at(i) = {}  BY <1>3, <2>1
  <2>2. CASE at(i) # {}
    <3> DEFINE s == share(i)
    <3>1. house[i] \in Auctions /\ s \in Nat  BY <1>5, <2>2
    <3>2. paid[i] = [house[i] EXCEPT !.deposit = s]  BY <2>2
    <3> HIDE DEF s, paid, at
    <3>3. paid[i] \in Auctions /\ paid[i].owner = house[i].owner /\ paid[i].bid = house[i].bid
          /\ paid[i].buyout = house[i].buyout
      BY <3>1, <3>2 DEF Auctions
    <3> QED  BY <3>1, <3>3, AuctionAssumption
  <2> QED  BY <2>1, <2>2
<1>7. \A i \in Items : i \notin Range(list) => paid[i] = house[i]
  <2>1. \A i \in Items : i \notin Range(list) => at(i) = {}  BY DEF Range
  <2> QED  BY <2>1
<1>8. DOMAIN paid = Items /\ paid = [i \in Items |-> paid[i]]  OBVIOUS
<1> HIDE DEF paid
<1>9. house' \in [Items -> Auctions \cup {NoAuction}] /\ houseRows' = house'
  BY <1>2, <1>3, <1>6, <1>7, <1>8
<1>10. pending'[p].auctions = <<>> /\ pending' \in [Players -> Adding]
       /\ \A q \in Players : q # p => pending'[q] = pending[q]
  <2>1. [auctions |-> <<>>, count |-> 0] \in Adding  BY DEF Adding
  <2> QED  BY <1>2, <1>3, <2>1
<1> HIDE DEF list, n, at
<1>11. HouseInv'
  <2>1. ASSUME NEW j \in Items, house'[j] # NoAuction, house'[j].buyout # 0
        PROVE  house'[j].bid < house'[j].buyout
    BY <1>1, <1>2, <1>6, <2>1 DEF HouseInv, InHouse
  <2>2. ASSUME NEW q \in Players, NEW k \in DOMAIN pending'[q].auctions,
               pending'[q].auctions[k] # Dangling
        PROVE  /\ house'[pending'[q].auctions[k]] # NoAuction
               /\ house'[pending'[q].auctions[k]].owner = q
    <3>1. q # p  BY <1>10, <2>2
    <3>2. pending'[q] = pending[q]  BY <1>10, <3>1
    <3> DEFINE j == pending[q].auctions[k]
    <3>3. j \in Items /\ house[j] \in Auctions /\ house[j].owner = q
      BY <1>1, <2>2, <3>2, PendingIs
    <3>4. house[j] # NoAuction  BY <3>3, AuctionAssumption
    <3> HIDE DEF j
    <3>5. house'[j] # NoAuction /\ house'[j].owner = q  BY <1>2, <1>6, <3>3, <3>4
    <3> QED  BY <3>2, <3>5 DEF j
  <2> QED  BY <1>9, <1>10, <2>1, <2>2 DEF HouseInv, House, InHouse
<1>12. Stored'
  <2>1. money \in Purse /\ money \in [Players -> Nat] /\ disk.money \in [Players -> Nat]
        /\ \A q \in Players : money[q] <= disk.money[q]
    BY <1>1 DEF Stored, Purse
  <2> DEFINE amount == Deposit * n
  <2>2. amount \in Nat  BY <1>4, AuctionAssumption
  <2>3. money' = Debit(money, p, amount)  BY <1>2
  <2> HIDE DEF amount
  <2>4. money' \in Purse /\ money'[p] <= money[p] /\ \A q \in Players : q # p => money'[q] = money[q]
    BY <2>1, <2>2, <2>3, DebitIs
  <2>5. ASSUME NEW q \in Players  PROVE money'[q] <= disk.money[q]
    <3>1. money' \in [Players -> Nat]  BY <2>4 DEF Purse
    <3>2. money'[q] <= money[q]  BY <2>1, <2>4
    <3> QED  BY <2>1, <3>1, <3>2
  <2> QED  BY <1>1, <1>2, <2>4, <2>5 DEF Stored
<1> DEFINE fee == money[p] - money'[p] - Deposit * n
<1>13. Take(fee, {})  BY <1>2
<1> HIDE DEF fee
<1>14. taken' = [money |-> taken'.money, items |-> taken'.items] /\ taken'.items = taken.items
  BY <1>13 DEF Take
<1>15. Bookkeeping'  BY <1>1, <1>2, <1>14 DEF Bookkeeping
<1>16. PlaceInv'
  <2>1. ASSUME NEW x \in Items  PROVE OnePlace(x)'
    <3>1. OnePlace(x)  BY <1>1 DEF PlaceInv
    <3>2. \A m \in MailIds : InMail(mails', m, x) <=> InMail(mails, m, x)  BY <1>2
    <3>3. InHouse(x)' <=> InHouse(x)  BY <1>2, <1>6 DEF InHouse
    <3>4. \A r \in Players : x \in bag'[r] <=> x \in bag[r]  BY <1>2
    <3>5. x \in taken'.items <=> x \in taken.items  BY <1>14
    <3> QED  BY <3>1, <3>2, <3>3, <3>4, <3>5, Stays
  <2> QED  BY <2>1 DEF PlaceInv
<1> QED  BY <1>1, <1>11, <1>12, <1>15, <1>16, SameTrade DEF IInv

\* The count of pending auctions.
LEMMA CountKeeps ==
    ASSUME IInv, NEW p \in Players, PendingAuctionCount(p), UNCHANGED trade
    PROVE  IInv'
<1>1. Stored /\ HouseInv /\ TradeInv /\ Bookkeeping /\ PlaceInv  BY DEF IInv
<1>2. pending' = [pending EXCEPT ![p].count = Len(pending[p].auctions)]
      /\ UNCHANGED <<owned, house, houseRows>>
  BY DEF PendingAuctionCount
<1>3. pending \in [Players -> Adding]  BY <1>1 DEF HouseInv
<1>4. Len(pending[p].auctions) \in Nat
  <2>1. pending[p].auctions \in Seq(Items \cup {Dangling})  BY <1>3 DEF Adding
  <2> QED  BY <2>1
<1>5. pending' \in [Players -> Adding] /\ \A q \in Players : pending'[q].auctions = pending[q].auctions
  BY <1>2, <1>3, <1>4 DEF Adding
<1>6. HouseInv'  BY <1>1, <1>2, <1>5 DEF HouseInv, InHouse
<1>7. Stored' /\ Bookkeeping'  BY <1>1, <1>2, SameOwned
<1>8. PlaceInv'
  <2>1. UNCHANGED <<bag, mails, taken>>  BY <1>2 DEF owned
  <2>2. \A i \in Items : InHouse(i)' <=> InHouse(i)  BY <1>2 DEF InHouse
  <2> QED  BY <1>1, <2>1, <2>2, SamePlaces
<1> QED  BY <1>1, <1>6, <1>7, <1>8, SameTrade DEF IInv

\* The auctions of a seller who is gone: the database gets what it has.
LEMMA OfflineKeeps ==
    ASSUME IInv, NEW p \in Players, PendingAuctionsOffline(p), UNCHANGED trade
    PROVE  IInv'
<1> DEFINE list == pending[p].auctions
<1> DEFINE fee == -Deposit * Len(list)
<1>1. Stored /\ HouseInv /\ TradeInv /\ Bookkeeping /\ PlaceInv  BY DEF IInv
<1>2. /\ houseRows' = [i \in Items |-> IF i \in Range(list) THEN house[i] ELSE houseRows[i]]
      /\ pending' = [pending EXCEPT ![p] = [auctions |-> <<>>, count |-> 0]]
      /\ Take(fee, {})
      /\ UNCHANGED <<status, money, bag, mails, erased, disk, house>>
  BY DEF PendingAuctionsOffline
<1>3. house \in [Items -> Auctions \cup {NoAuction}] /\ houseRows = house
      /\ pending \in [Players -> Adding]
  BY <1>1 DEF HouseInv, House
<1> HIDE DEF fee, list
<1>4. houseRows' = house'  BY <1>2, <1>3
<1>5. pending'[p].auctions = <<>> /\ pending' \in [Players -> Adding]
      /\ \A q \in Players : q # p => pending'[q] = pending[q]
  <2>1. [auctions |-> <<>>, count |-> 0] \in Adding  BY DEF Adding
  <2> QED  BY <1>2, <1>3, <2>1
<1>6. HouseInv'
  <2>1. ASSUME NEW q \in Players, NEW k \in DOMAIN pending'[q].auctions,
               pending'[q].auctions[k] # Dangling
        PROVE  /\ house'[pending'[q].auctions[k]] # NoAuction
               /\ house'[pending'[q].auctions[k]].owner = q
    <3>1. q # p  BY <1>5, <2>1
    <3>2. pending'[q] = pending[q]  BY <1>5, <3>1
    <3> QED  BY <1>1, <1>2, <2>1, <3>2 DEF HouseInv
  <2> QED  BY <1>1, <1>2, <1>4, <1>5, <2>1 DEF HouseInv, InHouse
<1>7. Stored'  BY <1>1, <1>2 DEF Stored
<1>8. taken' = [money |-> taken'.money, items |-> taken'.items] /\ taken'.items = taken.items
  BY <1>2 DEF Take
<1>9. Bookkeeping'  BY <1>1, <1>2, <1>8 DEF Bookkeeping
<1>10. PlaceInv'
  <2>1. ASSUME NEW x \in Items  PROVE OnePlace(x)'
    <3>1. OnePlace(x)  BY <1>1 DEF PlaceInv
    <3>2. \A m \in MailIds : InMail(mails', m, x) <=> InMail(mails, m, x)  BY <1>2
    <3>3. InHouse(x)' <=> InHouse(x)  BY <1>2 DEF InHouse
    <3>4. \A r \in Players : x \in bag'[r] <=> x \in bag[r]  BY <1>2
    <3>5. x \in taken'.items <=> x \in taken.items  BY <1>8
    <3> QED  BY <3>1, <3>2, <3>3, <3>4, <3>5, Stays
  <2> QED  BY <2>1 DEF PlaceInv
<1> QED  BY <1>1, <1>6, <1>7, <1>9, <1>10, SameTrade DEF IInv

-----------------------------------------------------------------------------
(***************************************************************************)
(* Crashes, the first state, and every step.                               *)
(***************************************************************************)
LEMMA CrashKeeps ==
    ASSUME IInv, Crash
    PROVE  IInv'
<1>1. Stored /\ HouseInv /\ Bookkeeping /\ PlaceInv  BY DEF IInv
<1>2. /\ status' = [p \in Players |-> "offline"]
      /\ money' = disk.money /\ bag' = bag /\ mails' = mails /\ house' = house
      /\ erased' = {} /\ disk' = disk /\ houseRows' = houseRows
      /\ trade' = [p \in Players |-> NoTrade]
      /\ pending' = [p \in Players |-> [auctions |-> <<>>, count |-> 0]]
  BY <1>1 DEF Crash, Stored, HouseInv
<1>3. Stored'
  <2>1. disk.money \in Purse  BY <1>1 DEF Stored
  <2>2. \A p \in Players : disk.money[p] <= disk.money[p]  BY <2>1 DEF Purse
  <2> QED  BY <1>1, <1>2, <2>1, <2>2 DEF Stored
<1>4. HouseInv'
  <2>1. [auctions |-> <<>>, count |-> 0] \in Adding  BY DEF Adding
  <2>2. pending' \in [Players -> Adding] /\ \A p \in Players : DOMAIN pending'[p].auctions = {}
    BY <1>2, <2>1
  <2> QED  BY <1>1, <1>2, <2>2 DEF HouseInv, InHouse
<1>5. TradeInv'  BY <1>2 DEF TradeInv, Trading, Trader
<1>6. taken' = [money |-> taken'.money, items |-> taken'.items] /\ taken'.items = taken.items
  <2> DEFINE made == Total - Wealth(disk.money, disk.mails, houseRows)
  <2>1. taken' = [taken EXCEPT !.money = made]  BY DEF Crash
  <2>2. taken = [money |-> taken.money, items |-> taken.items]  BY <1>1 DEF Bookkeeping
  <2> HIDE DEF made
  <2>3. taken' = [money |-> made, items |-> taken.items]  BY <2>1, <2>2
  <2> QED  BY <2>3
<1>7. Bookkeeping'  BY <1>2, <1>6 DEF Bookkeeping
<1>8. PlaceInv'
  <2>1. ASSUME NEW x \in Items  PROVE OnePlace(x)'
    <3>1. OnePlace(x)  BY <1>1 DEF PlaceInv
    <3>2. \A m \in MailIds : InMail(mails', m, x) <=> InMail(mails, m, x)  BY <1>2
    <3>3. InHouse(x)' <=> InHouse(x)  BY <1>2 DEF InHouse
    <3>4. \A r \in Players : x \in bag'[r] <=> x \in bag[r]  BY <1>2
    <3>5. x \in taken'.items <=> x \in taken.items  BY <1>6
    <3> QED  BY <3>1, <3>2, <3>3, <3>4, <3>5, Stays
  <2> QED  BY <2>1 DEF PlaceInv
<1> QED  BY <1>3, <1>4, <1>5, <1>7, <1>8 DEF IInv

\* At the start every item is in one bag, and memory is the database.
LEMMA InitIsGood ==
    ASSUME Init
    PROVE  IInv
<1>1. InitHoldings /\ InitTrade /\ InitAuctions  BY DEF Init
<1>2. PICK owner \in [Items -> Players] : bag = [p \in Players |-> {i \in Items : owner[i] = p}]
  BY <1>1 DEF InitHoldings
<1>3. /\ money \in Purse /\ mails = [i \in MailIds |-> NoMail]
      /\ disk = [money |-> money, bag |-> bag, mails |-> mails]
  BY <1>1, HoldingsAssumption DEF InitHoldings, Purse
<1>4. Stored
  <2>1. bag \in Bags /\ mails \in Box  BY <1>2, <1>3 DEF Bags, Box
  <2>2. \A p \in Players : money[p] <= money[p]  BY <1>3 DEF Purse
  <2> QED  BY <1>3, <2>1, <2>2 DEF Stored
<1>5. HouseInv
  <2>1. house = [i \in Items |-> NoAuction] /\ houseRows = house
        /\ pending = [p \in Players |-> [auctions |-> <<>>, count |-> 0]]
    BY <1>1 DEF InitAuctions
  <2>2. [auctions |-> <<>>, count |-> 0] \in Adding  BY DEF Adding
  <2>3. pending \in [Players -> Adding] /\ \A p \in Players : DOMAIN pending[p].auctions = {}
    BY <2>1, <2>2
  <2> QED  BY <2>1, <2>3 DEF HouseInv, House, InHouse
<1>6. TradeInv  BY <1>1 DEF InitTrade, TradeInv, Trading, Trader
<1>7. Bookkeeping  BY <1>1 DEF InitHoldings, Bookkeeping
<1>8. PlaceInv
  <2>1. ASSUME NEW i \in Items  PROVE OnePlace(i)
    <3>1. \A p \in Players : i \in bag[p] <=> p = owner[i]  BY <1>2
    <3>2. \A n \in MailIds : ~InMail(mails, n, i)  BY <1>3 DEF InMail
    <3>3. ~InHouse(i)  BY <1>1 DEF InitAuctions, InHouse
    <3>4. i \notin taken.items  BY <1>1 DEF InitHoldings
    <3>5. owner[i] \in Players  OBVIOUS
    <3>6. Somewhere(i)  BY <3>1, <3>5 DEF Somewhere
    <3> QED  BY <3>1, <3>2, <3>3, <3>4, <3>6 DEF OnePlace
  <2> QED  BY <2>1 DEF PlaceInv
<1> QED  BY <1>4, <1>5, <1>6, <1>7, <1>8 DEF IInv

\* The handlers of a trade.
LEMMA TradeStepKeeps ==
    ASSUME IInv, NEW p \in Players, TradeStep(p), UNCHANGED auctionVars
    PROVE  IInv'
<1>1. CASE CompleteTrade(p)  BY <1>1, CompleteTradeKeeps
<1>2. CASE \/ \E q \in Players : InitiateTrade(p, q)
           \/ \E i \in Items : SetTradeItem(p, i) \/ ClearTradeItem(p, i)
           \/ \E amount \in Amounts : SetTradeGold(p, amount)
           \/ \E full \in BOOLEAN : AcceptTrade(p, full)
           \/ Unaccept(p) \/ AcceptTooFar(p) \/ TradeCancel(p)
  <2>1. Stored /\ HouseInv /\ TradeInv /\ Bookkeeping /\ PlaceInv  BY DEF IInv
  <2>2. TradeInv' /\ UNCHANGED owned  BY <1>2, <2>1, WindowsKeep
  <2>3. Stored' /\ Bookkeeping'  BY <2>1, <2>2, SameOwned
  <2>4. UNCHANGED <<bag, mails, taken>>  BY <2>2 DEF owned
  <2>5. \A i \in Items : InHouse(i)' <=> InHouse(i)  BY DEF InHouse, auctionVars
  <2>6. PlaceInv'  BY <2>1, <2>4, <2>5, SamePlaces
  <2> QED  BY <2>1, <2>2, <2>3, <2>6, SameHouse DEF IInv
<1> QED  BY <1>1, <1>2 DEF TradeStep

\* The handlers of auctions, and the house's own updates.
LEMMA AuctionStepKeeps ==
    ASSUME IInv, AuctionStep, UNCHANGED trade
    PROVE  IInv'
<1>1. ASSUME NEW p \in Players,
             PendingAuctionProcess(p) \/ PendingAuctionCount(p) \/ PendingAuctionsOffline(p)
      PROVE  IInv'
  BY <1>1, ProcessKeeps, CountKeeps, OfflineKeeps
<1>2. ASSUME NEW p \in Players, NEW i \in Items, NEW startbid \in Prices, NEW buyout \in Buyouts,
             AuctionSellItem(p, i, startbid, buyout)
      PROVE  IInv'
  BY <1>2, SellKeeps
<1>3. ASSUME NEW p \in Players, NEW i \in Items, NEW price \in Prices,
             AuctionPlaceBid(p, i, price) \/ AuctionBuyout(p, i, price)
      PROVE  IInv'
  BY <1>3, PlaceBidKeeps, BuyoutKeeps
<1>4. ASSUME NEW p \in Players, NEW i \in Items, AuctionRemoveItem(p, i)  PROVE IInv'
  BY <1>4, RemoveKeeps
<1>5. ASSUME NEW i \in Items, AuctionExpire(i)  PROVE IInv'
  BY <1>5, AuctionExpireKeeps
<1> QED  BY <1>1, <1>2, <1>3, <1>4, <1>5 DEF AuctionStep

\* The handlers of mails, and the expiry of old ones.
LEMMA MailStepKeeps ==
    ASSUME IInv, MailStep, UNCHANGED <<trade, auctionVars>>
    PROVE  IInv'
<1>1. ASSUME NEW p \in Players, NEW q \in Players, NEW item \in Items \cup {NoItem},
             NEW parcel \in Parcels, SendMail(p, q, item, parcel[1], parcel[2])
      PROVE  IInv'
  BY <1>1, SendMailKeeps
<1>2. ASSUME NEW p \in Players, GetMailList(p) \/ \E i \in MailIds : MailDelete(p, i)  PROVE IInv'
  BY <1>2, MarksKeep
<1>3. ASSUME NEW p \in Players, NEW i \in MailIds,
             MailReturnToSender(p, i) \/ MailTakeItem(p, i) \/ MailTakeMoney(p, i)
      PROVE  IInv'
  BY <1>3, ReturnKeeps, TakeItemKeeps, TakeMoneyKeeps
<1>4. ASSUME NEW i \in MailIds, ReturnOrDelete(i)  PROVE IInv'
  BY <1>4, ExpireKeeps
<1> QED  BY <1>1, <1>2, <1>3, <1>4 DEF MailStep

\* Every step.
LEMMA StepKeeps ==
    ASSUME IInv, [Next]_vars
    PROVE  IInv'
<1>1. ASSUME NEW p \in Players, Login(p) \/ SaveToDB(p), UNCHANGED <<trade, auctionVars>>  PROVE IInv'
  BY <1>1, LoginKeeps, SaveToDBKeeps
<1>2. ASSUME NEW p \in Players, Logout(p), UNCHANGED auctionVars  PROVE IInv'
  BY <1>2, LogoutKeeps
<1>3. ASSUME NEW p \in Players, TradeStep(p), UNCHANGED auctionVars  PROVE IInv'
  BY <1>3, TradeStepKeeps
<1>4. ASSUME AuctionStep, UNCHANGED trade  PROVE IInv'
  BY <1>4, AuctionStepKeeps
<1>5. ASSUME MailStep, UNCHANGED <<trade, auctionVars>>  PROVE IInv'
  BY <1>5, MailStepKeeps
<1>6. CASE Crash  BY <1>6, CrashKeeps
<1>7. CASE UNCHANGED vars
  <2>1. UNCHANGED <<owned, trade, auctionVars>>  BY <1>7 DEF vars
  <2>2. Stored /\ HouseInv /\ TradeInv /\ Bookkeeping /\ PlaceInv  BY DEF IInv
  <2>3. Stored' /\ Bookkeeping'  BY <2>1, <2>2, SameOwned
  <2>4. UNCHANGED <<bag, mails, taken>>  BY <2>1 DEF owned
  <2>5. \A i \in Items : InHouse(i)' <=> InHouse(i)  BY <2>1 DEF InHouse, auctionVars
  <2>6. PlaceInv'  BY <2>2, <2>4, <2>5, SamePlaces
  <2> QED  BY <2>1, <2>2, <2>3, <2>6, SameTrade, SameHouse DEF IInv
<1> QED  BY <1>1, <1>2, <1>3, <1>4, <1>5, <1>6, <1>7 DEF Next

-----------------------------------------------------------------------------
(***************************************************************************)
(* The theorems.                                                           *)
(***************************************************************************)
LEMMA InvariantHolds == Spec => []IInv
<1>1. Init => IInv  BY InitIsGood
<1>2. IInv /\ [Next]_vars => IInv'  BY StepKeeps
<1> QED  BY <1>1, <1>2, PTL DEF Spec

\* A crash shows nothing older than the last handler, but for the debits of
\* deposits: every handler that moves something saves all it changes in one
\* transaction, of both characters where there are two.
THEOREM CrashesLoseNothing == Spec => []CrashLosesNothing
<1>1. IInv => CrashLosesNothing  BY DEF IInv, Stored, HouseInv, CrashLosesNothing
<1> QED  BY <1>1, InvariantHolds, PTL

\* OnePlace counts.
LEMMA OnePlaceCounts ==
    ASSUME NEW i \in Items, OnePlace(i)
    PROVE  Cardinality(Places(i, bag, mails, house)) = (IF i \in taken.items THEN 0 ELSE 1)
<1> DEFINE P == Places(i, bag, mails, house)
<1>1. P = {<<"bag", p>> : p \in {p \in Players : i \in bag[p]}}
            \cup {<<"mail", n>> : n \in {n \in MailIds : InMail(mails, n, i)}}
            \cup {<<"house", a>> : a \in {house[i]} \ {NoAuction}}
  BY DEF Places, InMail
<1> HIDE DEF P
<1>2. CASE i \in taken.items
  <2>1. ~Somewhere(i)  BY <1>2 DEF OnePlace
  <2>2. /\ \A p \in Players : i \notin bag[p]
        /\ \A n \in MailIds : ~InMail(mails, n, i)
        /\ house[i] = NoAuction
    BY <2>1 DEF Somewhere, InHouse
  <2>3. P = {}  BY <1>1, <2>2
  <2> QED  BY <1>2, <2>3, FS_EmptySet DEF P
<1>3. CASE i \notin taken.items
  <2>1. Somewhere(i)  BY <1>3 DEF OnePlace
  <2>2. \E x : P = {x}
    <3>1. ASSUME NEW p \in Players, i \in bag[p]  PROVE P = {<<"bag", p>>}
      <4>1. /\ \A q \in Players : i \in bag[q] <=> q = p
            /\ \A n \in MailIds : ~InMail(mails, n, i)
            /\ ~InHouse(i)
        BY <3>1, FromBag
      <4>2. house[i] = NoAuction  BY <4>1 DEF InHouse
      <4> QED  BY <1>1, <4>1, <4>2
    <3>2. ASSUME NEW m \in MailIds, InMail(mails, m, i)  PROVE P = {<<"mail", m>>}
      <4>1. /\ \A q \in Players : i \notin bag[q]
            /\ \A n \in MailIds : InMail(mails, n, i) <=> n = m
            /\ ~InHouse(i)
        BY <3>2, FromMail
      <4>2. house[i] = NoAuction  BY <4>1 DEF InHouse
      <4> QED  BY <1>1, <4>1, <4>2
    <3>3. ASSUME InHouse(i)  PROVE P = {<<"house", house[i]>>}
      <4>1. /\ \A q \in Players : i \notin bag[q]
            /\ \A n \in MailIds : ~InMail(mails, n, i)
        BY <3>3, FromHouse
      <4>2. house[i] # NoAuction  BY <3>3 DEF InHouse
      <4> QED  BY <1>1, <4>1, <4>2
    <3> QED  BY <2>1, <3>1, <3>2, <3>3 DEF Somewhere
  <2>3. PICK x : P = {x}  BY <2>2
  <2>4. Cardinality(P) = 1  BY <2>3, FS_Singleton
  <2> QED  BY <1>3, <2>4 DEF P
<1> QED  BY <1>2, <1>3

\* An item is in one inventory, one mail or the auction house, and only there,
\* unless its mail was deleted; and so it is in the database.
THEOREM ItemsStayInOnePlace == Spec => []ItemsInOnePlace
<1>1. IInv => ItemsInOnePlace
  <2>1. SUFFICES ASSUME IInv, NEW i \in Items
        PROVE  /\ Cardinality(Places(i, bag, mails, house)) = (IF i \in taken.items THEN 0 ELSE 1)
               /\ Cardinality(Places(i, disk.bag, disk.mails, houseRows)) =
                    (IF i \in taken.items THEN 0 ELSE 1)
    BY DEF ItemsInOnePlace
  <2>2. OnePlace(i)  BY <2>1 DEF IInv, PlaceInv
  <2>3. Cardinality(Places(i, bag, mails, house)) = (IF i \in taken.items THEN 0 ELSE 1)
    BY <2>2, OnePlaceCounts
  <2>4. disk.bag = bag /\ disk.mails = mails /\ houseRows = house
    BY <2>1 DEF IInv, Stored, HouseInv
  <2> QED  BY <2>3, <2>4
<1> QED  BY <1>1, InvariantHolds, PTL

-----------------------------------------------------------------------------
(***************************************************************************)
(* Trades.  Agreed(p) is what TradeAsAgreed says of a step and one trader. *)
(***************************************************************************)
Agreed(p) ==
    IF trade'[p] # NoTrade
    THEN trade[p].accepted /\ trade'[p].accepted =>
           trade'[p].items = trade[p].items /\ trade'[p].money = trade[p].money
           /\ trade'[Trader(p)].items = trade[Trader(p)].items
           /\ trade'[Trader(p)].money = trade[Trader(p)].money
    ELSE \/ bag'[p] = bag[p] /\ money'[p] >= money[p]
         \/ /\ trade[p].accepted \/ trade[Trader(p)].accepted
            /\ bag'[p] = (bag[p] \ Offered(p)) \cup Offered(Trader(p))
            /\ money'[p] = money[p] - trade[p].money + trade[Trader(p)].money

\* Windows that stay as they are, but for the accepts.
LEMMA SameWindows ==
    ASSUME NEW p \in Players, Trading(p), trade'[p] # NoTrade,
           trade'[p].items = trade[p].items, trade'[p].money = trade[p].money,
           trade'[Trader(p)].items = trade[Trader(p)].items,
           trade'[Trader(p)].money = trade[Trader(p)].money
    PROVE  Agreed(p)
  BY DEF Agreed

\* A change of either window takes both accepts back.
LEMMA ChangeIsAgreed ==
    ASSUME TradeInv, NEW p \in Players, Trading(p), NEW r \in Players, Trading(r),
           NEW w \in Windows, Change(r, w)
    PROVE  Agreed(p)
<1>1. trade \in [Players -> Windows \cup {NoTrade}]  BY DEF TradeInv
<1>2. Trader(r) \in Players /\ Trader(r) # r /\ trade[Trader(r)] \in Windows /\ Trader(Trader(r)) = r
  BY Partners
<1>3. Trader(p) \in Players /\ Trader(Trader(p)) = p  BY Partners
<1>4. trade' = [trade EXCEPT ![r] = Unaccepted(w), ![Trader(r)] = Unaccepted(trade[Trader(r)])]
  BY <1>1, <1>2 DEF Change
<1>5. Unaccepted(w) \in Windows /\ Unaccepted(w).accepted = FALSE  BY DEF Unaccepted, Windows
<1>6. Unaccepted(trade[Trader(r)]) \in Windows /\ Unaccepted(trade[Trader(r)]).accepted = FALSE
  BY <1>2 DEF Unaccepted, Windows
<1>7. trade'[r] = Unaccepted(w) /\ trade'[Trader(r)] = Unaccepted(trade[Trader(r)])
      /\ \A s \in Players : s # r /\ s # Trader(r) => trade'[s] = trade[s]
  BY <1>1, <1>2, <1>4
<1>8. CASE p \in {r, Trader(r)}
  <2>1. trade'[p] \in Windows /\ trade'[p].accepted = FALSE  BY <1>5, <1>6, <1>7, <1>8
  <2>2. trade'[p] # NoTrade  BY <2>1, TradeAssumption
  <2> QED  BY <2>1, <2>2 DEF Agreed
<1>9. CASE p \notin {r, Trader(r)}
  <2>1. Trader(p) # r /\ Trader(p) # Trader(r)  BY <1>2, <1>3, <1>9
  <2>2. trade'[p] = trade[p] /\ trade'[Trader(p)] = trade[Trader(p)]  BY <1>3, <1>7, <1>9, <2>1
  <2>3. trade'[p] # NoTrade  BY <2>2 DEF Trading
  <2> QED  BY <2>2, <2>3, SameWindows
<1> QED  BY <1>8, <1>9

\* The end of a trade, with nothing moved.
LEMMA CancelIsAgreed ==
    ASSUME TradeInv, NEW p \in Players, Trading(p), NEW r \in Players, trade' = Cancelled(r),
           bag'[p] = bag[p], money'[p] >= money[p]
    PROVE  Agreed(p)
<1>1. trade \in [Players -> Windows \cup {NoTrade}]  BY DEF TradeInv
<1>2. Trader(p) \in Players /\ Trader(Trader(p)) = p  BY Partners
<1>3. CASE ~Trading(r)
  <2>1. trade' = trade  BY <1>3 DEF Cancelled
  <2>2. trade'[p] # NoTrade  BY <2>1 DEF Trading
  <2> QED  BY <2>1, <2>2, SameWindows
<1>4. CASE Trading(r)
  <2>1. Trader(r) \in Players /\ Trader(Trader(r)) = r  BY <1>4, Partners
  <2>2. trade' = [trade EXCEPT ![r] = NoTrade, ![Trader(r)] = NoTrade]  BY <1>4 DEF Cancelled
  <2>3. CASE p \in {r, Trader(r)}
    <3>1. trade'[p] = NoTrade  BY <1>1, <2>1, <2>2, <2>3
    <3> QED  BY <3>1 DEF Agreed
  <2>4. CASE p \notin {r, Trader(r)}
    <3>1. Trader(p) # r /\ Trader(p) # Trader(r)  BY <1>2, <2>1, <2>4
    <3>2. trade'[p] = trade[p] /\ trade'[Trader(p)] = trade[Trader(p)]
      BY <1>1, <1>2, <2>1, <2>2, <2>4, <3>1
    <3>3. trade'[p] # NoTrade  BY <3>2 DEF Trading
    <3> QED  BY <3>2, <3>3, SameWindows
  <2> QED  BY <2>3, <2>4
<1> QED  BY <1>3, <1>4

\* The last accept: what both windows show changes hands.
LEMMA CompleteIsAgreed ==
    ASSUME Stored, TradeInv, NEW p \in Players, Trading(p), NEW r \in Players, CompleteTrade(r)
    PROVE  Agreed(p)
<1>1. Trading(r) /\ trade[Trader(r)].accepted /\ trade' = Cancelled(r)  BY DEF CompleteTrade
<1>2. trade \in [Players -> Windows \cup {NoTrade}]  BY DEF TradeInv
<1>3. Trader(p) \in Players /\ Trader(Trader(p)) = p  BY Partners
<1>4. Trader(r) \in Players /\ Trader(r) # r /\ Trader(Trader(r)) = r  BY <1>1, Partners
<1>5. trade' = [trade EXCEPT ![r] = NoTrade, ![Trader(r)] = NoTrade]  BY <1>1 DEF Cancelled
<1>6. /\ bag'[r] = (bag[r] \ Offered(r)) \cup Offered(Trader(r))
      /\ bag'[Trader(r)] = (bag[Trader(r)] \ Offered(Trader(r))) \cup Offered(r)
  BY TradedItems
<1>7. /\ money'[r] = money[r] - trade[r].money + trade[Trader(r)].money
      /\ money'[Trader(r)] = money[Trader(r)] - trade[Trader(r)].money + trade[r].money
  BY TradedMoney
<1>8. CASE p = r
  <2>1. trade'[p] = NoTrade  BY <1>2, <1>4, <1>5, <1>8
  <2> QED  BY <1>1, <1>6, <1>7, <1>8, <2>1 DEF Agreed
<1>9. CASE p = Trader(r)
  <2>1. trade'[p] = NoTrade  BY <1>2, <1>4, <1>5, <1>9
  <2>2. Trader(p) = r  BY <1>4, <1>9
  <2> QED  BY <1>1, <1>6, <1>7, <1>9, <2>1, <2>2 DEF Agreed
<1>10. CASE p # r /\ p # Trader(r)
  <2>1. Trader(p) # r /\ Trader(p) # Trader(r)  BY <1>3, <1>4, <1>10
  <2>2. trade'[p] = trade[p] /\ trade'[Trader(p)] = trade[Trader(p)]
    BY <1>2, <1>3, <1>4, <1>5, <1>10, <2>1
  <2>3. trade'[p] # NoTrade  BY <2>2 DEF Trading
  <2> QED  BY <2>2, <2>3, SameWindows
<1> QED  BY <1>8, <1>9, <1>10

\* TradeStep.
LEMMA TradeStepIsAgreed ==
    ASSUME Stored, TradeInv, NEW p \in Players, Trading(p), NEW r \in Players, TradeStep(r)
    PROVE  Agreed(p)
<1>1. trade \in [Players -> Windows \cup {NoTrade}]  BY DEF TradeInv
<1>2. trade[p] \in Windows /\ Trader(p) \in Players /\ Trading(Trader(p))
      /\ trade[Trader(p)] \in Windows
  BY Partners
<1>3. ASSUME NEW s \in Players, InitiateTrade(r, s)  PROVE Agreed(p)
  <2> DEFINE new(x) == [with |-> x, items |-> {}, money |-> 0, accepted |-> FALSE]
  <2>1. ~Trading(r) /\ ~Trading(s) /\ trade' = [trade EXCEPT ![r] = new(s), ![s] = new(r)]
    BY <1>3 DEF InitiateTrade
  <2> HIDE DEF new
  <2>2. p \notin {r, s} /\ Trader(p) \notin {r, s}  BY <1>2, <2>1
  <2>3. trade'[p] = trade[p] /\ trade'[Trader(p)] = trade[Trader(p)]  BY <1>1, <1>2, <2>1, <2>2
  <2>4. trade'[p] # NoTrade  BY <2>3 DEF Trading
  <2> QED  BY <2>3, <2>4, SameWindows
<1>4. ASSUME NEW i \in Items, SetTradeItem(r, i) \/ ClearTradeItem(r, i)  PROVE Agreed(p)
  <2>1. Trading(r)  BY <1>4 DEF SetTradeItem, ClearTradeItem
  <2>2. trade[r] \in Windows  BY <2>1, Partners
  <2>3. PICK w \in Windows : Change(r, w)
    <3>1. [trade[r] EXCEPT !.items = @ \cup {i}] \in Windows  BY <2>2 DEF Windows
    <3>2. [trade[r] EXCEPT !.items = @ \ {i}] \in Windows  BY <2>2 DEF Windows
    <3> QED  BY <1>4, <3>1, <3>2 DEF SetTradeItem, ClearTradeItem
  <2> QED  BY <2>1, <2>3, ChangeIsAgreed
<1>5. ASSUME NEW amount \in Amounts, SetTradeGold(r, amount)  PROVE Agreed(p)
  <2>1. Trading(r)  BY <1>5 DEF SetTradeGold
  <2>2. trade[r] \in Windows /\ amount \in Nat  BY <2>1, Partners, TradeAssumption
  <2>3. PICK w \in Windows : Change(r, w)
    <3>1. [trade[r] EXCEPT !.money = amount] \in Windows  BY <2>2 DEF Windows
    <3> QED  BY <1>5, <3>1 DEF SetTradeGold
  <2> QED  BY <2>1, <2>3, ChangeIsAgreed
<1>6. ASSUME NEW full \in BOOLEAN, AcceptTrade(r, full)  PROVE Agreed(p)
  <2> DEFINE refused == Refused(r, Trader(r))
  <2> DEFINE off == IF refused # {} THEN refused ELSE IF full THEN {r, Trader(r)} ELSE {}
  <2>1. trade' = [s \in Players |->
          IF s \in {r, Trader(r)}
          THEN [trade[s] EXCEPT !.accepted = s \notin off /\ (s = r \/ trade[s].accepted)]
          ELSE trade[s]]
    BY <1>6 DEF AcceptTrade
  <2> HIDE DEF off
  <2>2. ASSUME NEW s \in Players, trade[s] \in Windows
        PROVE  trade'[s] # NoTrade /\ trade'[s].items = trade[s].items /\ trade'[s].money = trade[s].money
    <3>1. CASE s \in {r, Trader(r)}
      <4> DEFINE b == s \notin off /\ (s = r \/ trade[s].accepted)
      <4>1. trade'[s] = [trade[s] EXCEPT !.accepted = b] /\ b \in BOOLEAN  BY <2>1, <3>1
      <4> HIDE DEF b
      <4>2. trade'[s] \in Windows /\ trade'[s].items = trade[s].items /\ trade'[s].money = trade[s].money
        BY <2>2, <4>1 DEF Windows
      <4> QED  BY <4>2, TradeAssumption
    <3>2. CASE s \notin {r, Trader(r)}  BY <2>1, <2>2, <3>2, TradeAssumption
    <3> QED  BY <3>1, <3>2
  <2> QED  BY <1>2, <2>2, SameWindows
<1>7. ASSUME Unaccept(r)  PROVE Agreed(p)
  <2>1. Trading(r) /\ trade' = [trade EXCEPT ![r] = Unaccepted(trade[r])]  BY <1>7 DEF Unaccept
  <2>2. trade[r] \in Windows  BY <2>1, Partners
  <2>3. Unaccepted(trade[r]) \in Windows /\ Unaccepted(trade[r]).items = trade[r].items
        /\ Unaccepted(trade[r]).money = trade[r].money
    BY <2>2 DEF Unaccepted, Windows
  <2>4. \A s \in Players : trade[s] \in Windows =>
          trade'[s] \in Windows /\ trade'[s].items = trade[s].items /\ trade'[s].money = trade[s].money
    BY <1>1, <2>1, <2>3
  <2>5. trade'[p] # NoTrade  BY <1>2, <2>4, TradeAssumption
  <2> QED  BY <1>2, <2>4, <2>5, SameWindows
<1>8. ASSUME TradeCancel(r)  PROVE Agreed(p)
  <2>1. trade' = Cancelled(r) /\ bag' = bag /\ money' = money  BY <1>8 DEF TradeCancel, owned
  <2>2. money[p] \in Nat  BY DEF Stored, Purse
  <2>3. bag'[p] = bag[p] /\ money'[p] >= money[p]  BY <2>1, <2>2
  <2> QED  BY <2>1, <2>3, CancelIsAgreed
<1> QED  BY <1>3, <1>4, <1>5, <1>6, <1>7, <1>8, CompleteIsAgreed DEF TradeStep, AcceptTooFar

\* While an accept stands no window changes, and a trade ends with nothing
\* moved or with what both windows show of what their owners still have.
THEOREM TradesAreAsAgreed == Spec => TradeAsAgreed
<1>1. ASSUME IInv, [Next]_vars, NEW p \in Players, Trading(p)  PROVE Agreed(p)
  <2>1. Stored /\ HouseInv /\ TradeInv  BY <1>1 DEF IInv
  <2>2. CASE trade' = trade
    <3>1. trade'[p] # NoTrade  BY <1>1, <2>2 DEF Trading
    <3> QED  BY <1>1, <2>2, <3>1, SameWindows
  <2>3. ASSUME NEW r \in Players, TradeStep(r)  PROVE Agreed(p)
    BY <1>1, <2>1, <2>3, TradeStepIsAgreed
  <2>4. money[p] \in Nat /\ disk.money[p] \in Nat /\ money[p] <= disk.money[p]
    BY <2>1 DEF Stored, Purse
  <2>5. ASSUME NEW r \in Players, Logout(r)  PROVE Agreed(p)
    <3>1. trade' = Cancelled(r) /\ bag' = bag /\ money' = money  BY <2>5 DEF Logout
    <3>2. bag'[p] = bag[p] /\ money'[p] >= money[p]  BY <2>4, <3>1
    <3> QED  BY <1>1, <2>1, <3>1, <3>2, CancelIsAgreed
  <2>6. CASE Crash
    <3>1. bag' = disk.bag /\ money' = disk.money /\ disk.bag = bag /\ trade'[p] = NoTrade
      BY <2>1, <2>6 DEF Crash, Stored
    <3>2. bag'[p] = bag[p] /\ money'[p] >= money[p]  BY <2>4, <3>1
    <3> QED  BY <3>1, <3>2 DEF Agreed
  <2> QED  BY <1>1, <2>2, <2>3, <2>5, <2>6 DEF Next, vars
<1>2. IInv /\ [Next]_vars =>
        [\A p \in Players : Trading(p) =>
           LET q == Trader(p) IN
           IF trade'[p] # NoTrade
           THEN trade[p].accepted /\ trade'[p].accepted =>
                  trade'[p].items = trade[p].items /\ trade'[p].money = trade[p].money
                  /\ trade'[q].items = trade[q].items /\ trade'[q].money = trade[q].money
           ELSE \/ bag'[p] = bag[p] /\ money'[p] >= money[p]
                \/ /\ trade[p].accepted \/ trade[q].accepted
                   /\ bag'[p] = (bag[p] \ Offered(p)) \cup Offered(q)
                   /\ money'[p] = money[p] - trade[p].money + trade[q].money]_vars
  BY <1>1 DEF Agreed
<1> QED  BY <1>2, InvariantHolds, PTL DEF Spec, TradeAsAgreed

-----------------------------------------------------------------------------
(***************************************************************************)
(* Sums.                                                                   *)
(***************************************************************************)
\* A finite sum of natural numbers is one.
LEMMA SumIs ==
    ASSUME NEW D, IsFiniteSet(D), NEW f \in [D -> Nat]
    PROVE  IsFiniteSet(Coins(f)) /\ SumOver(f) \in Nat
<1> DEFINE some == {{x} \X (1..f[x]) : x \in D}
<1> DEFINE pile == [x \in D |-> {x} \X (1..f[x])]
<1>1. IsFiniteSet(some)
  <2>1. pile \in Surjection(D, some)  BY DEF Surjection
  <2> HIDE DEF pile, some
  <2> QED  BY <2>1, FS_Surjection
<1>2. ASSUME NEW x \in D  PROVE IsFiniteSet({x} \X (1..f[x]))
  <2>1. f[x] \in Nat /\ 1 \in Int /\ f[x] \in Int  OBVIOUS
  <2>2. IsFiniteSet(1..f[x])  BY <2>1, FS_Interval
  <2> QED  BY <2>2, FS_Singleton, FS_Product
<1>3. \A c \in some : IsFiniteSet(c)  BY <1>2
<1>4. Coins(f) = UNION some  BY DEF Coins
<1> HIDE DEF some
<1>5. IsFiniteSet(Coins(f))  BY <1>1, <1>3, <1>4, FS_UNION
<1> QED  BY <1>5, FS_CardinalityType DEF SumOver

\* The coins, one by one.
LEMMA CoinsAre ==
    ASSUME NEW f, NEW c
    PROVE  c \in Coins(f) <=> \E x \in DOMAIN f : \E k \in 1..f[x] : c = <<x, k>>
  BY DEF Coins

\* A sum is that over a part and that over the rest.
LEMMA SumParts ==
    ASSUME NEW D, IsFiniteSet(D), NEW f \in [D -> Nat], NEW E \in SUBSET D
    PROVE  /\ SumOver(f) = SumOver(Restrict(f, E)) + SumOver(Restrict(f, D \ E))
           /\ SumOver(Restrict(f, E)) \in Nat /\ SumOver(Restrict(f, D \ E)) \in Nat
<1> DEFINE a == Restrict(f, E)
<1> DEFINE b == Restrict(f, D \ E)
<1>1. a \in [E -> Nat] /\ b \in [D \ E -> Nat]
      /\ (\A x \in E : a[x] = f[x]) /\ (\A x \in D \ E : b[x] = f[x])
  BY DEF Restrict
<1> HIDE DEF a, b
<1>2. IsFiniteSet(E) /\ IsFiniteSet(D \ E)  BY FS_Subset
<1>3. IsFiniteSet(Coins(a)) /\ IsFiniteSet(Coins(b)) /\ SumOver(a) \in Nat /\ SumOver(b) \in Nat
  BY <1>1, <1>2, SumIs
<1>4. \A c : c \in Coins(f) <=> c \in Coins(a) \/ c \in Coins(b)
  <2> SUFFICES ASSUME NEW c PROVE c \in Coins(f) <=> c \in Coins(a) \/ c \in Coins(b)
    OBVIOUS
  <2>1. DOMAIN f = D /\ DOMAIN a = E /\ DOMAIN b = D \ E  BY <1>1
  <2>2. c \in Coins(f) <=> \E x \in D : \E k \in 1..f[x] : c = <<x, k>>  BY <2>1, CoinsAre
  <2>3. c \in Coins(a) <=> \E x \in E : \E k \in 1..f[x] : c = <<x, k>>  BY <1>1, <2>1, CoinsAre
  <2>4. c \in Coins(b) <=> \E x \in D \ E : \E k \in 1..f[x] : c = <<x, k>>  BY <1>1, <2>1, CoinsAre
  <2> QED  BY <2>2, <2>3, <2>4
<1>5. Coins(a) \cap Coins(b) = {}
  <2>1. \A c \in Coins(a) : c[1] \in E  BY <1>1, CoinsAre
  <2>2. \A c \in Coins(b) : c[1] \in D \ E  BY <1>1, CoinsAre
  <2> QED  BY <2>1, <2>2
<1>6. Coins(f) = Coins(a) \cup Coins(b)  BY <1>4
<1>7. Cardinality(Coins(f)) = Cardinality(Coins(a)) + Cardinality(Coins(b))
  <2>1. Cardinality({}) = 0  BY FS_EmptySet
  <2>2. Cardinality(Coins(a) \cup Coins(b)) =
           Cardinality(Coins(a)) + Cardinality(Coins(b)) - Cardinality(Coins(a) \cap Coins(b))
    BY <1>3, FS_Union
  <2>3. Cardinality(Coins(a)) \in Nat /\ Cardinality(Coins(b)) \in Nat
    BY <1>3, FS_CardinalityType
  <2>4. Cardinality(Coins(a) \cap Coins(b)) = 0  BY <1>5, <2>1
  <2>5. Cardinality(Coins(f)) = Cardinality(Coins(a) \cup Coins(b))  BY <1>6
  <2> QED  BY <2>2, <2>3, <2>4, <2>5
<1> QED  BY <1>3, <1>7 DEF SumOver, a, b

\* The sum of zeros.
LEMMA SumOfZeros ==
    ASSUME NEW f, \A x \in DOMAIN f : f[x] = 0
    PROVE  SumOver(f) = 0
<1>1. Coins(f) = {}
  <2>1. ASSUME NEW c \in Coins(f)  PROVE FALSE
    <3>1. PICK x \in DOMAIN f : \E k \in 1..f[x] : c = <<x, k>>  BY <2>1, CoinsAre
    <3> QED  BY <3>1
  <2> QED  BY <2>1
<1> QED  BY <1>1, FS_EmptySet DEF SumOver

\* The sum of one number.
LEMMA SumOfOne ==
    ASSUME NEW x, NEW f \in [{x} -> Nat]
    PROVE  SumOver(f) = f[x]
<1> DEFINE n == f[x]
<1>1. n \in Nat /\ n \in Int  OBVIOUS
<1>2. Coins(f) = {x} \X (1..n)  BY DEF Coins
<1> HIDE DEF n
<1>3. IsFiniteSet(1..n) /\ Cardinality(1..n) = n  BY <1>1, FS_Interval
<1>4. Cardinality({x} \X (1..n)) = 1 * n
  <2> DEFINE S == {x}
  <2> DEFINE T == 1..n
  <2>1. IsFiniteSet(S) /\ Cardinality(S) = 1  BY FS_Singleton
  <2>2. IsFiniteSet(T) /\ Cardinality(T) = n  BY <1>3
  <2> HIDE DEF S, T
  <2>3. Cardinality(S \X T) = Cardinality(S) * Cardinality(T)  BY <2>1, <2>2, FS_Product
  <2> QED  BY <2>1, <2>2, <2>3 DEF S, T
<1> QED  BY <1>1, <1>2, <1>4 DEF SumOver, n

\* Two sums that differ in one number.
LEMMA SumChange ==
    ASSUME NEW D, IsFiniteSet(D), NEW f \in [D -> Nat], NEW g \in [D -> Nat],
           NEW x \in D, \A y \in D : y # x => g[y] = f[y]
    PROVE  SumOver(g) = SumOver(f) - f[x] + g[x]
<1> DEFINE E == {x}
<1>1. SumOver(f) = SumOver(Restrict(f, E)) + SumOver(Restrict(f, D \ E))
      /\ SumOver(Restrict(f, E)) \in Nat /\ SumOver(Restrict(f, D \ E)) \in Nat
  BY SumParts
<1>2. SumOver(g) = SumOver(Restrict(g, E)) + SumOver(Restrict(g, D \ E))
  BY SumParts
<1>3. Restrict(f, D \ E) = Restrict(g, D \ E)  BY DEF Restrict
<1>4. Restrict(f, E) \in [{x} -> Nat] /\ Restrict(f, E)[x] = f[x]
      /\ Restrict(g, E) \in [{x} -> Nat] /\ Restrict(g, E)[x] = g[x]
  BY DEF Restrict
<1>5. SumOver(Restrict(f, E)) = f[x] /\ SumOver(Restrict(g, E)) = g[x]
  BY <1>4, SumOfOne
<1> HIDE DEF E
<1> QED  BY <1>1, <1>2, <1>3, <1>5

\* Numbers that are removed are missing from the sum.
LEMMA SumRemoved ==
    ASSUME NEW D, IsFiniteSet(D), NEW f \in [D -> Nat], NEW g \in [D -> Nat], NEW E \in SUBSET D,
           \A y \in D : g[y] = IF y \in E THEN 0 ELSE f[y]
    PROVE  SumOver(g) = SumOver(f) - SumOver(Restrict(f, E))
<1>1. SumOver(f) = SumOver(Restrict(f, E)) + SumOver(Restrict(f, D \ E))
      /\ SumOver(Restrict(f, E)) \in Nat /\ SumOver(Restrict(f, D \ E)) \in Nat
  BY SumParts
<1>2. SumOver(g) = SumOver(Restrict(g, E)) + SumOver(Restrict(g, D \ E))  BY SumParts
<1>3. Restrict(f, D \ E) = Restrict(g, D \ E)  BY DEF Restrict
<1>4. SumOver(Restrict(g, E)) = 0
  <2> DEFINE h == Restrict(g, E)
  <2>1. \A y \in DOMAIN h : h[y] = 0  BY DEF Restrict
  <2> HIDE DEF h
  <2>2. SumOver(h) = 0  BY <2>1, SumOfZeros
  <2> QED  BY <2>2 DEF h
<1> QED  BY <1>1, <1>2, <1>3, <1>4

\* The same numbers in other places: row sends those of f that are not zero to
\* the places of g.
Moved(f, C, row, B, g, D) ==
    /\ f \in [C -> Nat] /\ B \in SUBSET C /\ \A k \in C : k \notin B => f[k] = 0
    /\ row \in [B -> D] /\ IsInjective(row) /\ Range(row) = D
    /\ \A k \in B : g[row[k]] = f[k]

\* They have the same sum.
LEMMA SumMoved ==
    ASSUME NEW f, NEW C, NEW row, NEW B, NEW g, NEW D, Moved(f, C, row, B, g, D),
           IsFiniteSet(C), g \in [D -> Nat]
    PROVE  SumOver(g) = SumOver(f)
<1> USE DEF Moved
<1> DEFINE move == [c \in Coins(f) |-> <<row[c[1]], c[2]>>]
<1>1. IsFiniteSet(Coins(f))  BY SumIs
<1>2. DOMAIN f = C /\ DOMAIN g = D /\ DOMAIN row = B  OBVIOUS
<1>3. ASSUME NEW c \in Coins(f)
      PROVE  c[1] \in B /\ c[2] \in 1..f[c[1]] /\ c = <<c[1], c[2]>>
  <2>1. PICK x \in C : \E k \in 1..f[x] : c = <<x, k>>  BY <1>2, <1>3, CoinsAre
  <2>2. f[x] # 0 /\ c[1] = x /\ c[2] \in 1..f[x] /\ c = <<x, c[2]>>  BY <2>1
  <2> QED  BY <2>2
<1>4. move \in [Coins(f) -> Coins(g)]
  <2>1. ASSUME NEW c \in Coins(f)  PROVE move[c] \in Coins(g)
    <3>1. c[1] \in B /\ c[2] \in 1..f[c[1]]  BY <1>3
    <3>2. row[c[1]] \in D /\ c[2] \in 1..g[row[c[1]]]  BY <3>1
    <3>3. move[c] = <<row[c[1]], c[2]>>  OBVIOUS
    <3> HIDE DEF move
    <3> QED  BY <1>2, <3>2, <3>3, CoinsAre
  <2> QED  BY <2>1
<1>5. ASSUME NEW c \in Coins(f), NEW d \in Coins(f), move[c] = move[d]  PROVE c = d
  <2>1. row[c[1]] = row[d[1]] /\ c[2] = d[2]  BY <1>5
  <2>2. c[1] \in B /\ d[1] \in B /\ c = <<c[1], c[2]>> /\ d = <<d[1], d[2]>>  BY <1>3
  <2>3. c[1] = d[1]  BY <1>2, <2>1, <2>2 DEF IsInjective
  <2> QED  BY <2>1, <2>2, <2>3
<1>6. ASSUME NEW d \in Coins(g)  PROVE \E c \in Coins(f) : move[c] = d
  <2>1. PICK y \in D : \E k \in 1..g[y] : d = <<y, k>>  BY <1>2, CoinsAre
  <2>6. PICK k \in 1..g[y] : d = <<y, k>>  BY <2>1
  <2>2. PICK x \in B : row[x] = y  BY <1>2 DEF Range
  <2>3. x \in C /\ k \in 1..f[x]  BY <2>2, <2>6
  <2>4. <<x, k>> \in Coins(f)  BY <1>2, <2>3, CoinsAre
  <2>5. move[<<x, k>>] = d  BY <2>2, <2>4, <2>6
  <2> QED  BY <2>4, <2>5
<1> HIDE DEF move
<1>7. move \in Injection(Coins(f), Coins(g))  BY <1>4, <1>5 DEF Injection, IsInjective
<1>8. move \in Surjection(Coins(f), Coins(g))  BY <1>4, <1>6 DEF Surjection
<1>9. ExistsBijection(Coins(f), Coins(g))  BY <1>7, <1>8 DEF ExistsBijection, Bijection
<1> QED  BY <1>1, <1>9, FS_Bijection DEF SumOver

-----------------------------------------------------------------------------
(***************************************************************************)
(* The books.                                                              *)
(***************************************************************************)
\* An auction has the deposit its seller was told, and a bid of another.
Lots == \A i \in Items : InHouse(i) =>
    /\ house[i].deposit = Deposit
    /\ house[i].bidder # house[i].owner
    /\ house[i].bidder = NoItem => house[i].bid = 0

\* A character's logout saves what he has not saved.
Settled == \A p \in Players : ~Online(p) => disk.money[p] = money[p]

BooksInv == Lots /\ Settled /\ MoneyBalances /\ taken.money \in Int /\ Total \in Int

\* Every sum in the books is a finite sum of natural numbers: the purses.
LEMMA PurseSums ==
    ASSUME NEW f \in Purse
    PROVE  f \in [Players -> Nat] /\ IsFiniteSet(Players) /\ SumOver(f) \in Nat
  BY HoldingsAssumption, SumIs DEF Purse

\* There are finitely many places for mails.
LEMMA MailIdsAreFinite == IsFiniteSet(MailIds)
<1>1. MaxMails \in Nat  BY HoldingsAssumption
<1> QED  BY <1>1, FS_Interval DEF MailIds

\* What the mails carry.
LEMMA BoxSums ==
    ASSUME NEW b \in Box
    PROVE  /\ Carried(b) \in [MailIds -> Nat] /\ SumOver(Carried(b)) \in Nat
           /\ \A n \in MailIds : Carried(b)[n] = IF b[n] = NoMail THEN 0 ELSE b[n].money
<1> DEFINE c == Carried(b)
<1>1. c = [n \in MailIds |-> IF b[n] = NoMail THEN 0 ELSE b[n].money]  BY DEF Carried
<1>2. \A n \in MailIds : b[n] # NoMail => b[n].money \in Nat  BY DEF Box, Letters
<1> HIDE DEF c
<1>3. c \in [MailIds -> Nat]  BY <1>1, <1>2
<1>4. SumOver(c) \in Nat  BY <1>3, MailIdsAreFinite, SumIs
<1> QED  BY <1>1, <1>3, <1>4 DEF c

\* The bids and the deposits that the house holds.
LEMMA HouseSums ==
    ASSUME NEW h \in House
    PROVE  /\ Held(h) \in [Items -> Nat] /\ SumOver(Held(h)) \in Nat
           /\ \A i \in Items : Held(h)[i] = IF h[i] = NoAuction THEN 0 ELSE h[i].bid + h[i].deposit
<1> DEFINE g == Held(h)
<1>1. g = [i \in Items |-> IF h[i] = NoAuction THEN 0 ELSE h[i].bid + h[i].deposit]  BY DEF Held
<1>2. \A i \in Items : h[i] # NoAuction => h[i].bid + h[i].deposit \in Nat
  <2>1. ASSUME NEW i \in Items, h[i] # NoAuction  PROVE h[i].bid + h[i].deposit \in Nat
    <3>1. h[i] \in Auctions  BY <2>1 DEF House
    <3>2. h[i].bid \in Nat /\ h[i].deposit \in Nat  BY <3>1 DEF Auctions
    <3> QED  BY <3>2
  <2> QED  BY <2>1
<1> HIDE DEF g
<1>3. g \in [Items -> Nat]  BY <1>1, <1>2
<1>4. SumOver(g) \in Nat  BY <1>3, HoldingsAssumption, SumIs
<1> QED  BY <1>1, <1>3, <1>4 DEF g

\* The pending auctions of every seller, and what they owe.
Owed(lists) == [p \in Players |-> Len(lists[p].auctions)]

\* Their number, over all sellers.
LEMMA DebtSums ==
    ASSUME NEW lists \in [Players -> Adding]
    PROVE  Owed(lists) \in [Players -> Nat] /\ SumOver(Owed(lists)) \in Nat
<1>1. ASSUME NEW p \in Players  PROVE Len(lists[p].auctions) \in Nat
  <2>1. lists[p].auctions \in Seq(Items \cup {Dangling})  BY DEF Adding
  <2> QED  BY <2>1
<1>2. Owed(lists) \in [Players -> Nat]  BY <1>1 DEF Owed
<1> QED  BY <1>2, HoldingsAssumption, SumIs

\* All of them, in the current state.
LEMMA AllSums ==
    ASSUME IInv
    PROVE  /\ SumOver(money) \in Nat /\ SumOver(Carried(mails)) \in Nat
           /\ SumOver(Held(house)) \in Nat /\ SumOver(Owed(pending)) \in Nat
<1>1. money \in Purse /\ mails \in Box /\ house \in House /\ pending \in [Players -> Adding]
  BY DEF IInv, Stored, HouseInv
<1> QED  BY <1>1, PurseSums, BoxSums, HouseSums, DebtSums

\* Changes that cancel out.
LEMMA Balanced ==
    ASSUME IInv, BooksInv, NEW a \in Int, NEW b \in Int, NEW c \in Int, NEW e \in Int, NEW t \in Int,
           SumOver(money') = SumOver(money) + a,
           SumOver(Carried(mails')) = SumOver(Carried(mails)) + b,
           SumOver(Held(house')) = SumOver(Held(house)) + c,
           SumOver(Owed(pending')) = SumOver(Owed(pending)) + e,
           taken'.money = taken.money + t,
           a + b + c + t = Deposit * e
    PROVE  MoneyBalances' /\ taken'.money \in Int
<1> DEFINE P == SumOver(money)
<1> DEFINE M == SumOver(Carried(mails))
<1> DEFINE H == SumOver(Held(house))
<1> DEFINE L == SumOver(Owed(pending))
<1> DEFINE d == Deposit
<1>1. P \in Int /\ M \in Int /\ H \in Int /\ L \in Int  BY AllSums
<1>2. d \in Int  BY AuctionAssumption
<1>3. (P + M + H) - d * L + taken.money = Total /\ taken.money \in Int
  BY DEF BooksInv, MoneyBalances, Wealth, Debt, Owed
<1>4. MoneyBalances' <=> ((P + a) + (M + b) + (H + c)) - d * (L + e) + taken'.money = Total
  BY DEF MoneyBalances, Wealth, Debt, Owed
<1> HIDE DEF P, M, H, L, d
<1> DEFINE x == d * L
<1> DEFINE y == d * e
<1>5. x \in Int /\ y \in Int /\ d * (L + e) = x + y  BY <1>1, <1>2
<1>6. a + b + c + t = y  BY DEF d
<1> HIDE DEF x, y
<1>7. (P + M + H) - x + taken.money = Total  BY <1>3 DEF x
<1>8. ((P + a) + (M + b) + (H + c)) - (x + y) + (taken.money + t) = Total
  BY <1>1, <1>3, <1>5, <1>6, <1>7
<1> QED  BY <1>3, <1>4, <1>5, <1>8

\* What ModifyMoney does to the sum.
LEMMA DebitSum ==
    ASSUME NEW purse \in Purse, NEW p \in Players, NEW amount \in Nat, purse[p] >= amount
    PROVE  SumOver(Debit(purse, p, amount)) = SumOver(purse) - amount
<1> DEFINE after == Debit(purse, p, amount)
<1>1. after \in Purse /\ after[p] = purse[p] - amount
      /\ \A q \in Players : q # p => after[q] = purse[q]
  BY DebitIs
<1> HIDE DEF after
<1>2. SumOver(after) = SumOver(purse) - purse[p] + after[p]  BY <1>1, PurseSums, SumChange
<1>3. purse[p] \in Nat /\ SumOver(purse) \in Nat  BY PurseSums
<1> QED  BY <1>1, <1>2, <1>3 DEF after

\* A purse that is paid holds that much more.
LEMMA CreditSum ==
    ASSUME NEW purse \in Purse, NEW p \in Players, NEW amount \in Nat
    PROVE  SumOver(Credit(purse, p, amount)) = SumOver(purse) + amount
<1> DEFINE after == Credit(purse, p, amount)
<1>1. after \in Purse /\ after[p] = purse[p] + amount
      /\ \A q \in Players : q # p => after[q] = purse[q]
  BY CreditIs
<1> HIDE DEF after
<1>2. SumOver(after) = SumOver(purse) - purse[p] + after[p]  BY <1>1, PurseSums, SumChange
<1>3. purse[p] \in Nat /\ SumOver(purse) \in Nat  BY PurseSums
<1> QED  BY <1>1, <1>2, <1>3 DEF after

\* One mail is replaced by another, or by none.
LEMMA BoxChange ==
    ASSUME NEW b \in Box, NEW c \in Box, NEW i \in MailIds, \A n \in MailIds : n # i => c[n] = b[n]
    PROVE  SumOver(Carried(c)) = SumOver(Carried(b)) - Carried(b)[i] + Carried(c)[i]
<1>1. \A n \in MailIds : n # i => Carried(c)[n] = Carried(b)[n]  BY BoxSums
<1>2. Carried(b) \in [MailIds -> Nat] /\ Carried(c) \in [MailIds -> Nat]  BY BoxSums
<1> QED  BY <1>1, <1>2, MailIdsAreFinite, SumChange

\* One auction is.
LEMMA HouseChange ==
    ASSUME NEW g \in House, NEW h \in House, NEW i \in Items, \A j \in Items : j # i => h[j] = g[j]
    PROVE  SumOver(Held(h)) = SumOver(Held(g)) - Held(g)[i] + Held(h)[i]
<1>1. \A j \in Items : j # i => Held(h)[j] = Held(g)[j]  BY HouseSums
<1>2. Held(g) \in [Items -> Nat] /\ Held(h) \in [Items -> Nat]  BY HouseSums
<1> QED  BY <1>1, <1>2, HoldingsAssumption, SumChange

\* Mails are deleted with the money they carry.
LEMMA BoxCleared ==
    ASSUME mails \in Box, NEW b \in Box, NEW c \in Box, NEW del \in SUBSET MailIds,
           \A n \in MailIds : c[n] = IF n \in del THEN NoMail ELSE b[n],
           \A n \in del : mails[n] # NoMail /\ b[n] = mails[n]
    PROVE  /\ SumOver([n \in del |-> mails[n].money]) \in Nat
           /\ SumOver(Carried(c)) = SumOver(Carried(b)) - SumOver([n \in del |-> mails[n].money])
<1> DEFINE f == Carried(b)
<1> DEFINE g == Carried(c)
<1>1. f \in [MailIds -> Nat] /\ g \in [MailIds -> Nat]  BY BoxSums
<1>2. \A n \in MailIds : f[n] = IF b[n] = NoMail THEN 0 ELSE b[n].money  BY BoxSums
<1>3. \A n \in MailIds : g[n] = IF n \in del THEN 0 ELSE f[n]  BY BoxSums
<1> HIDE DEF f, g
<1>4. SumOver(g) = SumOver(f) - SumOver(Restrict(f, del))  BY <1>1, <1>3, MailIdsAreFinite, SumRemoved
<1>5. Restrict(f, del) = [n \in del |-> mails[n].money]  BY <1>1, <1>2 DEF Restrict
<1>6. SumOver(Restrict(f, del)) \in Nat  BY <1>1, MailIdsAreFinite, SumParts
<1> QED  BY <1>4, <1>5, <1>6 DEF f, g

\* A fee is all that is taken if no mail is deleted.
LEMMA FeeOnly ==
    ASSUME NEW fee \in Int, taken.money \in Int, Take(fee, {})
    PROVE  taken'.money = taken.money + fee
<1> DEFINE none == [i \in {} |-> mails[i].money]
<1>1. \A i \in DOMAIN none : none[i] = 0  OBVIOUS
<1>2. taken'.money = taken.money + fee + SumOver(none)  BY DEF Take
<1> HIDE DEF none
<1>3. SumOver(none) = 0  BY <1>1, SumOfZeros
<1> QED  BY <1>2, <1>3

-----------------------------------------------------------------------------
(***************************************************************************)
(* The money in letters.                                                   *)
(***************************************************************************)
\* The money of each letter of a list.
Postings(new) == [k \in DOMAIN new |-> new[k].money]

\* A list of letters.
LEMMA PostingsAre ==
    ASSUME NEW new \in Seq(Letters)
    PROVE  /\ DOMAIN new = 1..Len(new) /\ Len(new) \in Nat /\ IsFiniteSet(DOMAIN new)
           /\ Postings(new) \in [DOMAIN new -> Nat]
           /\ SumOver(Postings(new)) \in Nat
<1>1. DOMAIN new = 1..Len(new) /\ Len(new) \in Nat /\ 1 \in Int /\ Len(new) \in Int  OBVIOUS
<1>2. IsFiniteSet(DOMAIN new)  BY <1>1, FS_Interval
<1> DEFINE L == Letters
<1>3. \A k \in DOMAIN new : new[k].money \in Nat
  <2>1. \A m \in L : m.money \in Nat  BY DEF Letters
  <2> HIDE DEF L
  <2>2. \A k \in DOMAIN new : new[k] \in L  BY DEF L
  <2> QED  BY <2>1, <2>2
<1>4. Postings(new) \in [DOMAIN new -> Nat]  BY <1>3 DEF Postings
<1> QED  BY <1>1, <1>2, <1>4, SumIs

\* A single letter.
LEMMA PostedOne ==
    ASSUME NEW letter \in Letters
    PROVE  SumOver(Postings(<<letter>>)) = letter.money
<1> DEFINE f == Postings(<<letter>>)
<1>1. letter.money \in Nat  BY DEF Letters
<1>2. f \in [{1} -> Nat] /\ f[1] = letter.money  BY <1>1 DEF Postings
<1> HIDE DEF f
<1>3. SumOver(f) = f[1]  BY <1>2, SumOfOne
<1> QED  BY <1>2, <1>3 DEF f

\* Two lists, one after the other.
LEMMA PostedBoth ==
    ASSUME NEW first \in Seq(Letters), NEW second \in Seq(Letters)
    PROVE  SumOver(Postings(first \o second)) = SumOver(Postings(first)) + SumOver(Postings(second))
<1> DEFINE new == first \o second
<1> DEFINE m == Len(first)
<1> DEFINE n == Len(second)
<1> DEFINE f == Postings(new)
<1> DEFINE E == 1..m
<1> DEFINE D == 1..(m + n)
<1>1. new \in Seq(Letters) /\ m \in Nat /\ n \in Nat
      /\ DOMAIN new = D /\ DOMAIN first = E /\ DOMAIN second = 1..n
      /\ (\A k \in E : new[k] = first[k])
      /\ (\A k \in 1..n : new[m + k] = second[k])
  OBVIOUS
<1>2. IsFiniteSet(D) /\ f \in [D -> Nat]  BY <1>1, PostingsAre
<1>3. (\A k \in D : f[k] = new[k].money)
      /\ (\A k \in E : Postings(first)[k] = first[k].money)
      /\ (\A k \in 1..n : Postings(second)[k] = second[k].money)
  BY <1>1 DEF Postings
<1>4. DOMAIN Postings(first) = E /\ DOMAIN Postings(second) = 1..n  BY <1>1 DEF Postings
<1>5. E \subseteq D  BY <1>1
<1> HIDE DEF f, new
<1>6. SumOver(f) = SumOver(Restrict(f, E)) + SumOver(Restrict(f, D \ E))  BY <1>2, <1>5, SumParts
<1>7. Restrict(f, E) = Postings(first)
  <2>1. Postings(first) \in [E -> Nat]  BY <1>1, PostingsAre
  <2>2. \A k \in E : f[k] = Postings(first)[k]  BY <1>1, <1>3, <1>5
  <2> QED  BY <2>1, <2>2 DEF Restrict
<1>8. SumOver(Restrict(f, D \ E)) = SumOver(Postings(second))
  <2> DEFINE g == Restrict(f, D \ E)
  <2> DEFINE h == Postings(second)
  <2> DEFINE C == 1..n
  <2> DEFINE R == D \ E
  <2> DEFINE row == [k \in C |-> m + k]
  <2>1. IsFiniteSet(C) /\ h \in [C -> Nat]  BY <1>1, PostingsAre
  <2>2. g \in [R -> Nat] /\ \A k \in R : g[k] = f[k]  BY <1>2 DEF Restrict
  <2>3. row \in [C -> R]  BY <1>1
  <2>4. IsInjective(row)  BY <1>1 DEF IsInjective
  <2>5. Range(row) = R
    <3>1. ASSUME NEW y \in R  PROVE \E k \in C : row[k] = y
      <4>1. y - m \in C /\ row[y - m] = y  BY <1>1
      <4> QED  BY <4>1
    <3> HIDE DEF R, C
    <3> QED  BY <2>3, <3>1 DEF Range
  <2>6. \A k \in C : g[row[k]] = h[k]
    <3>1. ASSUME NEW k \in C  PROVE g[row[k]] = h[k]
      <4>1. m + k \in R /\ row[k] = m + k  BY <1>1
      <4>2. g[m + k] = f[m + k] /\ f[m + k] = new[m + k].money  BY <1>3, <2>2, <4>1
      <4> QED  BY <1>1, <1>3, <4>1, <4>2
    <3> QED  BY <3>1
  <2> HIDE DEF g, h, C, R, row
  <2>7. SumOver(g) = SumOver(h)
    <3>1. Moved(h, C, row, C, g, R)  BY <2>1, <2>3, <2>4, <2>5, <2>6 DEF Moved
    <3> QED  BY <2>1, <2>2, <3>1, SumMoved
  <2> QED  BY <2>7 DEF g, h, R
<1> QED  BY <1>6, <1>7, <1>8 DEF f, new

\* What is sent is in the mails afterwards.
LEMMA SentSum ==
    ASSUME NEW new \in Seq(Letters), Free(Len(new)), mails \in Box
    PROVE  SumOver(Carried(Over(SendMails(new), mails))) =
             SumOver(Carried(mails)) + SumOver(Postings(new))
<1>1. PICK row \in [Carrying(new) -> FreeIds] :
             /\ IsInjective(row)
             /\ DOMAIN SendMails(new) = Range(row)
             /\ \A k \in Carrying(new) : SendMails(new)[row[k]] = new[k]  BY SentRows
<1> DEFINE sent == SendMails(new)
<1> DEFINE D == Range(row)
<1> DEFINE C == Carrying(new)
<1> DEFINE after == Over(sent, mails)
<1> DEFINE f == Carried(mails)
<1> DEFINE g == Carried(after)
<1> DEFINE h == Postings(new)
<1>2. DOMAIN sent = D /\ (\A k \in C : sent[row[k]] = new[k]) /\ row \in [C -> FreeIds]  BY <1>1
<1>3. C \subseteq DOMAIN new /\ \A k \in DOMAIN new : k \notin C => h[k] = 0
  <2>1. \A k \in DOMAIN new : h[k] = new[k].money /\ h[k] \in Nat  BY PostingsAre DEF Postings
  <2> QED  BY <2>1 DEF Carrying, Postings
<1>4. FreeIds \subseteq MailIds /\ \A n \in FreeIds : mails[n] = NoMail  BY DEF FreeIds
<1> HIDE DEF sent, C
<1>5. D \subseteq FreeIds  BY <1>2 DEF Range
<1>6. after \in Box /\ \A n \in MailIds : after[n] = IF n \in D THEN sent[n] ELSE mails[n]
  BY <1>2, SentBox DEF sent
<1> HIDE DEF after
<1>7. /\ f \in [MailIds -> Nat] /\ g \in [MailIds -> Nat]
      /\ \A n \in MailIds : f[n] = IF mails[n] = NoMail THEN 0 ELSE mails[n].money
      /\ \A n \in MailIds : g[n] = IF after[n] = NoMail THEN 0 ELSE after[n].money
  BY <1>6, BoxSums
<1>8. D \in SUBSET MailIds  BY <1>4, <1>5
<1> HIDE DEF f, g, D
<1>9. SumOver(f) = SumOver(Restrict(f, D)) + SumOver(Restrict(f, MailIds \ D))
      /\ SumOver(g) = SumOver(Restrict(g, D)) + SumOver(Restrict(g, MailIds \ D))
      /\ SumOver(Restrict(f, MailIds \ D)) \in Nat
  BY <1>7, <1>8, MailIdsAreFinite, SumParts
<1>10. Restrict(f, MailIds \ D) = Restrict(g, MailIds \ D)
  BY <1>6, <1>7 DEF Restrict
<1>11. SumOver(Restrict(f, D)) = 0
  <2> DEFINE none == Restrict(f, D)
  <2>1. \A n \in DOMAIN none : none[n] = 0  BY <1>4, <1>5, <1>7, <1>8 DEF Restrict
  <2> HIDE DEF none
  <2>2. SumOver(none) = 0  BY <2>1, SumOfZeros
  <2> QED  BY <2>2 DEF none
<1>12. SumOver(Restrict(g, D)) = SumOver(h)
  <2> DEFINE part == Restrict(g, D)
  <2> DEFINE S == DOMAIN new
  <2>1. part \in [D -> Nat] /\ \A n \in D : part[n] = g[n]  BY <1>7, <1>8 DEF Restrict
  <2>2. IsFiniteSet(S) /\ h \in [S -> Nat]  BY PostingsAre
  <2>3. row \in [C -> D] /\ Range(row) = D  BY <1>2 DEF D, Range
  <2>4. ASSUME NEW k \in C  PROVE part[row[k]] = h[k]
    <3>1. row[k] \in D /\ row[k] \in MailIds  BY <1>8, <2>3
    <3>2. after[row[k]] = new[k]  BY <1>2, <1>6, <3>1
    <3>3. k \in S /\ new[k] # NoMail  BY <1>3, LettersAreMails
    <3>4. h[k] = new[k].money  BY <3>3 DEF Postings
    <3> QED  BY <1>7, <2>1, <3>1, <3>2, <3>3, <3>4
  <2>5. C \in SUBSET S /\ \A k \in S : k \notin C => h[k] = 0  BY <1>3
  <2>6. IsInjective(row)  BY <1>1
  <2> HIDE DEF part, S, h
  <2>7. Moved(h, S, row, C, part, D)  BY <2>2, <2>3, <2>4, <2>5, <2>6 DEF Moved
  <2>8. SumOver(part) = SumOver(h)  BY <2>1, <2>2, <2>7, SumMoved
  <2> QED  BY <2>8 DEF part
<1>13. SumOver(h) \in Nat  BY PostingsAre
<1> QED  BY <1>9, <1>10, <1>11, <1>12, <1>13 DEF f, g, after, sent

\* The refund of the last bidder, if it is not p himself.
LEMMA OutbiddedSum ==
    ASSUME NEW p \in Players, NEW a \in Auctions
    PROVE  SumOver(Postings(Outbidded(p, a))) = IF a.bidder \in {NoItem, p} THEN 0 ELSE a.bid
<1>1. CASE a.bidder \notin {NoItem, p}
  <2> DEFINE letter == Refund(a)
  <2>1. a.bidder \in Players /\ a.bid \in Nat  BY <1>1 DEF Auctions
  <2>2. letter \in Letters  BY <2>1, AuctionMailIs DEF Refund
  <2>3. letter.money = a.bid  BY DEF Refund, AuctionMail, Letter
  <2>4. Outbidded(p, a) = <<letter>>  BY <1>1 DEF Outbidded
  <2> HIDE DEF letter
  <2> QED  BY <1>1, <2>2, <2>3, <2>4, PostedOne
<1>2. CASE a.bidder \in {NoItem, p}
  <2> DEFINE none == Postings(<<>>)
  <2>1. Outbidded(p, a) = <<>>  BY <1>2 DEF Outbidded
  <2>2. \A k \in DOMAIN none : none[k] = 0  BY DEF Postings
  <2>3. Postings(Outbidded(p, a)) = none  BY <2>1
  <2> HIDE DEF none
  <2> QED  BY <1>2, <2>2, <2>3, SumOfZeros
<1> QED  BY <1>1, <1>2

\* A letter of the auction house carries the amount it was sent with.
LEMMA LetterSum ==
    ASSUME NEW to \in Players, NEW item \in Items \cup {NoItem}, NEW amount \in Nat
    PROVE  SumOver(Postings(<<AuctionMail(to, item, amount)>>)) = amount
<1> DEFINE letter == AuctionMail(to, item, amount)
<1>1. letter \in Letters  BY AuctionMailIs
<1>2. letter.money = amount  BY DEF AuctionMail, Letter
<1> HIDE DEF letter
<1> QED  BY <1>1, <1>2, PostedOne DEF letter

\* The letters of a sale carry what the owner gets.
LEMMA SoldSum ==
    ASSUME NEW a \in Auctions, a.bidder # NoItem, NEW i \in Items
    PROVE  /\ SumOver(Postings(Sold(a, i))) = a.bid + a.deposit - Cut(a)
           /\ Cut(a) \in Nat
<1> DEFINE first == AuctionMail(a.owner, NoItem, a.bid + a.deposit - Cut(a))
<1> DEFINE second == AuctionMail(a.bidder, i, 0)
<1>1. a.owner \in Players /\ a.bidder \in Players /\ a.bid \in Nat /\ a.deposit \in Nat  BY DEF Auctions
<1>2. a.bid + a.deposit - Cut(a) \in Nat /\ Cut(a) \in Nat  BY <1>1, CutIs
<1> DEFINE f == Postings(Sold(a, i))
<1>3. f \in [{1, 2} -> Nat] /\ f[1] = a.bid + a.deposit - Cut(a) /\ f[2] = 0
  <2>1. Sold(a, i) = <<first, second>>  BY DEF Sold
  <2>2. first.money = a.bid + a.deposit - Cut(a) /\ second.money = 0  BY DEF AuctionMail, Letter
  <2> HIDE DEF first, second
  <2> QED  BY <1>2, <2>1, <2>2 DEF Postings
<1> HIDE DEF f
<1>4. SumOver(f) = f[1]
  <2> DEFINE D == {1, 2}
  <2> DEFINE none == [k \in D |-> 0]
  <2>1. IsFiniteSet(D) /\ 1 \in D
    <3>1. D = {1} \cup {2} /\ IsFiniteSet({1}) /\ IsFiniteSet({2})  BY FS_Singleton
    <3> QED  BY <3>1, FS_Union
  <2>2. none \in [D -> Nat] /\ f \in [D -> Nat] /\ none[1] = 0 /\ \A k \in D : k # 1 => f[k] = none[k]
    BY <1>3
  <2>3. SumOver(none) = 0  BY SumOfZeros
  <2> HIDE DEF D, none
  <2>4. SumOver(f) = SumOver(none) - none[1] + f[1]  BY <2>1, <2>2, SumChange
  <2> QED  BY <2>1, <2>2, <2>3, <2>4
<1> QED  BY <1>2, <1>3, <1>4 DEF f

-----------------------------------------------------------------------------
(***************************************************************************)
(* Every step keeps the books.                                             *)
(***************************************************************************)
\* A transaction saves the purses it changed, and those of who leaves.
LEMMA SettledKept ==
    ASSUME Stored, Settled, NEW gold, NEW inventory, NEW change, Commit(gold, inventory, change),
           \A q \in Players : q \notin gold =>
              money'[q] = money[q] /\ (status'[q] = "offline" => status[q] = "offline")
    PROVE  Settled'
<1>1. disk'.money = [q \in Players |-> IF q \in gold THEN money'[q] ELSE disk.money[q]]
  BY DEF Commit, Written
<1>2. ASSUME NEW q \in Players, status'[q] = "offline"  PROVE disk'.money[q] = money'[q]
  <2>1. CASE q \in gold  BY <1>1, <2>1
  <2>2. CASE q \notin gold  BY <1>1, <1>2, <2>2 DEF Settled, Online
  <2> QED  BY <2>1, <2>2
<1> QED  BY <1>2 DEF Settled, Online

\* Steps that move nothing.
LEMMA SameBooks ==
    ASSUME BooksInv, UNCHANGED <<money, mails, disk, taken, house>>,
           Owed(pending') = Owed(pending),
           \A q \in Players : status'[q] = "offline" => status[q] = "offline"
    PROVE  BooksInv'
<1>1. Lots'  BY DEF BooksInv, Lots, InHouse
<1>2. Settled'  BY DEF BooksInv, Settled, Online
<1>3. MoneyBalances'  BY DEF BooksInv, MoneyBalances, Wealth, Debt, Owed
<1> QED  BY <1>1, <1>2, <1>3 DEF BooksInv

\* A login reads back what the logout, or the crash, left.
LEMMA LoginBooks ==
    ASSUME IInv, BooksInv, NEW p \in Players, Login(p), UNCHANGED auctionVars
    PROVE  BooksInv'
<1>1. money' = money
  <2>1. money' = [money EXCEPT ![p] = disk.money[p]] /\ ~Online(p)  BY DEF Login
  <2>2. disk.money[p] = money[p]  BY <2>1 DEF BooksInv, Settled
  <2>3. money \in [Players -> Nat]  BY DEF IInv, Stored, Purse
  <2> QED  BY <2>1, <2>2, <2>3
<1>2. UNCHANGED <<money, mails, disk, taken, house>>  BY <1>1 DEF Login, auctionVars
<1>3. Owed(pending') = Owed(pending)  BY DEF auctionVars
<1>4. \A q \in Players : status'[q] = "offline" => status[q] = "offline"
  <2>1. status \in [Players -> {"offline", "online", "listed"}]  BY DEF IInv, Bookkeeping
  <2> QED  BY <2>1 DEF Login
<1> QED  BY <1>2, <1>3, <1>4, SameBooks

\* A save takes the money of the mails it deletes.
LEMMA SaveBooks ==
    ASSUME IInv, IInv', BooksInv, NEW p \in Players, UNCHANGED <<money, auctionVars>>,
           Commit({p}, {p}, SaveMail(p)), Take(0, DOMAIN SaveMail(p)),
           \A q \in Players : q # p => (status'[q] = "offline" => status[q] = "offline")
    PROVE  BooksInv'
<1> DEFINE del == DOMAIN SaveMail(p)
<1> DEFINE x == SumOver([n \in del |-> mails[n].money])
<1>1. mails \in Box /\ erased \subseteq MailIds /\ money \in Purse /\ Stored
  BY DEF IInv, Stored, Bookkeeping
<1>2. mails' = Over(SaveMail(p), mails)  BY DEF Commit
<1>3. mails' \in Box /\ \A n \in MailIds : mails'[n] = IF n \in del THEN NoMail ELSE mails[n]
  BY <1>1, <1>2, SavedMails
<1>4. del \in SUBSET MailIds /\ \A n \in del : mails[n] # NoMail  BY <1>1, SaveMailIs
<1>5. taken'.money = taken.money + 0 + x  BY DEF Take
<1> HIDE DEF del
<1>6. x \in Nat /\ SumOver(Carried(mails')) = SumOver(Carried(mails)) - x
  BY <1>1, <1>3, <1>4, BoxCleared
<1> HIDE DEF x
<1>7. MoneyBalances' /\ taken'.money \in Int
  <2> DEFINE b == -x
  <2>1. b \in Int /\ 0 \in Int /\ x \in Int /\ b + x = 0  BY <1>6
  <2>2. SumOver(money') = SumOver(money) + 0
        /\ SumOver(Carried(mails')) = SumOver(Carried(mails)) + b
        /\ SumOver(Held(house')) = SumOver(Held(house)) + 0
        /\ SumOver(Owed(pending')) = SumOver(Owed(pending)) + 0
    <3>1. money' = money /\ house' = house /\ pending' = pending  BY DEF auctionVars
    <3> QED  BY <1>6, <3>1, AllSums
  <2>3. taken'.money = taken.money + x  BY <1>5, <1>6 DEF BooksInv
  <2>4. 0 + b + 0 + x = Deposit * 0  BY <2>1, AuctionAssumption
  <2> HIDE DEF b
  <2> QED  BY <2>1, <2>2, <2>3, <2>4, Balanced
<1>8. Lots'  BY DEF BooksInv, Lots, InHouse, auctionVars
<1>9. Settled'  BY <1>1, SettledKept DEF BooksInv
<1> QED  BY <1>7, <1>8, <1>9 DEF BooksInv

\* A trade moves money from one trader to the other.
LEMMA CompleteTradeBooks ==
    ASSUME IInv, BooksInv, NEW p \in Players, CompleteTrade(p), UNCHANGED auctionVars
    PROVE  BooksInv'
<1> DEFINE q == Trader(p)
<1> DEFINE a == trade[p].money
<1> DEFINE b == trade[q].money
<1>1. Stored /\ TradeInv /\ money \in Purse  BY DEF IInv, Stored
<1>2. q \in Players /\ q # p /\ a \in Nat /\ b \in Nat
  <2>1. trade[p] \in Windows /\ trade[q] \in Windows /\ q \in Players /\ q # p
    BY <1>1, Partners DEF CompleteTrade
  <2> QED  BY <2>1 DEF Windows
<1>3. money' \in Purse /\ money'[p] = money[p] - a + b /\ money'[q] = money[q] - b + a
      /\ \A r \in Players : r # p /\ r # q => money'[r] = money[r]
  BY <1>1, TradedMoney
<1>4. mails' = mails
  <2>1. mails' = Over(Nothing, mails)  BY DEF CompleteTrade, Commit
  <2> QED  BY <1>1, <2>1, NothingIsSent
<1>5. taken' = taken /\ status' = status  BY DEF CompleteTrade
<1>6. Settled'
  <2> DEFINE who == {p, q}
  <2>1. Commit(who, who, Nothing)  BY DEF CompleteTrade
  <2>2. \A r \in Players : r \notin who =>
           money'[r] = money[r] /\ (status'[r] = "offline" => status[r] = "offline")
    BY <1>3, <1>5
  <2> HIDE DEF who
  <2> QED  BY <1>1, <2>1, <2>2, SettledKept DEF BooksInv
<1> HIDE DEF q, a, b
<1>7. SumOver(money') = SumOver(money)
  <2> DEFINE half == [money EXCEPT ![p] = money'[p]]
  <2>1. money \in [Players -> Nat] /\ money' \in [Players -> Nat] /\ IsFiniteSet(Players)
        /\ SumOver(money) \in Nat
    BY <1>1, <1>3, PurseSums
  <2>2. half \in [Players -> Nat] /\ half[p] = money'[p] /\ \A r \in Players : r # p => half[r] = money[r]
    BY <2>1
  <2> HIDE DEF half
  <2>3. SumOver(half) = SumOver(money) - money[p] + half[p]  BY <2>1, <2>2, SumChange
  <2>4. \A r \in Players : r # q => money'[r] = half[r]  BY <1>3, <2>2
  <2>5. SumOver(money') = SumOver(half) - half[q] + money'[q]  BY <1>2, <2>1, <2>2, <2>4, SumChange
  <2>6. money[p] \in Nat /\ money[q] \in Nat /\ half[q] = money[q]  BY <1>2, <2>1, <2>2
  <2> QED  BY <1>2, <1>3, <2>1, <2>2, <2>3, <2>5, <2>6
<1>8. MoneyBalances'
  <2>1. house' = house /\ pending' = pending  BY DEF auctionVars
  <2> QED  BY <1>4, <1>5, <1>7, <2>1 DEF BooksInv, MoneyBalances, Wealth, Debt
<1>9. Lots'  BY DEF BooksInv, Lots, InHouse, auctionVars
<1> QED  BY <1>5, <1>6, <1>8, <1>9 DEF BooksInv

\* What a mail carries was paid, and so was the postage.
LEMMA SendMailBooks ==
    ASSUME IInv, BooksInv, NEW p \in Players, NEW q \in Players, NEW item \in Items \cup {NoItem},
           NEW parcel \in Parcels, SendMail(p, q, item, parcel[1], parcel[2]),
           UNCHANGED auctionVars
    PROVE  BooksInv'
<1> DEFINE letter == Letter("normal", p, q, item, parcel[1], parcel[2], "")
<1> DEFINE new == <<letter>>
<1> DEFINE amount == parcel[1]
<1> DEFINE price == Postage + amount
<1>1. Stored /\ money \in Purse /\ mails \in Box  BY DEF IInv, Stored
<1>2. amount \in Nat /\ parcel[2] \in Nat /\ Postage \in Nat /\ price \in Nat  BY MailAssumption
<1>3. letter \in Letters  BY <1>2 DEF Letter, Letters
<1>4. letter.money = amount  BY DEF Letter
<1>5. /\ money[p] >= price /\ Free(1)
      /\ money' = Debit(money, p, price)
      /\ Commit({p}, {p}, SendMails(new))
      /\ Take(Postage, {})
      /\ UNCHANGED status
  BY DEF SendMail, HasEnoughMoney
<1> HIDE DEF letter, price, amount
<1>6. SumOver(Postings(new)) = amount  BY <1>3, <1>4, PostedOne
<1>7. new \in Seq(Letters) /\ Len(new) = 1  BY <1>3
<1> HIDE DEF new
<1>8. SumOver(Carried(mails')) = SumOver(Carried(mails)) + amount
  <2>1. mails' = Over(SendMails(new), mails)  BY <1>5 DEF Commit
  <2>2. Free(Len(new))  BY <1>5, <1>7
  <2> QED  BY <1>1, <1>6, <1>7, <2>1, <2>2, SentSum
<1>9. SumOver(money') = SumOver(money) - price /\ \A r \in Players : r # p => money'[r] = money[r]
  BY <1>1, <1>2, <1>5, DebitSum, DebitIs
<1>10. taken'.money = taken.money + Postage  BY <1>2, <1>5, FeeOnly DEF BooksInv
<1>11. MoneyBalances' /\ taken'.money \in Int
  <2> DEFINE a == -price
  <2>1. a \in Int /\ amount \in Int /\ 0 \in Int /\ Postage \in Int /\ a + amount + 0 + Postage = Deposit * 0
    BY <1>2, AuctionAssumption DEF price
  <2>2. SumOver(money') = SumOver(money) + a  BY <1>2, <1>9, AllSums
  <2>3. SumOver(Held(house')) = SumOver(Held(house)) + 0 /\ SumOver(Owed(pending')) = SumOver(Owed(pending)) + 0
    BY AllSums DEF auctionVars
  <2> HIDE DEF a
  <2> QED  BY <1>8, <1>10, <2>1, <2>2, <2>3, Balanced
<1>12. Lots'  BY DEF BooksInv, Lots, InHouse, auctionVars
<1>13. Settled'  BY <1>1, <1>5, <1>9, SettledKept DEF BooksInv
<1> QED  BY <1>11, <1>12, <1>13 DEF BooksInv

\* A mail is replaced by one of the same money, or taken with it.
LEMMA ReplaceBooks ==
    ASSUME IInv, IInv', BooksInv, NEW i \in MailIds, NEW returned \in BOOLEAN, NEW back,
           mails[i] # NoMail, returned => back \in Letters /\ back.money = mails[i].money,
           UNCHANGED <<money, status, auctionVars>>,
           Commit({}, {}, [j \in {i} |-> IF returned THEN back ELSE NoMail]),
           Take(0, IF returned THEN {} ELSE {i})
    PROVE  BooksInv'
<1> DEFINE f == [j \in {i} |-> IF returned THEN back ELSE NoMail]
<1> DEFINE m == mails[i].money
<1>1. Stored /\ mails \in Box /\ mails' \in Box  BY DEF IInv, Stored
<1>2. mails[i] \in Letters /\ m \in Nat
  <2>1. mails[i] \in Letters  BY <1>1, OpenMail
  <2> QED  BY <2>1 DEF Letters
<1>3. DOMAIN f = {i} /\ f[i] = IF returned THEN back ELSE NoMail  OBVIOUS
<1>4. mails' = Over(f, mails)  BY DEF Commit
<1>5. Commit({}, {}, f)  OBVIOUS
<1> HIDE DEF f
<1>6. \A n \in MailIds : mails'[n] = IF n = i THEN f[i] ELSE mails[n]
  <2>1. DOMAIN f \subseteq MailIds /\ \A n \in DOMAIN f : f[n] \in Letters \cup {NoMail}  BY <1>3
  <2> QED  BY <1>1, <1>3, <1>4, <2>1, OverBox
<1>7. Carried(mails)[i] = m /\ Carried(mails')[i] = IF returned THEN m ELSE 0
  <2>1. back # NoMail \/ ~returned  BY LettersAreMails
  <2> QED  BY <1>1, <1>3, <1>6, <2>1, BoxSums
<1>8. SumOver(Carried(mails')) = SumOver(Carried(mails)) - Carried(mails)[i] + Carried(mails')[i]
  BY <1>1, <1>6, BoxChange
<1> DEFINE x == IF returned THEN 0 ELSE m
<1>9. taken'.money = taken.money + x
  <2>1. CASE returned
    <3>1. Take(0, {})  BY <2>1
    <3>2. taken'.money = taken.money + 0  BY <3>1, FeeOnly DEF BooksInv
    <3> QED  BY <2>1, <3>2
  <2>2. CASE ~returned
    <3> DEFINE g == [n \in {i} |-> mails[n].money]
    <3>1. taken'.money = taken.money + 0 + SumOver(g)  BY <2>2 DEF Take
    <3>2. g \in [{i} -> Nat] /\ g[i] = m  BY <1>2
    <3> HIDE DEF g
    <3>3. SumOver(g) = m  BY <3>2, SumOfOne
    <3> QED  BY <1>2, <2>2, <3>1, <3>3 DEF BooksInv
  <2> QED  BY <2>1, <2>2
<1>10. MoneyBalances' /\ taken'.money \in Int
  <2> DEFINE b == -x
  <2>1. b \in Int /\ x \in Int /\ 0 \in Int /\ 0 + b + 0 + x = Deposit * 0  BY <1>2, AuctionAssumption
  <2>2. SumOver(Carried(mails')) = SumOver(Carried(mails)) + b  BY <1>2, <1>7, <1>8, AllSums
  <2>3. SumOver(Held(house')) = SumOver(Held(house)) + 0 /\ SumOver(Owed(pending')) = SumOver(Owed(pending)) + 0
        /\ SumOver(money') = SumOver(money) + 0
    BY AllSums DEF auctionVars
  <2> HIDE DEF b, x
  <2> QED  BY <1>9, <2>1, <2>2, <2>3, Balanced
<1>11. Lots'  BY DEF BooksInv, Lots, InHouse, auctionVars
<1>12. Settled'
  <2> DEFINE none == {}
  <2>1. Commit(none, none, f)  BY <1>5
  <2>2. \A r \in Players : r \notin none =>
           money'[r] = money[r] /\ (status'[r] = "offline" => status[r] = "offline")
    OBVIOUS
  <2> HIDE DEF none
  <2> QED  BY <1>1, <2>1, <2>2, SettledKept DEF BooksInv
<1> QED  BY <1>10, <1>11, <1>12 DEF BooksInv

\* The receiver gets what the mail carried, and his deleted mails go.
LEMMA TakeMoneyBooks ==
    ASSUME IInv, IInv', BooksInv, NEW p \in Players, NEW i \in MailIds, MailTakeMoney(p, i),
           UNCHANGED auctionVars
    PROVE  BooksInv'
<1> DEFINE m == mails[i]
<1> DEFINE amount == m.money
<1> DEFINE rest == [j \in {i} |-> Remains([m EXCEPT !.money = 0])]
<1> DEFINE left == Over(rest, mails)
<1> DEFINE del == DOMAIN SaveMail(p)
<1> DEFINE x == SumOver([n \in del |-> mails[n].money])
<1>1. Stored /\ mails \in Box /\ mails' \in Box /\ money \in Purse /\ erased \subseteq MailIds
  BY DEF IInv, Stored, Bookkeeping
<1>2. m # NoMail /\ i \notin erased  BY DEF MailTakeMoney, Opens
<1>3. m \in Letters /\ amount \in Nat
  <2>1. m \in Letters  BY <1>1, <1>2, OpenMail
  <2> QED  BY <2>1 DEF Letters
<1>4. /\ money' = Credit(money, p, amount)
      /\ Commit({p}, {}, Over(SaveMail(p), rest))
      /\ Take(0, DOMAIN SaveMail(p))
      /\ UNCHANGED status
  BY DEF MailTakeMoney
<1>5. taken'.money = taken.money + 0 + x  BY <1>4 DEF Take
<1>6. DOMAIN rest = {i} /\ rest[i] \in Letters \cup {NoMail}
      /\ (rest[i] # NoMail => rest[i].money = 0)
  <2> DEFINE a == [m EXCEPT !.money = 0]
  <2>1. a.money = 0  BY <1>3 DEF Letters
  <2>2. Remains(a) \in Letters \cup {NoMail}  BY <1>3, RemainsOfMail
  <2>3. DOMAIN rest = {i} /\ rest[i] = Remains(a)  OBVIOUS
  <2> HIDE DEF a, rest
  <2>4. Remains(a) = NoMail \/ Remains(a) = a  BY DEF Remains
  <2> QED  BY <2>1, <2>2, <2>3, <2>4
<1> HIDE DEF rest
<1>7. left \in Box /\ \A n \in MailIds : left[n] = IF n = i THEN rest[i] ELSE mails[n]
  <2>1. DOMAIN rest \subseteq MailIds /\ \A n \in DOMAIN rest : rest[n] \in Letters \cup {NoMail}
    BY <1>6
  <2> QED  BY <1>1, <1>6, <2>1, OverBox
<1>8. mails' = Over(SaveMail(p), left)
  <2>1. mails' = Over(Over(SaveMail(p), rest), mails)  BY <1>4 DEF Commit
  <2> QED  BY <2>1, OverOver
<1> HIDE DEF left
<1>9. SumOver(Carried(left)) = SumOver(Carried(mails)) - amount
  <2>1. Carried(mails)[i] = amount /\ Carried(left)[i] = 0  BY <1>1, <1>2, <1>6, <1>7, BoxSums
  <2>2. SumOver(Carried(left)) = SumOver(Carried(mails)) - Carried(mails)[i] + Carried(left)[i]
    BY <1>1, <1>7, BoxChange
  <2> QED  BY <1>3, <2>1, <2>2, AllSums
<1>10. x \in Nat /\ SumOver(Carried(mails')) = SumOver(Carried(left)) - x
  <2>1. \A n \in MailIds : mails'[n] = IF n \in del THEN NoMail ELSE left[n]
    BY <1>1, <1>7, <1>8, SavedMails
  <2>2. del \in SUBSET MailIds /\ i \notin del /\ \A n \in del : mails[n] # NoMail
    BY <1>1, <1>2, SaveMailIs
  <2> HIDE DEF del
  <2>3. \A n \in del : left[n] = mails[n]  BY <1>7, <2>2
  <2> QED  BY <1>1, <1>7, <2>1, <2>2, <2>3, BoxCleared
<1>11. SumOver(money') = SumOver(money) + amount /\ \A r \in Players : r # p => money'[r] = money[r]
  BY <1>1, <1>3, <1>4, CreditSum, CreditIs
<1> HIDE DEF x, amount
<1>12. MoneyBalances' /\ taken'.money \in Int
  <2> DEFINE b == -(amount + x)
  <2>1. amount \in Int /\ b \in Int /\ 0 \in Int /\ x \in Int /\ amount + b + 0 + x = Deposit * 0
    BY <1>3, <1>10, AuctionAssumption
  <2>2. SumOver(Carried(mails')) = SumOver(Carried(mails)) + b  BY <1>3, <1>9, <1>10, AllSums
  <2>3. SumOver(Held(house')) = SumOver(Held(house)) + 0 /\ SumOver(Owed(pending')) = SumOver(Owed(pending)) + 0
    BY AllSums DEF auctionVars
  <2>4. taken'.money = taken.money + x  BY <1>5, <1>10 DEF BooksInv
  <2> HIDE DEF b
  <2> QED  BY <1>11, <2>1, <2>2, <2>3, <2>4, Balanced
<1>13. Lots'  BY DEF BooksInv, Lots, InHouse, auctionVars
<1>14. Settled'  BY <1>1, <1>4, <1>11, SettledKept DEF BooksInv
<1> QED  BY <1>12, <1>13, <1>14 DEF BooksInv

\* The price of an item is sent to who asked for it.
LEMMA TakeItemBooks ==
    ASSUME IInv, IInv', BooksInv, NEW p \in Players, NEW i \in MailIds, MailTakeItem(p, i),
           UNCHANGED auctionVars
    PROVE  BooksInv'
<1> DEFINE m == mails[i]
<1> DEFINE cod == m.cod
<1> DEFINE payment == Letter("normal", p, m.from, NoItem, cod, 0, "codpaid")
<1> DEFINE new == <<payment>>
<1> DEFINE rest == [j \in {i} |-> Remains([m EXCEPT !.item = NoItem, !.cod = 0])]
<1> DEFINE paid == Over(SendMails(new), mails)
<1> DEFINE left == Over(rest, paid)
<1> DEFINE del == DOMAIN SaveMail(p)
<1> DEFINE x == SumOver([n \in del |-> mails[n].money])
<1> DEFINE change == Over(Over(SaveMail(p), rest), SendMails(new))
<1>1. Stored /\ mails \in Box /\ mails' \in Box /\ money \in Purse /\ erased \subseteq MailIds
  BY DEF IInv, Stored, Bookkeeping
<1>2. m # NoMail /\ i \notin erased  BY DEF MailTakeItem, Opens
<1>3. m \in Letters /\ cod \in Nat /\ m.money \in Nat
  <2>1. m \in Letters  BY <1>1, <1>2, OpenMail
  <2> QED  BY <2>1 DEF Letters
<1>4. /\ Free(1) /\ money[p] >= cod
      /\ money' = Debit(money, p, cod)
      /\ Commit({p}, {p}, change)
      /\ Take(0, DOMAIN SaveMail(p))
      /\ UNCHANGED status
  BY DEF MailTakeItem, HasEnoughMoney
<1>5. taken'.money = taken.money + 0 + x  BY <1>4 DEF Take
<1>6. DOMAIN rest = {i} /\ rest[i] \in Letters \cup {NoMail}
      /\ (IF rest[i] = NoMail THEN m.money = 0 ELSE rest[i].money = m.money)
  <2> DEFINE a == [m EXCEPT !.item = NoItem, !.cod = 0]
  <2>1. a.money = m.money /\ a \in Letters  BY <1>3 DEF Letters
  <2>2. Remains(a) \in Letters \cup {NoMail}  BY <1>3, RemainsOfMail
  <2>3. a # NoMail  BY <2>1, LettersAreMails
  <2>4. DOMAIN rest = {i} /\ rest[i] = Remains(a)  OBVIOUS
  <2> HIDE DEF a, rest
  <2>5. Remains(a) = IF a.item = NoItem /\ a.money = 0 THEN NoMail ELSE a  BY DEF Remains
  <2> QED  BY <2>1, <2>2, <2>3, <2>4, <2>5
<1>7. paid \in Box /\ SumOver(Carried(paid)) = SumOver(Carried(mails)) + cod
      /\ \A n \in MailIds : mails[n] # NoMail => paid[n] = mails[n]
  <2>1. payment.item = NoItem /\ payment.money = cod  BY DEF Letter
  <2>2. CASE m.type = "auction"
    <3>1. cod = 0  BY <1>3, <2>2 DEF Letters
    <3> HIDE DEF payment, cod
    <3>2. Carrying(new) = {}  BY <2>1, <3>1 DEF Carrying
    <3> HIDE DEF new
    <3>3. paid = mails  BY <1>1, <3>2, NoneAreSent
    <3> QED  BY <1>1, <3>1, <3>3, AllSums
  <2>3. CASE m.type = "normal"
    <3>1. payment \in Letters  BY <1>3, <2>3 DEF Letter, Letters
    <3> HIDE DEF payment
    <3>2. new \in Seq(Letters) /\ Len(new) = 1 /\ SumOver(Postings(new)) = cod
      BY <2>1, <3>1, PostedOne
    <3> HIDE DEF new
    <3>3. Free(Len(new))  BY <1>4, <3>2
    <3>4. paid \in Box /\ \A n \in MailIds : paid[n] =
             IF n \in DOMAIN SendMails(new) THEN SendMails(new)[n] ELSE mails[n]
      BY <1>1, <3>2, <3>3, SentBox
    <3>5. DOMAIN SendMails(new) \subseteq FreeIds  BY <3>2, <3>3, SentIsChange
    <3>6. \A n \in MailIds : mails[n] # NoMail => paid[n] = mails[n]  BY <3>4, <3>5 DEF FreeIds
    <3> QED  BY <1>1, <3>2, <3>3, <3>4, <3>6, SentSum
  <2>4. m.type \in {"normal", "auction"}  BY <1>3 DEF Letters
  <2> QED  BY <2>2, <2>3, <2>4
<1>8. mails' = Over(SaveMail(p), left)
  <2>1. mails' = Over(change, mails)  BY <1>4 DEF Commit
  <2>2. Over(change, mails) = Over(Over(SaveMail(p), rest), paid)  BY OverOver
  <2> QED  BY <2>1, <2>2, OverOver
<1> HIDE DEF rest, paid, new, payment
<1>9. left \in Box /\ \A n \in MailIds : left[n] = IF n = i THEN rest[i] ELSE paid[n]
  <2>1. DOMAIN rest \subseteq MailIds /\ \A n \in DOMAIN rest : rest[n] \in Letters \cup {NoMail}
    BY <1>6
  <2> QED  BY <1>6, <1>7, <2>1, OverBox
<1> HIDE DEF left
<1>10. SumOver(Carried(left)) = SumOver(Carried(paid))
  <2>1. Carried(paid)[i] = m.money /\ Carried(left)[i] = m.money
    BY <1>2, <1>6, <1>7, <1>9, BoxSums
  <2>2. SumOver(Carried(left)) = SumOver(Carried(paid)) - Carried(paid)[i] + Carried(left)[i]
    BY <1>7, <1>9, BoxChange
  <2>3. SumOver(Carried(paid)) \in Nat  BY <1>7, BoxSums
  <2> QED  BY <1>3, <2>1, <2>2, <2>3
<1>11. x \in Nat /\ SumOver(Carried(mails')) = SumOver(Carried(left)) - x
  <2>1. \A n \in MailIds : mails'[n] = IF n \in del THEN NoMail ELSE left[n]
    BY <1>1, <1>8, <1>9, SavedMails
  <2>2. del \in SUBSET MailIds /\ i \notin del /\ \A n \in del : mails[n] # NoMail
    BY <1>1, <1>2, SaveMailIs
  <2> HIDE DEF del
  <2>3. \A n \in del : left[n] = mails[n]  BY <1>7, <1>9, <2>2
  <2> QED  BY <1>1, <1>9, <2>1, <2>2, <2>3, BoxCleared
<1>12. SumOver(money') = SumOver(money) - cod /\ \A r \in Players : r # p => money'[r] = money[r]
  BY <1>1, <1>3, <1>4, DebitSum, DebitIs
<1> HIDE DEF x, cod
<1>13. MoneyBalances' /\ taken'.money \in Int
  <2> DEFINE a == -cod
  <2> DEFINE b == cod - x
  <2>1. a \in Int /\ b \in Int /\ 0 \in Int /\ x \in Int /\ a + b + 0 + x = Deposit * 0
    BY <1>3, <1>11, AuctionAssumption
  <2>2. SumOver(Carried(mails')) = SumOver(Carried(mails)) + b
    BY <1>3, <1>7, <1>10, <1>11, AllSums
  <2>3. SumOver(Held(house')) = SumOver(Held(house)) + 0 /\ SumOver(Owed(pending')) = SumOver(Owed(pending)) + 0
    BY AllSums DEF auctionVars
  <2>4. taken'.money = taken.money + x  BY <1>5, <1>11 DEF BooksInv
  <2>5. SumOver(money') = SumOver(money) + a  BY <1>3, <1>12, AllSums
  <2> HIDE DEF a, b
  <2> QED  BY <2>1, <2>2, <2>3, <2>4, <2>5, Balanced
<1>14. Lots'  BY DEF BooksInv, Lots, InHouse, auctionVars
<1>15. Settled'  BY <1>1, <1>4, <1>12, SettledKept DEF BooksInv
<1> QED  BY <1>13, <1>14, <1>15 DEF BooksInv

\* A new auction owes its deposit.
LEMMA SellBooks ==
    ASSUME IInv, IInv', BooksInv, NEW p \in Players, NEW i \in Items,
           NEW startbid \in Prices, NEW buyout \in Buyouts, AuctionSellItem(p, i, startbid, buyout)
    PROVE  BooksInv'
<1> DEFINE new == [owner |-> p, startbid |-> startbid, buyout |-> buyout,
                   bidder |-> NoItem, bid |-> 0, deposit |-> Deposit]
<1> DEFINE list == pending[p].auctions
<1> DEFINE longer == Append(list, i)
<1>1. /\ house[i] = NoAuction /\ house' = [house EXCEPT ![i] = new]
      /\ pending' = [pending EXCEPT ![p].auctions = longer]
      /\ Commit({p}, {p}, Nothing)
      /\ UNCHANGED <<money, status, taken>>
  BY DEF AuctionSellItem, InHouse
<1>2. Stored /\ money \in Purse /\ house \in House /\ house' \in House
      /\ pending \in [Players -> Adding] /\ pending' \in [Players -> Adding]
  BY DEF IInv, Stored, HouseInv
<1>3. new.bid = 0 /\ new.deposit = Deposit /\ new.bidder = NoItem /\ new.owner = p  OBVIOUS
<1>4. p # NoItem /\ Deposit \in Nat  BY HoldingsAssumption, AuctionAssumption
<1> HIDE DEF new
<1>5. house'[i] = new /\ \A j \in Items : j # i => house'[j] = house[j]  BY <1>1, <1>2 DEF House
<1>6. house'[i] # NoAuction
  <2>1. InHouse(i)'  BY SellKeepsHouse DEF IInv
  <2> QED  BY <2>1 DEF InHouse
<1>7. SumOver(Held(house')) = SumOver(Held(house)) + Deposit
  <2>1. Held(house)[i] = 0 /\ Held(house')[i] = Deposit
    <3>1. Held(house)[i] = 0  BY <1>1, <1>2, HouseSums
    <3>2. Held(house')[i] = house'[i].bid + house'[i].deposit  BY <1>2, <1>6, HouseSums
    <3>3. house'[i].bid = 0 /\ house'[i].deposit = Deposit  BY <1>3, <1>5
    <3> QED  BY <1>4, <3>1, <3>2, <3>3
  <2>2. SumOver(Held(house')) = SumOver(Held(house)) - Held(house)[i] + Held(house')[i]
    BY <1>2, <1>5, HouseChange
  <2> QED  BY <1>4, <2>1, <2>2, AllSums
<1>8. SumOver(Owed(pending')) = SumOver(Owed(pending)) + 1
  <2>1. list \in Seq(Items \cup {Dangling})  BY <1>2 DEF Adding
  <2>2. Len(list) \in Nat /\ Len(longer) = Len(list) + 1  BY <2>1
  <2> HIDE DEF longer
  <2>3. pending'[p].auctions = longer /\ \A q \in Players : q # p => pending'[q] = pending[q]
    BY <1>1, <1>2 DEF Adding
  <2>4. Owed(pending)[p] = Len(list) /\ Owed(pending')[p] = Len(longer)
        /\ \A q \in Players : q # p => Owed(pending')[q] = Owed(pending)[q]
    BY <2>3 DEF Owed
  <2>5. SumOver(Owed(pending')) = SumOver(Owed(pending)) - Owed(pending)[p] + Owed(pending')[p]
    <3>1. Owed(pending) \in [Players -> Nat] /\ Owed(pending') \in [Players -> Nat]
          /\ IsFiniteSet(Players)
      BY <1>2, HoldingsAssumption, DebtSums
    <3> QED  BY <2>4, <3>1, SumChange
  <2> QED  BY <2>2, <2>4, <2>5, AllSums
<1>9. mails' = mails
  <2>1. mails' = Over(Nothing, mails)  BY <1>1 DEF Commit
  <2> QED  BY <1>2, <2>1, NothingIsSent
<1>10. MoneyBalances' /\ taken'.money \in Int
  <2>1. Deposit \in Int /\ 0 \in Int /\ 1 \in Int /\ 0 + 0 + Deposit + 0 = Deposit * 1  BY <1>4
  <2>2. SumOver(money') = SumOver(money) + 0 /\ SumOver(Carried(mails')) = SumOver(Carried(mails)) + 0
        /\ taken'.money = taken.money + 0
    BY <1>1, <1>9, AllSums DEF BooksInv
  <2> QED  BY <1>7, <1>8, <2>1, <2>2, Balanced
<1>11. Lots'
  <2>1. ASSUME NEW j \in Items, house'[j] # NoAuction
        PROVE  /\ house'[j].deposit = Deposit /\ house'[j].bidder # house'[j].owner
               /\ (house'[j].bidder = NoItem => house'[j].bid = 0)
    <3>1. CASE j = i  BY <1>3, <1>4, <1>5, <3>1
    <3>2. CASE j # i  BY <1>5, <2>1, <3>2 DEF BooksInv, Lots, InHouse
    <3> QED  BY <3>1, <3>2
  <2> QED  BY <2>1 DEF Lots, InHouse
<1>12. Settled'  BY <1>1, <1>2, SettledKept DEF BooksInv
<1> QED  BY <1>10, <1>11, <1>12 DEF BooksInv

\* An auction that ends: what it held is sent, paid back, or kept by the realm.
LEMMA EndBooks ==
    ASSUME IInv, IInv', BooksInv, NEW i \in Items, InHouse(i), RemoveAuction(i),
           NEW new, SendsLast(new, i), Free(Len(new)), NEW gold, NEW inventory,
           Commit(gold, inventory, SendMails(new)), UNCHANGED status,
           \A r \in Players : r \notin gold => money'[r] = money[r],
           NEW paid \in Nat, SumOver(money') = SumOver(money) - paid,
           NEW fee \in Nat, Take(fee, {}),
           SumOver(Postings(new)) + fee = paid + house[i].bid + house[i].deposit
    PROVE  BooksInv'
<1> DEFINE a == house[i]
<1> DEFINE o == a.owner
<1> DEFINE list == pending[o].auctions
<1> DEFINE struck == [k \in DOMAIN list |-> IF list[k] = i THEN Dangling ELSE list[k]]
<1>1. Stored /\ mails \in Box /\ house \in House /\ house' \in House
      /\ pending \in [Players -> Adding] /\ pending' \in [Players -> Adding]
  BY DEF IInv, Stored, HouseInv
<1>2. a \in Auctions  BY AuctionIs DEF IInv
<1>3. a.bid \in Nat /\ a.deposit \in Nat /\ o \in Players /\ a # NoAuction
  BY <1>2, AuctionAssumption DEF Auctions
<1>4. house' = [house EXCEPT ![i] = NoAuction] /\ pending' = [pending EXCEPT ![o].auctions = struck]
  BY <1>1, <1>3 DEF RemoveAuction
<1>5. house'[i] = NoAuction /\ \A j \in Items : j # i => house'[j] = house[j]  BY <1>1, <1>4 DEF House
<1> DEFINE h == a.bid + a.deposit
<1>6. SumOver(Held(house')) = SumOver(Held(house)) - h
  <2>1. Held(house)[i] = h /\ Held(house')[i] = 0  BY <1>1, <1>3, <1>5, HouseSums
  <2>2. SumOver(Held(house')) = SumOver(Held(house)) - Held(house)[i] + Held(house')[i]
    BY <1>1, <1>5, HouseChange
  <2> QED  BY <1>3, <2>1, <2>2, AllSums
<1>7. Owed(pending') = Owed(pending)
  <2>1. list \in Seq(Items \cup {Dangling})  BY <1>1, <1>3 DEF Adding
  <2>2. Len(struck) = Len(list)  BY <2>1
  <2> HIDE DEF struck
  <2>3. pending'[o].auctions = struck /\ \A q \in Players : q # o => pending'[q] = pending[q]
    BY <1>1, <1>3, <1>4 DEF Adding
  <2> QED  BY <2>2, <2>3 DEF Owed
<1> DEFINE x == SumOver(Postings(new))
<1>8. new \in Seq(Letters)  BY DEF SendsLast
<1>9. x \in Nat /\ SumOver(Carried(mails')) = SumOver(Carried(mails)) + x
  <2>1. mails' = Over(SendMails(new), mails)  BY DEF Commit
  <2> QED  BY <1>1, <1>8, <2>1, SentSum, PostingsAre
<1>10. taken'.money = taken.money + fee  BY FeeOnly DEF BooksInv
<1>11. x + fee = paid + a.bid + a.deposit  OBVIOUS
<1>12. SumOver(money') = SumOver(money) - paid  OBVIOUS
<1> HIDE DEF x, a
<1>13. MoneyBalances' /\ taken'.money \in Int
  <2> DEFINE b == -paid
  <2> DEFINE c == -h
  <2>1. b \in Int /\ x \in Int /\ c \in Int /\ 0 \in Int /\ fee \in Int /\ b + x + c + fee = Deposit * 0
    BY <1>3, <1>9, <1>11, AuctionAssumption
  <2>2. SumOver(money') = SumOver(money) + b  BY <1>12, AllSums
  <2>3. SumOver(Held(house')) = SumOver(Held(house)) + c  BY <1>3, <1>6, AllSums
  <2>4. SumOver(Owed(pending')) = SumOver(Owed(pending)) + 0  BY <1>7, AllSums
  <2> HIDE DEF b, c, h
  <2> QED  BY <1>9, <1>10, <2>1, <2>2, <2>3, <2>4, Balanced
<1>14. Lots'  BY <1>5 DEF BooksInv, Lots, InHouse
<1>15. Settled'  BY <1>1, SettledKept DEF BooksInv
<1> QED  BY <1>13, <1>14, <1>15 DEF BooksInv

\* A bidder can pay what he owes; nobody bids on his own.
LEMMA BidIs ==
    ASSUME IInv, BooksInv, NEW p \in Players, NEW i \in Items, NEW price \in Nat, MayBid(p, i, price),
           NEW bid \in Nat, bid > house[i].bid, bid <= price
    PROVE  /\ InHouse(i) /\ house[i] \in Auctions /\ house[i].owner # p /\ money \in Purse
           /\ Owes(p, house[i], bid) \in Nat /\ money[p] >= Owes(p, house[i], bid)
           /\ SumOver(Postings(Outbidded(p, house[i]))) \in Nat
           /\ Owes(p, house[i], bid) + house[i].bid =
                SumOver(Postings(Outbidded(p, house[i]))) + bid
<1> DEFINE a == house[i]
<1>1. InHouse(i) /\ a.owner # p /\ money[p] >= price  BY DEF MayBid, HasEnoughMoney
<1>2. a \in Auctions  BY <1>1, AuctionIs DEF IInv
<1>3. money \in Purse  BY DEF IInv, Stored
<1>4. a.bid \in Nat /\ money[p] \in Nat /\ bid > a.bid  BY <1>2, <1>3 DEF Auctions, Purse
<1>5. a.bidder = NoItem => a.bid = 0  BY <1>1 DEF BooksInv, Lots
<1>6. p # NoItem  BY HoldingsAssumption
<1>7. SumOver(Postings(Outbidded(p, a))) = IF a.bidder \in {NoItem, p} THEN 0 ELSE a.bid
  BY <1>2, OutbiddedSum
<1> HIDE DEF a
<1>8. Owes(p, a, bid) = IF a.bidder = p THEN bid - a.bid ELSE bid  BY DEF Owes
<1>9. Owes(p, a, bid) \in Nat /\ Owes(p, a, bid) <= bid  BY <1>4, <1>8
<1>10. money[p] >= Owes(p, a, bid)  BY <1>1, <1>4, <1>9
<1>11. Owes(p, a, bid) + a.bid = SumOver(Postings(Outbidded(p, a))) + bid
  BY <1>4, <1>5, <1>6, <1>7, <1>8
<1> QED  BY <1>1, <1>2, <1>3, <1>4, <1>7, <1>9, <1>10, <1>11 DEF a

\* The last bidder has his bid back when another is made.
LEMMA PlaceBidBooks ==
    ASSUME IInv, IInv', BooksInv, NEW p \in Players, NEW i \in Items, NEW price \in Prices,
           AuctionPlaceBid(p, i, price)
    PROVE  BooksInv'
<1> DEFINE a == house[i]
<1> DEFINE bid == [a EXCEPT !.bidder = p, !.bid = price]
<1> DEFINE outbid == Outbidded(p, a)
<1> DEFINE due == Owes(p, a, price)
<1> DEFINE x == SumOver(Postings(outbid))
<1>1. Stored /\ mails \in Box /\ house \in House /\ house' \in House  BY DEF IInv, Stored, HouseInv
<1>2. /\ MayBid(p, i, price) /\ Free(Len(outbid))
      /\ money' = Debit(money, p, due)
      /\ house' = [house EXCEPT ![i] = bid]
      /\ Commit({p}, {p}, SendMails(outbid))
      /\ UNCHANGED <<status, taken, pending>>
  BY DEF AuctionPlaceBid
<1>3. price \in Nat /\ price > a.bid  BY <1>2, AuctionAssumption DEF MayBid
<1>4. /\ InHouse(i) /\ a \in Auctions /\ a.owner # p /\ money \in Purse
      /\ due \in Nat /\ money[p] >= due /\ x \in Nat /\ due + a.bid = x + price
  BY <1>2, <1>3, BidIs
<1>5. a.bid \in Nat /\ a.deposit \in Nat  BY <1>4 DEF Auctions
<1>6. bid.bidder = p /\ bid.bid = price /\ bid.owner = a.owner /\ bid.deposit = a.deposit
      /\ bid \in Auctions
  BY <1>3, <1>4 DEF Auctions
<1>7. bid # NoAuction /\ a # NoAuction  BY <1>4, <1>6, AuctionAssumption DEF InHouse
<1>8. outbid \in Seq(Letters)  BY <1>4, OutbiddedIs
<1> HIDE DEF bid
<1>9. house'[i] = bid /\ \A j \in Items : j # i => house'[j] = house[j]  BY <1>1, <1>2 DEF House
<1> HIDE DEF outbid, due, x, a
<1>10. SumOver(Held(house')) = SumOver(Held(house)) + (price - a.bid)
  <2>1. Held(house)[i] = a.bid + a.deposit  BY <1>1, <1>7, HouseSums DEF a
  <2>2. Held(house')[i] = price + a.deposit  BY <1>1, <1>6, <1>7, <1>9, HouseSums
  <2>3. SumOver(Held(house')) = SumOver(Held(house)) - Held(house)[i] + Held(house')[i]
    BY <1>1, <1>9, HouseChange
  <2> QED  BY <1>3, <1>5, <2>1, <2>2, <2>3, AllSums
<1>11. SumOver(money') = SumOver(money) - due /\ \A r \in Players : r # p => money'[r] = money[r]
  BY <1>2, <1>4, DebitSum, DebitIs
<1>12. SumOver(Carried(mails')) = SumOver(Carried(mails)) + x
  <2>1. mails' = Over(SendMails(outbid), mails)  BY <1>2 DEF Commit
  <2> QED  BY <1>1, <1>2, <1>8, <2>1, SentSum DEF x
<1>13. MoneyBalances' /\ taken'.money \in Int
  <2> DEFINE d == -due
  <2> DEFINE c == price - a.bid
  <2>1. d \in Int /\ x \in Int /\ c \in Int /\ 0 \in Int /\ d + x + c + 0 = Deposit * 0
    BY <1>3, <1>4, <1>5, AuctionAssumption
  <2>2. SumOver(money') = SumOver(money) + d  BY <1>4, <1>11, AllSums
  <2>3. SumOver(Owed(pending')) = SumOver(Owed(pending)) + 0  BY <1>2, AllSums
  <2>4. taken'.money = taken.money + 0  BY <1>2 DEF BooksInv
  <2>5. SumOver(Held(house')) = SumOver(Held(house)) + c  BY <1>10
  <2> HIDE DEF d, c
  <2> QED  BY <1>12, <2>1, <2>2, <2>3, <2>4, <2>5, Balanced
<1>14. Lots'
  <2>1. ASSUME NEW j \in Items, house'[j] # NoAuction
        PROVE  /\ house'[j].deposit = Deposit /\ house'[j].bidder # house'[j].owner
               /\ (house'[j].bidder = NoItem => house'[j].bid = 0)
    <3>1. CASE j = i
      <4>1. a.deposit = Deposit  BY <1>4 DEF BooksInv, Lots, a
      <4>2. p # NoItem  BY HoldingsAssumption
      <4> QED  BY <1>4, <1>6, <1>9, <3>1, <4>1, <4>2
    <3>2. CASE j # i  BY <1>9, <2>1, <3>2 DEF BooksInv, Lots, InHouse
    <3> QED  BY <3>1, <3>2
  <2> QED  BY <2>1 DEF Lots, InHouse
<1>15. Settled'  BY <1>1, <1>2, <1>11, SettledKept DEF BooksInv
<1> QED  BY <1>13, <1>14, <1>15 DEF BooksInv

\* The buyer pays the price, the owner gets it with his deposit, less the cut.
LEMMA BuyoutBooks ==
    ASSUME IInv, IInv', BooksInv, NEW p \in Players, NEW i \in Items, NEW price \in Prices,
           AuctionBuyout(p, i, price)
    PROVE  BooksInv'
<1> DEFINE a == house[i]
<1> DEFINE bought == [a EXCEPT !.bidder = p, !.bid = a.buyout]
<1> DEFINE first == Outbidded(p, a)
<1> DEFINE second == Sold(bought, i)
<1> DEFINE sent == first \o second
<1> DEFINE due == Owes(p, a, a.buyout)
<1> DEFINE cut == Cut(bought)
<1>1. /\ MayBid(p, i, price) /\ a.buyout # 0 /\ a.buyout <= price
      /\ Free(Len(sent))
      /\ money' = Debit(money, p, due)
      /\ Commit({p}, {p}, SendMails(sent))
      /\ RemoveAuction(i)
      /\ Take(cut, {})
      /\ UNCHANGED status
  <2>1. price \in Nat  BY AuctionAssumption
  <2>2. house[i] \in Auctions  BY AuctionIs DEF IInv, AuctionBuyout, MayBid
  <2>3. a.buyout \in Nat  BY <2>2 DEF Auctions
  <2>4. price >= a.buyout  BY DEF AuctionBuyout
  <2>5. a.buyout <= price  BY <2>1, <2>3, <2>4
  <2> QED  BY <2>5 DEF AuctionBuyout
<1>2. price \in Nat /\ InHouse(i)  BY <1>1, AuctionAssumption DEF MayBid
<1>3. a \in Auctions  BY <1>2, AuctionIs DEF IInv
<1>4. a.buyout \in Nat /\ a.buyout > a.bid /\ a.bid \in Nat /\ a.deposit \in Nat
  <2>1. a.bid < a.buyout  BY <1>1, <1>2 DEF IInv, HouseInv
  <2> QED  BY <1>3, <2>1 DEF Auctions
<1>5. /\ money \in Purse /\ due \in Nat /\ money[p] >= due
      /\ SumOver(Postings(first)) \in Nat /\ due + a.bid = SumOver(Postings(first)) + a.buyout
  BY <1>1, <1>2, <1>4, BidIs
<1>6. bought \in Auctions /\ bought.bidder # NoItem /\ bought.bid = a.buyout /\ bought.deposit = a.deposit
  BY <1>3, <1>4, HoldingsAssumption DEF Auctions
<1> HIDE DEF bought
<1>7. SumOver(Postings(second)) = a.buyout + a.deposit - cut /\ cut \in Nat
  BY <1>6, SoldSum
<1>8. first \in Seq(Letters) /\ second \in Seq(Letters) /\ SendsLast(sent, i)
  <2>1. first \in Seq(Letters) /\ \A k \in DOMAIN first : first[k].item = NoItem
    BY <1>3, OutbiddedIs
  <2>2. SendsLast(second, i) /\ second \in Seq(Letters)  BY <1>6, SoldSends DEF SendsLast
  <2> HIDE DEF first, second
  <2>3. SendsLast(sent, i)  BY <2>1, <2>2, LastOfTwoParts
  <2> QED  BY <2>1, <2>2, <2>3
<1> HIDE DEF first, second, due, cut, a
<1>9. SumOver(Postings(sent)) = SumOver(Postings(first)) + SumOver(Postings(second))
  BY <1>8, PostedBoth
<1>10. SumOver(money') = SumOver(money) - due /\ \A r \in Players : r # p => money'[r] = money[r]
  BY <1>1, <1>5, DebitSum, DebitIs
<1>11. SumOver(Postings(sent)) + cut = due + a.bid + a.deposit
  BY <1>4, <1>5, <1>7, <1>9
<1>12. \A r \in Players : r \notin {p} => money'[r] = money[r]  BY <1>10
<1>13. SumOver(Postings(sent)) + cut = due + house[i].bid + house[i].deposit  BY <1>11 DEF a
<1> HIDE DEF sent
<1> QED  BY <1>1, <1>2, <1>5, <1>7, <1>8, <1>10, <1>12, <1>13, EndBooks

\* The owner pays the cut of a bid, the bidder has it back, the deposit is lost.
LEMMA RemoveItemBooks ==
    ASSUME IInv, IInv', BooksInv, NEW p \in Players, NEW i \in Items, AuctionRemoveItem(p, i)
    PROVE  BooksInv'
<1> DEFINE a == house[i]
<1> DEFINE fee == IF a.bidder # NoItem THEN Cut(a) ELSE 0
<1> DEFINE first == Outbidded(p, a)
<1> DEFINE letter == AuctionMail(p, i, 0)
<1> DEFINE second == <<letter>>
<1> DEFINE sent == first \o second
<1> DEFINE all == fee + a.deposit
<1>1. /\ InHouse(i) /\ a.owner = p /\ money[p] >= fee
      /\ Free(Len(sent))
      /\ money' = Debit(money, p, fee)
      /\ Commit({p}, {p}, SendMails(sent))
      /\ RemoveAuction(i)
      /\ Take(all, {})
      /\ UNCHANGED status
  BY DEF AuctionRemoveItem, HasEnoughMoney
<1>2. a \in Auctions  BY <1>1, AuctionIs DEF IInv
<1>3. fee \in Nat /\ a.bid \in Nat /\ a.deposit \in Nat /\ money \in Purse
  BY <1>2, CutIs DEF Auctions, IInv, Stored
<1> HIDE DEF fee
<1>4. SumOver(Postings(first)) = a.bid
  <2>1. a.bidder # p /\ (a.bidder = NoItem => a.bid = 0)  BY <1>1 DEF BooksInv, Lots
  <2> QED  BY <1>2, <2>1, OutbiddedSum
<1>5. letter \in Letters /\ letter.item = i /\ SumOver(Postings(second)) = 0
  BY AuctionMailIs, LetterSum
<1>6. first \in Seq(Letters) /\ second \in Seq(Letters) /\ SendsLast(sent, i)
  <2>1. first \in Seq(Letters) /\ \A k \in DOMAIN first : first[k].item = NoItem
    BY <1>2, OutbiddedIs
  <2> HIDE DEF letter
  <2>2. second \in Seq(Letters) /\ SendsLast(second, i)  BY <1>5 DEF SendsLast
  <2> HIDE DEF first, second
  <2>3. SendsLast(sent, i)  BY <2>1, <2>2, LastOfTwoParts
  <2> QED  BY <2>1, <2>2, <2>3
<1> HIDE DEF first, second, a
<1>7. SumOver(Postings(sent)) = SumOver(Postings(first)) + SumOver(Postings(second))
  BY <1>6, PostedBoth
<1>8. SumOver(money') = SumOver(money) - fee /\ \A r \in Players : r # p => money'[r] = money[r]
  BY <1>1, <1>3, DebitSum, DebitIs
<1>9. all \in Nat /\ SumOver(Postings(sent)) + all = fee + a.bid + a.deposit
  BY <1>3, <1>4, <1>5, <1>7
<1>10. SumOver(Postings(sent)) + all = fee + house[i].bid + house[i].deposit  BY <1>9 DEF a
<1>11. \A r \in Players : r \notin {p} => money'[r] = money[r]  BY <1>8
<1> HIDE DEF sent, all
<1> QED  BY <1>1, <1>3, <1>6, <1>8, <1>9, <1>10, <1>11, EndBooks

\* An auction that expires pays the owner if it was sold.
LEMMA AuctionExpireBooks ==
    ASSUME IInv, IInv', BooksInv, NEW i \in Items, AuctionExpire(i)
    PROVE  BooksInv'
<1> DEFINE a == house[i]
<1> DEFINE sold == a.bidder # NoItem
<1> DEFINE sent == IF sold THEN Sold(a, i) ELSE <<AuctionMail(a.owner, i, 0)>>
<1> DEFINE fee == IF sold THEN Cut(a) ELSE a.deposit
<1>1. /\ InHouse(i) /\ Free(Len(sent))
      /\ Commit({}, {}, SendMails(sent))
      /\ RemoveAuction(i)
      /\ Take(fee, {})
      /\ UNCHANGED <<money, status>>
  BY DEF AuctionExpire
<1>2. a \in Auctions  BY <1>1, AuctionIs DEF IInv
<1>3. a.bid \in Nat /\ a.deposit \in Nat /\ a.owner \in Players  BY <1>2 DEF Auctions
<1>4. SendsLast(sent, i) /\ fee \in Nat /\ SumOver(Postings(sent)) + fee = 0 + a.bid + a.deposit
  <2>1. CASE sold
    <3>1. SumOver(Postings(Sold(a, i))) = a.bid + a.deposit - Cut(a) /\ Cut(a) \in Nat
      BY <1>2, <2>1, SoldSum
    <3>2. SendsLast(Sold(a, i), i)  BY <1>2, <2>1, SoldSends
    <3>3. sent = Sold(a, i) /\ fee = Cut(a)  BY <2>1
    <3> HIDE DEF sent, fee, a
    <3> QED  BY <1>3, <3>1, <3>2, <3>3
  <2>2. CASE ~sold
    <3> DEFINE letter == AuctionMail(a.owner, i, 0)
    <3>1. letter \in Letters /\ letter.item = i /\ SumOver(Postings(<<letter>>)) = 0
      BY <1>3, AuctionMailIs, LetterSum
    <3>2. a.bid = 0  BY <1>1, <2>2 DEF BooksInv, Lots
    <3>3. sent = <<letter>> /\ fee = a.deposit  BY <2>2
    <3> HIDE DEF letter, sent, fee, a
    <3>4. SendsLast(<<letter>>, i)  BY <3>1 DEF SendsLast
    <3> QED  BY <1>3, <3>1, <3>2, <3>3, <3>4
  <2> QED  BY <2>1, <2>2
<1>5. SumOver(money') = SumOver(money) - 0  BY <1>1, AllSums
<1> DEFINE none == {}
<1>6. \A r \in Players : r \notin none => money'[r] = money[r]  BY <1>1
<1>7. Commit(none, none, SendMails(sent))  BY <1>1
<1>8. SumOver(Postings(sent)) + fee = 0 + house[i].bid + house[i].deposit /\ 0 \in Nat /\ UNCHANGED status
  BY <1>1, <1>4
<1> HIDE DEF sent, fee, none
<1> QED  BY <1>1, <1>4, <1>5, <1>6, <1>7, <1>8, EndBooks

\* The seller of pending auctions owes nothing any more.
LEMMA Cleared ==
    ASSUME HouseInv, NEW p \in Players,
           pending' = [pending EXCEPT ![p] = [auctions |-> <<>>, count |-> 0]]
    PROVE  /\ Len(pending[p].auctions) \in Nat
           /\ SumOver(Owed(pending')) = SumOver(Owed(pending)) - Len(pending[p].auctions)
<1> DEFINE n == Len(pending[p].auctions)
<1>1. pending \in [Players -> Adding] /\ pending' \in [Players -> Adding]
  <2>1. [auctions |-> <<>>, count |-> 0] \in Adding  BY DEF Adding
  <2>2. pending \in [Players -> Adding]  BY DEF HouseInv
  <2> QED  BY <2>1, <2>2
<1>2. Owed(pending) \in [Players -> Nat] /\ Owed(pending') \in [Players -> Nat]
      /\ IsFiniteSet(Players) /\ SumOver(Owed(pending)) \in Nat
  BY <1>1, DebtSums, HoldingsAssumption
<1>3. Owed(pending)[p] = n /\ Owed(pending')[p] = 0
      /\ \A q \in Players : q # p => Owed(pending')[q] = Owed(pending)[q]
  BY <1>1 DEF Owed
<1>4. n \in Nat  BY <1>2, <1>3
<1> DEFINE f == Owed(pending)
<1> DEFINE g == Owed(pending')
<1>5. f \in [Players -> Nat] /\ g \in [Players -> Nat] /\ IsFiniteSet(Players)  BY <1>2
<1>6. f[p] = n /\ g[p] = 0 /\ \A q \in Players : q # p => g[q] = f[q]  BY <1>3
<1>7. SumOver(f) \in Nat  BY <1>2
<1> HIDE DEF f, g, n
<1>8. SumOver(g) = SumOver(f) - f[p] + g[p]  BY <1>5, <1>6, SumChange
<1>9. SumOver(g) = SumOver(f) - n  BY <1>4, <1>6, <1>7, <1>8
<1> QED  BY <1>4, <1>9 DEF f, g, n

\* The seller pays his deposits, or what he has left of them.
LEMMA ProcessBooks ==
    ASSUME IInv, IInv', BooksInv, NEW p \in Players, PendingAuctionProcess(p)
    PROVE  BooksInv'
<1> DEFINE list == pending[p].auctions
<1> DEFINE n == Len(list)
<1> DEFINE at(i) == {k \in DOMAIN list : list[k] = i}
<1> DEFINE share(i) == Shares(n)[CHOOSE k \in at(i) : TRUE]
<1> DEFINE amount == Deposit * n
<1> DEFINE gone == money[p] - money'[p]
<1> DEFINE t == gone - amount
<1>1. /\ n > 0 /\ Dangling \notin Range(list) /\ Online(p)
      /\ house' = [i \in Items |-> IF at(i) = {} THEN house[i]
                                   ELSE [house[i] EXCEPT !.deposit = share(i)]]
      /\ pending' = [pending EXCEPT ![p] = [auctions |-> <<>>, count |-> 0]]
      /\ money' = Debit(money, p, amount)
      /\ Take(t, {})
      /\ UNCHANGED <<status, mails, disk>>
  BY DEF PendingAuctionProcess
<1>2. HouseInv /\ house \in House /\ money \in Purse /\ pending \in [Players -> Adding]
  BY DEF IInv, HouseInv, Stored
<1>3. list \in Seq(Items \cup {Dangling})  BY <1>2 DEF Adding
<1>4. n \in Nat /\ n # 0 /\ DOMAIN list = 1..n  BY <1>1, <1>3
<1>5. ASSUME NEW i \in Items, at(i) # {}
      PROVE  [house[i] EXCEPT !.deposit = share(i)] = house[i]
  <2>1. PICK k \in DOMAIN list : list[k] = i  BY <1>5
  <2>2. i # Dangling  BY AuctionAssumption
  <2>3. house[i] \in Auctions  BY <1>2, <2>1, <2>2, PendingIs
  <2>4. (CHOOSE x \in at(i) : TRUE) \in 1..n  BY <1>4, <1>5
  <2>5. \A x \in 1..n : Shares(n)[x] = Deposit  BY <1>4, SharesAre
  <2>6. share(i) = Deposit  BY <2>4, <2>5
  <2>7. house[i].deposit = Deposit
    <3>1. house[i] # NoAuction  BY <2>3, AuctionAssumption
    <3> QED  BY <3>1 DEF BooksInv, Lots, InHouse
  <2> HIDE DEF share, at
  <2> QED  BY <2>3, <2>6, <2>7 DEF Auctions
<1> HIDE DEF share, at
<1>6. house' = house
  <2>1. house = [i \in Items |-> house[i]]  BY <1>2 DEF House
  <2>2. \A i \in Items : house'[i] = house[i]  BY <1>1, <1>5
  <2> QED  BY <1>1, <2>1, <2>2
<1>7. amount \in Nat  BY <1>4, AuctionAssumption
<1>8. SumOver(Owed(pending')) = SumOver(Owed(pending)) - n  BY <1>1, <1>2, Cleared
<1> HIDE DEF n, list
<1> HIDE DEF amount
<1>9. money' \in Purse /\ \A q \in Players : q # p => money'[q] = money[q]
  BY <1>1, <1>2, <1>7, DebitIs
<1>10. money[p] \in Nat /\ money'[p] \in Nat  BY <1>2, <1>9 DEF Purse
<1>11. SumOver(money') = SumOver(money) - gone
  <2>1. SumOver(money') = SumOver(money) - money[p] + money'[p]
    <3>1. money \in [Players -> Nat] /\ money' \in [Players -> Nat] /\ IsFiniteSet(Players)
      BY <1>2, <1>9, PurseSums
    <3> QED  BY <1>9, <3>1, SumChange
  <2> QED  BY <1>10, <2>1, AllSums
<1>12. t \in Int  BY <1>7, <1>10
<1> HIDE DEF t
<1>13. taken'.money = taken.money + t  BY <1>1, <1>12, FeeOnly DEF BooksInv
<1>14. MoneyBalances' /\ taken'.money \in Int
  <2> DEFINE a == -gone
  <2> DEFINE e == -n
  <2>1. a \in Int /\ 0 \in Int /\ e \in Int /\ t \in Int  BY <1>4, <1>10, <1>12
  <2>2. a + 0 + 0 + t = Deposit * e
    <3> DEFINE d == Deposit
    <3>1. d \in Nat  BY AuctionAssumption
    <3> HIDE DEF d
    <3>2. d * e = -(d * n)  BY <1>4, <3>1
    <3>3. Deposit * e = -amount  BY <3>2 DEF d, amount
    <3> QED  BY <1>7, <1>10, <3>3 DEF t
  <2>3. SumOver(money') = SumOver(money) + a  BY <1>10, <1>11, AllSums
  <2>4. SumOver(Owed(pending')) = SumOver(Owed(pending)) + e  BY <1>4, <1>8, AllSums
  <2>5. SumOver(Carried(mails')) = SumOver(Carried(mails)) + 0
        /\ SumOver(Held(house')) = SumOver(Held(house)) + 0
    BY <1>1, <1>6, AllSums
  <2> HIDE DEF a, e
  <2> QED  BY <1>13, <2>1, <2>2, <2>3, <2>4, <2>5, Balanced
<1>15. Lots'  BY <1>6 DEF BooksInv, Lots, InHouse
<1>16. Settled'  BY <1>1, <1>9 DEF BooksInv, Settled, Online
<1> QED  BY <1>14, <1>15, <1>16 DEF BooksInv

\* A seller who has left never pays: the realm has made his deposits.
LEMMA OfflineBooks ==
    ASSUME IInv, BooksInv, NEW p \in Players, PendingAuctionsOffline(p)
    PROVE  BooksInv'
<1> DEFINE n == Len(pending[p].auctions)
<1> DEFINE t == -Deposit * n
<1>1. /\ pending' = [pending EXCEPT ![p] = [auctions |-> <<>>, count |-> 0]]
      /\ Take(t, {})
      /\ UNCHANGED <<status, money, mails, disk, house>>
  BY DEF PendingAuctionsOffline
<1>2. n \in Nat /\ SumOver(Owed(pending')) = SumOver(Owed(pending)) - n  BY <1>1, Cleared DEF IInv
<1> HIDE DEF n
<1> DEFINE e == -n
<1>3. t \in Int /\ e \in Int /\ 0 + 0 + 0 + t = Deposit * e
  <2> DEFINE d == Deposit
  <2>1. d \in Nat  BY AuctionAssumption
  <2> HIDE DEF d
  <2>2. -d * n \in Int /\ 0 + 0 + 0 + (-d * n) = d * (-n)  BY <1>2, <2>1
  <2> QED  BY <1>2, <2>2 DEF d
<1> HIDE DEF t
<1>4. taken'.money = taken.money + t  BY <1>1, <1>3, FeeOnly DEF BooksInv
<1>5. MoneyBalances' /\ taken'.money \in Int
  <2>1. SumOver(Owed(pending')) = SumOver(Owed(pending)) + e  BY <1>2, AllSums
  <2>2. SumOver(money') = SumOver(money) + 0 /\ SumOver(Carried(mails')) = SumOver(Carried(mails)) + 0
        /\ SumOver(Held(house')) = SumOver(Held(house)) + 0
    BY <1>1, AllSums
  <2>3. 0 \in Int  OBVIOUS
  <2> HIDE DEF e
  <2> QED  BY <1>3, <1>4, <2>1, <2>2, <2>3, Balanced
<1>6. Lots'  BY <1>1 DEF BooksInv, Lots, InHouse
<1>7. Settled'  BY <1>1 DEF BooksInv, Settled, Online
<1> QED  BY <1>5, <1>6, <1>7 DEF BooksInv

\* A crash makes the money that nobody had paid.
LEMMA CrashBooks ==
    ASSUME IInv, BooksInv, Crash
    PROVE  BooksInv'
<1>1. Stored /\ HouseInv /\ Bookkeeping  BY DEF IInv
<1>2. /\ money' = disk.money /\ disk' = disk /\ mails' = disk.mails
      /\ house' = houseRows /\ houseRows = house
      /\ pending' = [p \in Players |-> [auctions |-> <<>>, count |-> 0]]
  BY <1>1 DEF Crash, HouseInv
<1> DEFINE w == Wealth(disk.money, disk.mails, houseRows)
<1>3. w \in Nat
  <2>1. disk.money \in Purse /\ disk.mails \in Box /\ houseRows \in House
    BY <1>1 DEF Stored, HouseInv
  <2>2. SumOver(disk.money) \in Nat /\ SumOver(Carried(disk.mails)) \in Nat /\ SumOver(Held(houseRows)) \in Nat
    BY <2>1, PurseSums, BoxSums, HouseSums
  <2> QED  BY <2>2 DEF Wealth
<1>4. taken'.money = Total - w
  <2>1. taken' = [taken EXCEPT !.money = Total - w]  BY DEF Crash
  <2>2. taken = [money |-> taken.money, items |-> taken.items]  BY <1>1 DEF Bookkeeping
  <2> HIDE DEF w
  <2> QED  BY <2>1, <2>2
<1>5. Wealth(money', mails', house') = w  BY <1>2
<1>6. Debt' = 0
  <2>1. \A p \in Players : Owed(pending')[p] = 0
    <3>1. Len(<<>>) = 0  OBVIOUS
    <3> QED  BY <1>2, <3>1 DEF Owed
  <2>2. DOMAIN Owed(pending') = Players  BY DEF Owed
  <2>3. SumOver(Owed(pending')) = 0  BY <2>1, <2>2, SumOfZeros
  <2>4. Debt' = Deposit * SumOver(Owed(pending'))  BY DEF Debt, Owed
  <2> QED  BY <2>3, <2>4, AuctionAssumption
<1> HIDE DEF w
<1>7. Total \in Int  BY DEF BooksInv
<1>8. MoneyBalances' /\ taken'.money \in Int
  <2>1. MoneyBalances' <=> Wealth(money', mails', house') - Debt' + taken'.money = Total
    BY DEF MoneyBalances
  <2> QED  BY <1>3, <1>4, <1>5, <1>6, <1>7, <2>1
<1>9. Lots'  BY <1>2 DEF BooksInv, Lots, InHouse
<1>10. Settled'  BY <1>2 DEF Settled
<1> QED  BY <1>7, <1>8, <1>9, <1>10 DEF BooksInv

\* At first there are only the purses.
LEMMA InitBooks ==
    ASSUME Init
    PROVE  BooksInv
<1>1. /\ money \in Purses /\ mails = [n \in MailIds |-> NoMail]
      /\ disk.money = money /\ taken.money = 0
      /\ house = [i \in Items |-> NoAuction]
      /\ pending = [p \in Players |-> [auctions |-> <<>>, count |-> 0]]
  BY DEF Init, InitHoldings, InitAuctions
<1>2. SumOver(money) = Total /\ SumOver(money) \in Nat
  <2>1. money \in Purse  BY <1>1, HoldingsAssumption DEF Purse
  <2> QED  BY <1>1, <2>1, EconomyAssumption, PurseSums
<1>3. SumOver(Carried(mails)) = 0
  <2>1. \A n \in DOMAIN Carried(mails) : Carried(mails)[n] = 0  BY <1>1 DEF Carried
  <2> QED  BY <2>1, SumOfZeros
<1>4. SumOver(Held(house)) = 0
  <2>1. \A i \in DOMAIN Held(house) : Held(house)[i] = 0  BY <1>1 DEF Held
  <2> QED  BY <2>1, SumOfZeros
<1>5. SumOver(Owed(pending)) = 0
  <2>1. \A p \in DOMAIN Owed(pending) : Owed(pending)[p] = 0
    <3>1. Len(<<>>) = 0  OBVIOUS
    <3> QED  BY <1>1, <3>1 DEF Owed
  <2> QED  BY <2>1, SumOfZeros
<1>6. MoneyBalances
  <2>1. MoneyBalances <=> (SumOver(money) + SumOver(Carried(mails)) + SumOver(Held(house)))
                            - Deposit * SumOver(Owed(pending)) + taken.money = Total
    BY DEF MoneyBalances, Wealth, Debt, Owed
  <2> QED  BY <1>1, <1>2, <1>3, <1>4, <1>5, <2>1, AuctionAssumption
<1>7. Lots  BY <1>1 DEF Lots, InHouse
<1>8. Settled  BY <1>1 DEF Settled
<1> QED  BY <1>1, <1>2, <1>6, <1>7, <1>8 DEF BooksInv

\* The handlers of mails, and the expiry of old ones.
LEMMA MailStepBooks ==
    ASSUME IInv, IInv', BooksInv, MailStep, UNCHANGED auctionVars
    PROVE  BooksInv'
<1>1. ASSUME NEW p \in Players, NEW q \in Players, NEW item \in Items \cup {NoItem},
             NEW parcel \in Parcels, SendMail(p, q, item, parcel[1], parcel[2])
      PROVE  BooksInv'
  BY <1>1, SendMailBooks
<1>2. ASSUME NEW p \in Players, GetMailList(p) \/ \E i \in MailIds : MailDelete(p, i)
      PROVE  BooksInv'
  <2>1. UNCHANGED <<money, mails, disk, taken, house>> /\ Owed(pending') = Owed(pending)
    BY <1>2 DEF GetMailList, MailDelete, auctionVars
  <2>2. \A q \in Players : status'[q] = "offline" => status[q] = "offline"
    <3>1. status \in [Players -> {"offline", "online", "listed"}]  BY DEF IInv, Bookkeeping
    <3> QED  BY <1>2, <3>1 DEF GetMailList, MailDelete
  <2> QED  BY <2>1, <2>2, SameBooks
<1>3. ASSUME NEW p \in Players, NEW i \in MailIds, MailReturnToSender(p, i)  PROVE BooksInv'
  <2> DEFINE m == mails[i]
  <2> DEFINE returned == m.type = "normal"
  <2> DEFINE back == Letter("normal", p, m.from, m.item, m.money, 0, "returned")
  <2>1. m # NoMail  BY <1>3 DEF MailReturnToSender, Opens
  <2>2. m \in Letters  BY <2>1, OpenMail DEF IInv
  <2>3. returned => back \in Letters /\ back.money = m.money  BY <2>2 DEF Letters, Letter
  <2>4. UNCHANGED <<money, status, auctionVars>>
        /\ Commit({}, {}, [j \in {i} |-> IF returned THEN back ELSE NoMail])
        /\ Take(0, IF returned THEN {} ELSE {i})
    BY <1>3 DEF MailReturnToSender
  <2>5. returned \in BOOLEAN  OBVIOUS
  <2> HIDE DEF returned, back
  <2> QED  BY <2>1, <2>3, <2>4, <2>5, ReplaceBooks
<1>4. ASSUME NEW i \in MailIds, ReturnOrDelete(i)  PROVE BooksInv'
  <2> DEFINE m == mails[i]
  <2> DEFINE returned == m.item # NoItem /\ m.type = "normal" /\ m.checked = ""
  <2> DEFINE back == [m EXCEPT !.from = m.to, !.to = m.from, !.cod = 0, !.checked = "returned"]
  <2>1. m # NoMail  BY <1>4 DEF ReturnOrDelete
  <2>2. m \in Letters  BY <2>1, OpenMail DEF IInv
  <2>3. returned => back \in Letters /\ back.money = m.money  BY <2>2 DEF Letters
  <2>4. UNCHANGED <<money, status, auctionVars>>
        /\ Commit({}, {}, [j \in {i} |-> IF returned THEN back ELSE NoMail])
        /\ Take(0, IF returned THEN {} ELSE {i})
    BY <1>4 DEF ReturnOrDelete
  <2>5. returned \in BOOLEAN  OBVIOUS
  <2> HIDE DEF returned, back
  <2> QED  BY <2>1, <2>3, <2>4, <2>5, ReplaceBooks
<1>5. ASSUME NEW p \in Players, NEW i \in MailIds, MailTakeItem(p, i) \/ MailTakeMoney(p, i)
      PROVE  BooksInv'
  BY <1>5, TakeItemBooks, TakeMoneyBooks
<1> QED  BY <1>1, <1>2, <1>3, <1>4, <1>5 DEF MailStep

\* The handlers of auctions, and the house's own updates.
LEMMA AuctionStepBooks ==
    ASSUME IInv, IInv', BooksInv, AuctionStep
    PROVE  BooksInv'
<1>1. ASSUME NEW p \in Players, PendingAuctionCount(p)  PROVE BooksInv'
  <2>1. pending' = [pending EXCEPT ![p].count = Len(pending[p].auctions)]
        /\ UNCHANGED <<status, money, mails, disk, taken, house>>
    BY <1>1 DEF PendingAuctionCount, owned
  <2>2. pending \in [Players -> Adding]  BY DEF IInv, HouseInv
  <2>3. \A q \in Players : pending'[q].auctions = pending[q].auctions  BY <2>1, <2>2 DEF Adding
  <2>4. Owed(pending') = Owed(pending)  BY <2>3 DEF Owed
  <2> QED  BY <2>1, <2>4, SameBooks
<1>2. ASSUME NEW p \in Players, PendingAuctionProcess(p) \/ PendingAuctionsOffline(p)  PROVE BooksInv'
  BY <1>2, ProcessBooks, OfflineBooks
<1>3. ASSUME NEW p \in Players, NEW i \in Items, NEW startbid \in Prices, NEW buyout \in Buyouts,
             AuctionSellItem(p, i, startbid, buyout)
      PROVE  BooksInv'
  BY <1>3, SellBooks
<1>4. ASSUME NEW p \in Players, NEW i \in Items, NEW price \in Prices,
             AuctionPlaceBid(p, i, price) \/ AuctionBuyout(p, i, price)
      PROVE  BooksInv'
  BY <1>4, PlaceBidBooks, BuyoutBooks
<1>5. ASSUME NEW p \in Players, NEW i \in Items, AuctionRemoveItem(p, i)  PROVE BooksInv'
  BY <1>5, RemoveItemBooks
<1>6. ASSUME NEW i \in Items, AuctionExpire(i)  PROVE BooksInv'
  BY <1>6, AuctionExpireBooks
<1> QED  BY <1>1, <1>2, <1>3, <1>4, <1>5, <1>6 DEF AuctionStep

\* Every step.
LEMMA StepKeepsBooks ==
    ASSUME IInv, IInv', BooksInv, [Next]_vars
    PROVE  BooksInv'
<1>1. ASSUME NEW p \in Players, Login(p), UNCHANGED auctionVars  PROVE BooksInv'
  BY <1>1, LoginBooks
<1>2. ASSUME NEW p \in Players, SaveToDB(p) \/ Logout(p), UNCHANGED auctionVars  PROVE BooksInv'
  <2>1. UNCHANGED <<money, auctionVars>>  BY <1>2 DEF SaveToDB, Logout
  <2>2. Commit({p}, {p}, SaveMail(p))  BY <1>2 DEF SaveToDB, Logout
  <2>3. Take(0, DOMAIN SaveMail(p))  BY <1>2 DEF SaveToDB, Logout
  <2>4. \A q \in Players : q # p => (status'[q] = "offline" => status[q] = "offline")
    <3>1. status \in [Players -> {"offline", "online", "listed"}]  BY DEF IInv, Bookkeeping
    <3> QED  BY <1>2, <3>1 DEF SaveToDB, Logout
  <2> QED  BY <2>1, <2>2, <2>3, <2>4, SaveBooks
<1>3. ASSUME NEW p \in Players, TradeStep(p), UNCHANGED auctionVars  PROVE BooksInv'
  <2>1. CASE CompleteTrade(p)  BY <1>3, <2>1, CompleteTradeBooks
  <2>2. CASE \/ \E q \in Players : InitiateTrade(p, q)
             \/ \E i \in Items : SetTradeItem(p, i) \/ ClearTradeItem(p, i)
             \/ \E amount \in Amounts : SetTradeGold(p, amount)
             \/ \E full \in BOOLEAN : AcceptTrade(p, full)
             \/ Unaccept(p) \/ AcceptTooFar(p) \/ TradeCancel(p)
    <3>1. UNCHANGED owned  BY <2>2, WindowsKeep DEF IInv
    <3>2. UNCHANGED <<status, money, mails, disk, taken, house>> /\ Owed(pending') = Owed(pending)
      BY <1>3, <3>1 DEF owned, auctionVars
    <3> QED  BY <3>2, SameBooks
  <2> QED  BY <1>3, <2>1, <2>2 DEF TradeStep
<1>4. ASSUME AuctionStep  PROVE BooksInv'
  BY <1>4, AuctionStepBooks
<1>5. ASSUME MailStep, UNCHANGED auctionVars  PROVE BooksInv'
  BY <1>5, MailStepBooks
<1>6. CASE Crash  BY <1>6, CrashBooks
<1>7. CASE UNCHANGED vars
  <2>1. UNCHANGED <<status, money, mails, disk, taken, house>> /\ Owed(pending') = Owed(pending)
    BY <1>7 DEF vars, owned, auctionVars
  <2> QED  BY <2>1, SameBooks
<1> QED  BY <1>1, <1>2, <1>3, <1>4, <1>5, <1>6, <1>7 DEF Next

\* Purses, mails, bids and deposits, less what sellers owe, are what there was
\* at first less what the realm took: no handler makes or loses money.
THEOREM BooksBalance == Spec => []MoneyBalances
<1>1. Init => BooksInv  BY InitBooks
<1>2. IInv /\ IInv' /\ BooksInv /\ [Next]_vars => BooksInv'  BY StepKeepsBooks
<1>3. BooksInv => MoneyBalances  BY DEF BooksInv
<1> QED  BY <1>1, <1>2, <1>3, InvariantHolds, PTL DEF Spec

=============================================================================
