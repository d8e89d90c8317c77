------------------------- MODULE WorldSessionsProofs -------------------------
(***************************************************************************)
(* Proofs about WorldSessions, for any accounts, privileges and limit: the *)
(* login queue is exact, the limit holds, characters keep what they        *)
(* achieved, and packets stay in order.                                    *)
(***************************************************************************)
EXTENDS WorldSessions, FiniteSetTheorems, TLAPS

Packet == [n : Nat, kind : Kinds, delayed : BOOLEAN]

Session ==
    [place : {"none", "adding", "listed", "deleted"}, account : Accounts \cup {None},
     open : BOOLEAN, forceExit : BOOLEAN, expired : BOOLEAN, inQueue : BOOLEAN,
     data : {"none", "asked", "there"}, loading : BOOLEAN, login : {"none", "asked", "there"},
     player : BOOLEAN, progress : Nat, logout : {"no", "asked", "due"},
     recentlyLogout : BOOLEAN, recvQueue : Seq(Packet)]

QueryType == [what : {"save", "data", "login"}, id : Ids, account : Accounts \cup {None}, progress : Nat]

Types ==
    /\ session \in [Ids -> Session]
    /\ addSessQueue \in Seq(Ids)
    /\ m_sessions \in [Accounts -> Ids \cup {None}]
    /\ m_QueuedPlayer \in Seq(Ids)
    /\ phase \in {"add", "world", "maps"} /\ left \subseteq Ids
    /\ sent \in Nat
    /\ queries \in Seq(QueryType)
    /\ stored \in [Accounts -> Nat] /\ played \in [Accounts -> Nat]

\* m_sessions has the listed sessions; a session is new until it is listed; the
\* phases that update sessions do so to listed ones.
ListInv ==
    /\ \A i \in Ids : session[i].place \in {"adding", "listed"} => session[i].account \in Accounts
    /\ \A i \in Ids : session[i].place \in {"none", "adding"} =>
          ~session[i].player /\ session[i].login = "none"
    /\ \A i \in Ids : session[i].place = "listed" => m_sessions[session[i].account] = i
    /\ \A a \in Accounts : m_sessions[a] # None =>
          session[m_sessions[a]].place = "listed" /\ session[m_sessions[a]].account = a
    /\ IsInjective(addSessQueue) /\ \A k \in DOMAIN addSessQueue : session[addSessQueue[k]].place = "adding"
    /\ left \subseteq Listed /\ (phase = "add" => left = {})

\* A query is of a session that was listed; one for account data, of one let in.
Known(s, q) ==
    /\ s[q.id].place \in {"listed", "deleted"}
    /\ q.what = "data" /\ s[q.id].place = "listed" => s[q.id].data # "none"
QueryInv(s, qs) == \A k \in DOMAIN qs : Known(s, qs[k])

IsSave(q, a) == q.what = "save" /\ q.account = a

\* What is stored for account a once the queries qs have been executed.
SavedAs(qs, st, a, v) ==
    \/ \E k \in DOMAIN qs :
          /\ IsSave(qs[k], a) /\ qs[k].progress = v
          /\ \A j \in DOMAIN qs : j > k => ~IsSave(qs[j], a)
    \/ st[a] = v /\ \A k \in DOMAIN qs : ~IsSave(qs[k], a)

InGame(s, a) == \E i \in Ids : s[i].place = "listed" /\ s[i].player /\ s[i].account = a

\* A session has the character with all it achieved once it is loaded.
Loaded(r, pl) ==
    r.place = "listed" =>
        /\ r.player => r.login = "none" /\ r.progress = pl[r.account]
        /\ r.login # "none" => r.loading
        /\ r.login = "there" => r.progress = pl[r.account]
LoadedInv(s, pl) == \A i \in Ids : Loaded(s[i], pl)

\* A character that is not in the game is stored, or will be.
SavedInv(s, qs, st, pl) ==
    \A a \in Accounts : ~InGame(s, a) => SavedAs(qs, st, a, pl[a])

\* A session waits for one answer at a time, and saves were asked for before.
LoginInv(s, qs) ==
    \A k \in DOMAIN qs :
        qs[k].what = "login" /\ s[qs[k].id].place = "listed" =>
          /\ s[qs[k].id].login = "asked" /\ s[qs[k].id].account = qs[k].account
          /\ \A j \in DOMAIN qs : j > k => ~IsSave(qs[j], qs[k].account)
          /\ \A j \in DOMAIN qs : j # k => qs[j].what # "login" \/ qs[j].id # qs[k].id

CharInv == LoadedInv(session, played) /\ SavedInv(session, queries, stored, played)
           /\ LoginInv(session, queries)

NoLimitNoQueue == PlayerLimit = 0 => m_QueuedPlayer = <<>>

IInv == /\ Types /\ ListInv /\ QueryInv(session, queries) /\ CharInv
        /\ QueueIsExact /\ NoLimitNoQueue /\ LimitHolds

-----------------------------------------------------------------------------
(***************************************************************************)
(* Lemmas about sequences and their ranges.                                *)
(***************************************************************************)
\* The elements of a sequence.
LEMMA ElementsOfSeq ==
    ASSUME NEW S, NEW q \in Seq(S)
    PROVE  DOMAIN q = 1..Len(q) /\ Len(q) \in Nat /\ \A k \in 1..Len(q) : q[k] \in S
  OBVIOUS

\* The length of what follows a place.
LEMMA SuffixLen ==
    ASSUME NEW S, NEW q \in Seq(S), NEW n \in 1..Len(q)
    PROVE  Len(SubSeq(q, n + 1, Len(q))) = Len(q) - n
  OBVIOUS

\* And of a concatenation.
LEMMA ConcatLen ==
    ASSUME NEW S, NEW b \in Seq(S), NEW c \in Seq(S)
    PROVE  Len(b \o c) = Len(b) + Len(c)
  OBVIOUS

\* The range of a sequence has its elements ...
LEMMA RangeHas ==
    ASSUME NEW S, NEW q \in Seq(S)
    PROVE  \A k \in 1..Len(q) : q[k] \in Range(q)
  BY DEF Range

\* ... and nothing else.
LEMMA RangeOnly ==
    ASSUME NEW S, NEW q \in Seq(S)
    PROVE  \A e \in Range(q) : \E k \in 1..Len(q) : q[k] = e
  BY DEF Range

\* What a sequence without repetition of its elements says of its length.
LEMMA InjectiveLength ==
    ASSUME NEW S, NEW q \in Seq(S), IsInjective(q)
    PROVE  IsFiniteSet(Range(q)) /\ Cardinality(Range(q)) = Len(q) /\ Len(q) \in Nat
<1> DEFINE R == Range(q)
<1>1. Len(q) \in Nat /\ DOMAIN q = 1..Len(q)  BY ElementsOfSeq
<1>2. \A k \in 1..Len(q) : q[k] \in R  BY RangeHas
<1>3. \A x \in R : \E k \in 1..Len(q) : q[k] = x  BY RangeOnly
<1> HIDE DEF R
<1>4. q \in [1..Len(q) -> R]  BY <1>2, <1>3
<1>5. q \in Injection(1..Len(q), R)  BY <1>1, <1>4 DEF Injection
<1>6. q \in Surjection(1..Len(q), R)  BY <1>2, <1>3, <1>4 DEF Surjection
<1>7. q \in Bijection(1..Len(q), R)  BY <1>5, <1>6 DEF Bijection
<1>8. ExistsBijection(1..Len(q), R)  BY <1>7 DEF ExistsBijection
<1>9. IsFiniteSet(1..Len(q))
  <2> DEFINE n == Len(q)
  <2>1. n \in Nat  BY <1>1
  <2> HIDE DEF n
  <2>2. IsFiniteSet(1..n)  BY <2>1, FS_Interval
  <2> QED  BY <2>2 DEF n
<1>10. IsFiniteSet(R)  BY <1>8, <1>9, FS_Bijection
<1>11. Cardinality(R) = Len(q)  BY <1>1, <1>8, FS_CountingElements
<1> QED  BY <1>1, <1>10, <1>11 DEF R

\* Appending to a sequence without repetition.
LEMMA AppendQueue ==
    ASSUME NEW S, NEW q \in Seq(S), IsInjective(q), NEW e \in S, e \notin Range(q)
    PROVE  /\ Append(q, e) \in Seq(S) /\ IsInjective(Append(q, e))
           /\ Range(Append(q, e)) = Range(q) \cup {e} /\ Len(Append(q, e)) = Len(q) + 1
<1> DEFINE r == Append(q, e)
<1>1. /\ r \in Seq(S) /\ Len(q) \in Nat /\ Len(r) = Len(q) + 1
      /\ DOMAIN r = 1..Len(q) + 1 /\ DOMAIN q = 1..Len(q)
      /\ r[Len(q) + 1] = e /\ \A k \in 1..Len(q) : r[k] = q[k]
  OBVIOUS
<1> HIDE DEF r
<1>2. \A k \in 1..Len(q) : q[k] \in Range(q)  BY RangeHas
<1>3. \A x \in Range(q) : \E k \in 1..Len(q) : q[k] = x  BY RangeOnly
<1>4. \A k \in 1..Len(q) + 1 : r[k] \in Range(r)  BY <1>1, RangeHas
<1>5. \A x \in Range(r) : \E k \in 1..Len(q) + 1 : r[k] = x  BY <1>1, RangeOnly
<1>6. 1..Len(q) + 1 = 1..Len(q) \cup {Len(q) + 1} /\ Len(q) + 1 \notin 1..Len(q)  BY <1>1
<1>7. Range(r) = Range(q) \cup {e}  BY <1>1, <1>2, <1>3, <1>4, <1>5, <1>6
<1>8. IsInjective(r)  BY <1>1, <1>2, <1>3, <1>6 DEF IsInjective
<1>9. Append(q, e) \in Seq(S)  OBVIOUS
<1>10. Len(Append(q, e)) = Len(q) + 1  OBVIOUS
<1>11. IsInjective(Append(q, e))  BY <1>8 DEF r
<1>12. Range(Append(q, e)) = Range(q) \cup {e}  BY <1>7 DEF r
<1> QED  BY <1>9, <1>10, <1>11, <1>12, Zenon

\* The first of a sequence without repetition is not in its tail.
LEMMA TailQueue ==
    ASSUME NEW S, NEW q \in Seq(S), IsInjective(q), q # <<>>
    PROVE  /\ Tail(q) \in Seq(S) /\ IsInjective(Tail(q)) /\ Head(q) \in Range(q)
           /\ Range(Tail(q)) = Range(q) \ {Head(q)} /\ Len(Tail(q)) = Len(q) - 1
<1> DEFINE r == Tail(q)
<1>1. /\ r \in Seq(S) /\ Len(q) \in Nat \ {0} /\ Len(r) = Len(q) - 1 /\ Head(q) = q[1]
      /\ DOMAIN r = 1..Len(q) - 1 /\ DOMAIN q = 1..Len(q)
      /\ \A k \in 1..Len(q) - 1 : r[k] = q[k + 1]
  OBVIOUS
<1> HIDE DEF r
<1>2. \A k \in 1..Len(q) : q[k] \in Range(q)  BY RangeHas
<1>3. \A x \in Range(q) : \E k \in 1..Len(q) : q[k] = x  BY RangeOnly
<1>4. \A k \in 1..Len(q) - 1 : r[k] \in Range(r)  BY <1>1, RangeHas
<1>5. \A x \in Range(r) : \E k \in 1..Len(q) - 1 : r[k] = x  BY <1>1, RangeOnly
<1>6. \A x, y \in 1..Len(q) : q[x] = q[y] => x = y  BY <1>1 DEF IsInjective
<1>7. \A k \in 1..Len(q) - 1 : k + 1 \in 1..Len(q) /\ k + 1 # 1  BY <1>1
<1>8. IsInjective(r)
  <2> SUFFICES ASSUME NEW j \in 1..Len(q) - 1, NEW k \in 1..Len(q) - 1, r[j] = r[k]
               PROVE  j = k
    BY <1>1 DEF IsInjective
  <2>1. j + 1 = k + 1  BY <1>1, <1>6, <1>7
  <2> QED  BY <2>1
<1>9. ASSUME NEW x \in Range(r)
      PROVE  x \in Range(q) \ {Head(q)}
  <2>1. PICK k \in 1..Len(q) - 1 : r[k] = x  BY <1>5
  <2>2. x = q[k + 1] /\ k + 1 \in 1..Len(q) /\ q[k + 1] # q[1]  BY <1>1, <1>6, <1>7, <2>1
  <2> QED  BY <1>1, <1>2, <2>2
<1>10. ASSUME NEW k \in 2..Len(q)
      PROVE  q[k] \in Range(r)
  <2>1. k - 1 \in 1..Len(q) - 1 /\ r[k - 1] = q[k]  BY <1>1
  <2> QED  BY <2>1, <1>4
<1>11. \A k \in 1..Len(q) : k = 1 \/ k \in 2..Len(q)  BY <1>1
<1>12. Range(q) \ {Head(q)} \subseteq Range(r)  BY <1>1, <1>2, <1>3, <1>10, <1>11
<1>13. Head(q) \in Range(q)  BY <1>1, <1>2, <1>3
<1>14. Range(r) = Range(q) \ {Head(q)}  BY <1>9, <1>12
<1> QED  BY <1>1, <1>8, <1>13, <1>14 DEF r

\* Taking an element out of a sequence without repetition.
LEMMA RemoveFromQueue ==
    ASSUME NEW S, NEW q \in Seq(S), IsInjective(q), NEW e
    PROVE  /\ RemoveFirst(q, e) \in Seq(S) /\ IsInjective(RemoveFirst(q, e))
           /\ Range(RemoveFirst(q, e)) = Range(q) \ {e}
           /\ Len(RemoveFirst(q, e)) = IF e \in Range(q) THEN Len(q) - 1 ELSE Len(q)
           /\ Contains(q, e) <=> e \in Range(q)
           /\ e \notin Range(q) => RemoveFirst(q, e) = q
<1>1. Len(q) \in Nat /\ DOMAIN q = 1..Len(q)  BY ElementsOfSeq
<1>2. \A k \in 1..Len(q) : q[k] \in Range(q)  BY RangeHas
<1>3. \A x \in Range(q) : \E k \in 1..Len(q) : q[k] = x  BY RangeOnly
<1>4. Contains(q, e) <=> e \in Range(q)  BY <1>2, <1>3 DEF Contains
<1>5. CASE e \notin Range(q)
  <2>1. RemoveFirst(q, e) = q  BY <1>2, <1>3, <1>5 DEF RemoveFirst
  <2> QED  BY <1>4, <1>5, <2>1
<1>6. CASE e \in Range(q)
  <2>1. PICK n \in 1..Len(q) : q[n] = e  BY <1>2, <1>3, <1>6
  <2>2. {k \in 1..Len(q) : q[k] = e} = {n}  BY <1>1, <2>1 DEF IsInjective
  <2>3. SelectInSeq(q, LAMBDA v : v = e) = n
    <3>1. Min({n}) = n  BY DEF Min
    <3> QED  BY <2>2, <3>1 DEF SelectInSeq
  <2> DEFINE r == SubSeq(q, 1, n - 1) \o SubSeq(q, n + 1, Len(q))
  <2>4. RemoveFirst(q, e) = r  BY <2>1, <2>3 DEF RemoveFirst, RemoveAt
  <2>5. /\ r \in Seq(S) /\ Len(r) = Len(q) - 1 /\ DOMAIN r = 1..Len(q) - 1
        /\ \A k \in 1..Len(q) - 1 : r[k] = IF k < n THEN q[k] ELSE q[k + 1]
    <3> DEFINE b == SubSeq(q, 1, n - 1)
               c == SubSeq(q, n + 1, Len(q))
    <3>0. n \in Nat /\ 1 <= n /\ n <= Len(q)  BY <1>1, <2>1
    <3>1. b \in Seq(S) /\ Len(b) = n - 1 /\ \A k \in 1..n - 1 : b[k] = q[k]
      <4>1. b \in Seq(S)  BY <1>1, <3>0
      <4>2. Len(b) = n - 1  BY <1>1, <3>0
      <4>3. \A k \in 1..n - 1 : b[k] = q[k]  BY <1>1, <3>0
      <4> QED  BY <4>1, <4>2, <4>3
    <3>2. c \in Seq(S) /\ Len(c) = Len(q) - n /\ \A k \in 1..Len(q) - n : c[k] = q[n + k]
      <4>1. c \in Seq(S)  BY <1>1, <3>0
      <4>2. Len(c) = Len(q) - n  BY <2>1, SuffixLen
      <4>3. \A k \in 1..Len(q) - n : c[k] = q[n + k]  BY <1>1, <3>0
      <4> QED  BY <4>1, <4>2, <4>3
    <3>3. r = b \o c  OBVIOUS
    <3> HIDE DEF b, c, r
    <3>4. /\ r \in Seq(S) /\ Len(r) = Len(b) + Len(c)
          /\ \A k \in 1..Len(b) + Len(c) : r[k] = IF k <= Len(b) THEN b[k] ELSE c[k - Len(b)]
      <4>1. r \in Seq(S)  BY <3>1, <3>2, <3>3
      <4>2. Len(r) = Len(b) + Len(c)  BY <3>1, <3>2, <3>3, ConcatLen
      <4>3. \A k \in 1..Len(b) + Len(c) : r[k] = IF k <= Len(b) THEN b[k] ELSE c[k - Len(b)]
        BY <3>1, <3>2, <3>3
      <4> QED  BY <4>1, <4>2, <4>3
    <3>5. DOMAIN r = 1..Len(r) BY <3>4
    <3>6. ASSUME NEW k \in 1..Len(q) - 1
          PROVE  r[k] = IF k < n THEN q[k] ELSE q[k + 1]
      <4>1. CASE k < n
        <5>1. k \in 1..n - 1 /\ k <= Len(b) /\ k \in 1..Len(b) + Len(c)  BY <1>1, <3>0, <3>1, <3>2, <4>1
        <5> QED  BY <3>1, <3>4, <4>1, <5>1
      <4>2. CASE ~(k < n)
        <5>1. k - (n - 1) \in 1..Len(q) - n /\ n + (k - (n - 1)) = k + 1  BY <1>1, <2>1, <4>2
        <5>2. r[k] = c[k - (n - 1)]  BY <1>1, <2>1, <3>1, <3>2, <3>4, <4>2
        <5>3. c[k - (n - 1)] = q[n + (k - (n - 1))]  BY <3>2, <5>1
        <5> QED  BY <4>2, <5>1, <5>2, <5>3
      <4> QED  BY <4>1, <4>2
    <3> QED  BY <1>1, <2>1, <3>1, <3>2, <3>4, <3>5, <3>6
  <2> HIDE DEF r
  <2>6. \A k \in 1..Len(q) - 1 : r[k] \in Range(r)  BY <2>5, RangeHas
  <2>7. \A x \in Range(r) : \E k \in 1..Len(q) - 1 : r[k] = x  BY <2>5, RangeOnly
  <2>8. \A x, y \in 1..Len(q) : q[x] = q[y] => x = y  BY <1>1 DEF IsInjective
  <2>9. ASSUME NEW x \in Range(r)
        PROVE  x \in Range(q) \ {e}
    <3>1. PICK k \in 1..Len(q) - 1 : r[k] = x  BY <2>7
    <3>2. CASE k < n
      <4>1. k \in 1..Len(q) /\ k # n /\ x = q[k]  BY <1>1, <2>1, <2>5, <3>1, <3>2
      <4> QED  BY <1>2, <2>1, <2>8, <4>1
    <3>3. CASE ~(k < n)
      <4>1. k + 1 \in 1..Len(q) /\ k + 1 # n /\ x = q[k + 1]  BY <1>1, <2>1, <2>5, <3>1, <3>3
      <4> QED  BY <1>2, <2>1, <2>8, <4>1
    <3> QED  BY <3>2, <3>3
  <2>10. ASSUME NEW k \in 1..Len(q), k # n
        PROVE  q[k] \in Range(r)
    <3>1. CASE k < n  BY <1>1, <2>1, <2>5, <2>6, <2>7, <3>1
    <3>2. CASE k > n
      <4>1. k - 1 \in 1..Len(q) - 1 /\ ~(k - 1 < n) /\ k - 1 + 1 = k  BY <1>1, <2>1, <3>2
      <4> QED  BY <2>5, <2>6, <2>7, <4>1
    <3> QED  BY <1>1, <2>1, <2>10, <3>1, <3>2
  <2>11. Range(q) \ {e} \subseteq Range(r)  BY <1>2, <1>3, <2>1, <2>10
  <2>12. IsInjective(r)
    <3> SUFFICES ASSUME NEW j \in 1..Len(q) - 1, NEW k \in 1..Len(q) - 1, r[j] = r[k]
                 PROVE  j = k
      BY <2>5 DEF IsInjective
    <3>1. \A x, y \in 1..Len(q) : q[x] = q[y] => x = y  BY <1>1 DEF IsInjective
    <3> QED  BY <1>1, <2>1, <2>5, <3>1
  <2>13. Range(r) = Range(q) \ {e}  BY <2>9, <2>11
  <2> QED  BY <1>4, <1>6, <2>4, <2>5, <2>12, <2>13
<1> QED  BY <1>5, <1>6

-----------------------------------------------------------------------------
(***************************************************************************)
(* Types.                                                                  *)
(***************************************************************************)
\* Numbers of sessions.
LEMMA IdFacts == /\ None \notin Ids /\ Ids \subseteq Nat /\ IsFiniteSet(Ids) /\ PlayerLimit \in Nat
<1>1. MaxSessions \in Nat /\ PlayerLimit \in Nat  BY SessionsAssumption DEF SessionsAssumption
<1>2. IsFiniteSet(Ids)  BY <1>1, FS_Interval DEF Ids
<1> QED  BY <1>1, <1>2 DEF Ids, None

\* What may become of a session is one.
LEMMA SessionTypes ==
    \A r \in Session :
      /\ KickPlayer(r) \in Session /\ LoggedOut(r) \in Session /\ WithData(r) \in Session
      /\ \A d \in CalledBack(r) : d \in Session
<1> SUFFICES ASSUME NEW r \in Session
             PROVE  /\ KickPlayer(r) \in Session /\ LoggedOut(r) \in Session /\ WithData(r) \in Session
                    /\ \A d \in CalledBack(r) : d \in Session
  OBVIOUS
<1>1. \A x \in Session : KickPlayer(x) \in Session  BY DEF Session, KickPlayer
<1>2. LoggedOut(r) \in Session  BY DEF Session, LoggedOut
<1>3. WithData(r) \in Session  BY DEF Session, WithData
<1> DEFINE x == [WithData(r) EXCEPT !.login = "none", !.loading = FALSE]
<1>4. x \in Session  BY <1>3 DEF Session
<1>5. CalledBack(r) \subseteq {WithData(r), [x EXCEPT !.player = TRUE], KickPlayer([x EXCEPT !.progress = 0])}
  BY DEF CalledBack
<1> HIDE DEF x
<1>6. [x EXCEPT !.player = TRUE] \in Session /\ [x EXCEPT !.progress = 0] \in Session
  BY <1>4 DEF Session
<1> QED  BY <1>1, <1>2, <1>3, <1>5, <1>6

\* Sessions that do not exist yet, or no more, have the fields of one.
LEMMA UnbornType == Unborn \in Session /\ Deleted \in Session
<1>1. <<>> \in Seq(Packet)  OBVIOUS
<1> QED  BY <1>1 DEF Unborn, Deleted, Session

\* A query is of the session's account.
LEMMA QueryOfSession ==
    ASSUME Types, NEW i \in Ids, NEW what \in {"save", "data", "login"}
    PROVE  /\ Query(what, i) \in QueryType /\ Query(what, i).what = what
           /\ Query(what, i).id = i /\ Query(what, i).account = session[i].account
<1>1. session[i] \in Session  BY DEF Types
<1>2. session[i].account \in Accounts \cup {None}  BY <1>1 DEF Session
<1> QED  BY <1>2 DEF Query, QueryType

\* What saving a session's character asks of the database: one query, if it has one.
LEMMA SavesType ==
    ASSUME Types, NEW i \in Ids, NEW r \in Session
    PROVE  /\ Saves(i, r) \in Seq(QueryType)
           /\ ~r.player => Saves(i, r) = <<>>
           /\ r.player => \E q \in QueryType :
                /\ Saves(i, r) = <<q>>
                /\ q.what = "save" /\ q.id = i /\ q.account = session[i].account
                /\ q.progress = r.progress
<1> DEFINE q == [Query("save", i) EXCEPT !.progress = r.progress]
<1>1. Query("save", i) \in QueryType /\ Query("save", i).what = "save"
      /\ Query("save", i).id = i /\ Query("save", i).account = session[i].account
  BY QueryOfSession
<1>2. r.progress \in Nat  BY DEF Session
<1>3. q \in QueryType /\ q.what = "save" /\ q.id = i /\ q.account = session[i].account
      /\ q.progress = r.progress
  BY <1>1, <1>2 DEF QueryType
<1>4. Saves(i, r) = IF r.player THEN <<q>> ELSE <<>>  BY DEF Saves
<1> HIDE DEF q
<1> QED  BY <1>3, <1>4

\* The account data is asked for each session that is let in.
LEMMA DataQueriesType ==
    ASSUME Types, NEW ids \in Seq(Ids)
    PROVE  /\ DataQueries(ids) \in Seq(QueryType) /\ DOMAIN DataQueries(ids) = DOMAIN ids
           /\ \A k \in DOMAIN ids : DataQueries(ids)[k].what = "data" /\ DataQueries(ids)[k].id = ids[k]
<1>1. DOMAIN ids = 1..Len(ids) /\ Len(ids) \in Nat /\ \A k \in 1..Len(ids) : ids[k] \in Ids
  BY ElementsOfSeq
<1>2. \A k \in 1..Len(ids) : /\ Query("data", ids[k]) \in QueryType
                            /\ Query("data", ids[k]).what = "data" /\ Query("data", ids[k]).id = ids[k]
  BY <1>1, QueryOfSession
<1>3. DataQueries(ids) = [k \in 1..Len(ids) |-> Query("data", ids[k])]  BY <1>1 DEF DataQueries
<1>4. DataQueries(ids) \in [1..Len(ids) -> QueryType]  BY <1>2, <1>3
<1>5. DataQueries(ids) \in Seq(QueryType)  BY <1>1, <1>4
<1> QED  BY <1>1, <1>2, <1>3, <1>5

-----------------------------------------------------------------------------
(***************************************************************************)
(* What the update of a session does to it.                                *)
(***************************************************************************)
\* Neither where the session is nor what lets it in changes.
SameAdmission(d, r) ==
    d.place = r.place /\ d.account = r.account /\ d.inQueue = r.inQueue /\ d.data = r.data

\* It goes on, its character with at least the progress that it had.
Stays(d, qs, r) ==
    /\ qs = <<>> /\ d.player = r.player /\ d.login = r.login
    /\ d.loading = r.loading \/ d.loading
    /\ IF r.player THEN d.progress >= r.progress ELSE d.progress = r.progress

\* It asks for a character.
Asks(i, d, qs, r) ==
    /\ qs = <<Query("login", i)>> /\ ~r.loading /\ ~r.player
    /\ d.loading /\ d.login = "asked" /\ ~d.player

\* Its character leaves the game.
Leaves(i, d, qs, r) ==
    /\ r.player /\ qs = Saves(i, r)
    /\ ~d.player /\ d.login = r.login /\ d.loading = r.loading

\* What the handler of a packet may do.
LEMMA HandledEffect ==
    ASSUME Types, NEW i \in Ids, NEW r \in Session, NEW packet \in Packet,
           NEW done \in Handled(i, r, packet)
    PROVE  /\ done.session \in Session /\ done.queries \in Seq(QueryType)
           /\ SameAdmission(done.session, r)
           /\ \/ Stays(done.session, done.queries, r)
              \/ Asks(i, done.session, done.queries, r)
              \/ Leaves(i, done.session, done.queries, r)
<1> DEFINE Goal(d) == /\ d.session \in Session /\ d.queries \in Seq(QueryType)
                      /\ SameAdmission(d.session, r)
                      /\ \/ Stays(d.session, d.queries, r)
                         \/ Asks(i, d.session, d.queries, r)
                         \/ Leaves(i, d.session, d.queries, r)
<1>1. ASSUME NEW d \in Session, SameAdmission(d, r), Stays(d, <<>>, r)
      PROVE  Goal(Only(d))
  <2>1. Only(d).session = d /\ Only(d).queries = <<>>  BY DEF Only
  <2>2. <<>> \in Seq(QueryType)  OBVIOUS
  <2> QED  BY <1>1, <2>1, <2>2
<1>2. /\ r \in Session /\ SameAdmission(r, r) /\ Stays(r, <<>>, r)
  BY DEF Session, SameAdmission, Stays
<1>3. ASSUME NEW d \in Session, SameAdmission(d, r), Stays(d, <<>>, r)
      PROVE  /\ KickPlayer(d) \in Session /\ SameAdmission(KickPlayer(d), r)
             /\ Stays(KickPlayer(d), <<>>, r)
  <2> DEFINE k == KickPlayer(d)
  <2>1. k \in Session  BY SessionTypes
  <2>2. /\ k.place = d.place /\ k.account = d.account /\ k.inQueue = d.inQueue /\ k.data = d.data
        /\ k.player = d.player /\ k.login = d.login /\ k.loading = d.loading /\ k.progress = d.progress
    BY DEF Session, KickPlayer
  <2> HIDE DEF k
  <2>3. SameAdmission(k, r)  BY <1>3, <2>2 DEF SameAdmission
  <2>4. Stays(k, <<>>, r)  BY <1>3, <2>2 DEF Stays
  <2> QED  BY <2>1, <2>3, <2>4 DEF k
<1>4. CASE packet.kind = "login"
  <2> DEFINE loads == [r EXCEPT !.loading = TRUE]
             asks == [loads EXCEPT !.login = "asked"]
  <2>1. loads \in Session /\ SameAdmission(loads, r) /\ Stays(loads, <<>>, r)
    <3>1. loads \in Session  BY DEF Session
    <3>2. SameAdmission(loads, r)  BY DEF Session, SameAdmission
    <3>3. /\ loads.player = r.player /\ loads.login = r.login /\ loads.loading
          /\ loads.progress = r.progress /\ r.progress \in Nat
      BY DEF Session
    <3> HIDE DEF loads
    <3>4. Stays(loads, <<>>, r)  BY <3>3 DEF Stays
    <3> QED  BY <3>1, <3>2, <3>4
  <2>2. asks \in Session /\ SameAdmission(asks, r) /\ asks.loading /\ asks.login = "asked"
        /\ asks.player = r.player
    BY DEF Session, SameAdmission
  <2>3. done \in HandlePlayerLogin(i, r)  BY <1>4 DEF Handled
  <2>4. CASE done = Only(r)  BY <1>1, <1>2, <2>4
  <2>5. CASE done = Only(KickPlayer(r))  BY <1>1, <1>2, <1>3, <2>5
  <2>6. CASE done = Only(KickPlayer(loads))  BY <1>1, <1>3, <2>1, <2>6
  <2>7. CASE ~r.loading /\ ~r.player /\ done = [session |-> asks, queries |-> <<Query("login", i)>>]
    <3>1. Query("login", i) \in QueryType  BY QueryOfSession
    <3>2. <<Query("login", i)>> \in Seq(QueryType)  BY <3>1
    <3>3. done.session = asks /\ done.queries = <<Query("login", i)>>  BY <2>7
    <3> QED  BY <2>2, <2>7, <3>2, <3>3 DEF Asks
  <2>8. \/ done = Only(r) \/ done = Only(KickPlayer(r)) \/ done = Only(KickPlayer(loads))
        \/ ~r.loading /\ ~r.player /\ done = [session |-> asks, queries |-> <<Query("login", i)>>]
    BY <2>3 DEF HandlePlayerLogin
  <2> QED  BY <2>4, <2>5, <2>6, <2>7, <2>8
<1>5. CASE packet.kind # "login" /\ packet.kind = "logout" /\ r.player
  <2> DEFINE no == [r EXCEPT !.logout = "no"]
             asked == [r EXCEPT !.logout = "asked"]
  <2>1. no \in Session /\ SameAdmission(no, r) /\ Stays(no, <<>>, r)
    BY DEF Session, SameAdmission, Stays
  <2>2. asked \in Session /\ SameAdmission(asked, r) /\ Stays(asked, <<>>, r)
    BY DEF Session, SameAdmission, Stays
  <2>3. done \in HandleLogoutRequest(i, r)  BY <1>5 DEF Handled
  <2>4. CASE done = Only(no)  BY <1>1, <2>1, <2>4
  <2>5. CASE done = Only(asked)  BY <1>1, <2>2, <2>5
  <2>6. CASE done = [session |-> LoggedOut(r), queries |-> Saves(i, r)]
    <3>1. done.session = LoggedOut(r) /\ done.queries = Saves(i, r)  BY <2>6
    <3>2. LoggedOut(r) \in Session /\ Saves(i, r) \in Seq(QueryType)  BY SessionTypes, SavesType
    <3>3. SameAdmission(LoggedOut(r), r) /\ ~LoggedOut(r).player
          /\ LoggedOut(r).login = r.login /\ LoggedOut(r).loading = r.loading
      BY DEF Session, LoggedOut, SameAdmission
    <3> QED  BY <1>5, <3>1, <3>2, <3>3 DEF Leaves
  <2> QED  BY <2>3, <2>4, <2>5, <2>6 DEF HandleLogoutRequest
<1>6. CASE packet.kind # "login" /\ packet.kind = "move" /\ r.player
  <2> DEFINE moved == [r EXCEPT !.progress = r.progress + 1]
  <2>1. moved \in Session /\ SameAdmission(moved, r) /\ Stays(moved, <<>>, r)
    <3>1. moved \in Session  BY DEF Session
    <3>2. SameAdmission(moved, r)  BY DEF Session, SameAdmission
    <3>3. /\ moved.player = r.player /\ moved.login = r.login /\ moved.loading = r.loading
          /\ moved.progress = r.progress + 1 /\ r.progress \in Nat
      BY DEF Session
    <3> HIDE DEF moved
    <3>4. Stays(moved, <<>>, r)  BY <1>6, <3>3 DEF Stays
    <3> QED  BY <3>1, <3>2, <3>4
  <2>2. done = Only(moved)  BY <1>6 DEF Handled
  <2> QED  BY <1>1, <2>1, <2>2
<1>7. CASE packet.kind # "login" /\ ~(packet.kind = "logout" /\ r.player)
           /\ ~(packet.kind = "move" /\ r.player)
  <2> DEFINE back == Requeued(r, packet)
  <2>1. back \in Session /\ SameAdmission(back, r) /\ Stays(back, <<>>, r)
    <3>1. [packet EXCEPT !.delayed = TRUE] \in Packet  BY DEF Packet
    <3>2. r.recvQueue \in Seq(Packet)  BY DEF Session
    <3>3. Append(r.recvQueue, [packet EXCEPT !.delayed = TRUE]) \in Seq(Packet)  BY <3>1, <3>2
    <3>4. back \in Session  BY <3>3 DEF Session, Requeued
    <3>5. SameAdmission(back, r)  BY DEF Session, SameAdmission, Requeued
    <3>6. /\ back.player = r.player /\ back.login = r.login /\ back.loading = r.loading
          /\ back.progress = r.progress /\ r.progress \in Nat
      BY DEF Session, Requeued
    <3> HIDE DEF back
    <3>7. Stays(back, <<>>, r)  BY <3>6 DEF Stays
    <3> QED  BY <3>4, <3>5, <3>7
  <2>2. done = Only(IF Requeues(r, packet) THEN back ELSE r)  BY <1>7 DEF Handled
  <2> HIDE DEF back
  <2> QED  BY <1>1, <1>2, <2>1, <2>2
<1> QED  BY <1>4, <1>5, <1>6, <1>7

\* What the answers of the database may do.
LEMMA CalledBackEffect ==
    ASSUME NEW r \in Session, NEW d \in CalledBack(r)
    PROVE  /\ d \in Session /\ d.place = r.place /\ d.account = r.account /\ d.data = r.data
           /\ r.data = "none" => d.inQueue = r.inQueue
           /\ \/ /\ r.login # "there" /\ d.login = r.login /\ d.loading = r.loading
                 /\ d.player = r.player /\ d.progress = r.progress
              \/ /\ r.login = "there" /\ d.login = "none" /\ ~d.loading
                 /\ (d.player /\ d.progress = r.progress) \/ d.player = r.player
<1> DEFINE w == WithData(r)
           x == [w EXCEPT !.login = "none", !.loading = FALSE]
<1>1. d \in Session  BY SessionTypes
<1>2. /\ w \in Session /\ w.place = r.place /\ w.account = r.account /\ w.data = r.data
      /\ r.data = "none" => w.inQueue = r.inQueue
      /\ w.login = r.login /\ w.loading = r.loading /\ w.player = r.player /\ w.progress = r.progress
  BY DEF WithData, Session
<1>3. \/ r.login # "there" /\ d = w
      \/ r.login = "there" /\ d \in {[x EXCEPT !.player = TRUE], KickPlayer([x EXCEPT !.progress = 0])}
  BY DEF CalledBack
<1> HIDE DEF w
<1>4. CASE r.login # "there" /\ d = w  BY <1>1, <1>2, <1>4
<1>5. CASE r.login = "there" /\ d = [x EXCEPT !.player = TRUE]
  <2>1. /\ d.place = w.place /\ d.account = w.account /\ d.data = w.data /\ d.inQueue = w.inQueue
        /\ d.login = "none" /\ ~d.loading /\ d.player /\ d.progress = w.progress
    BY <1>2, <1>5 DEF Session
  <2> QED  BY <1>1, <1>2, <1>5, <2>1
<1>6. CASE r.login = "there" /\ d = KickPlayer([x EXCEPT !.progress = 0])
  <2>1. /\ d.place = w.place /\ d.account = w.account /\ d.data = w.data /\ d.inQueue = w.inQueue
        /\ d.login = "none" /\ ~d.loading /\ d.player = w.player
    BY <1>2, <1>6 DEF Session, KickPlayer
  <2> QED  BY <1>1, <1>2, <1>6, <2>1
<1> QED  BY <1>3, <1>4, <1>5, <1>6

-----------------------------------------------------------------------------
(***************************************************************************)
(* What is stored, and what will be.                                       *)
(***************************************************************************)
\* Only one listed session has the account.
LEMMA OnePlayer ==
    ASSUME Types, ListInv, NEW i \in Ids, session[i].place = "listed"
    PROVE  /\ session[i].account \in Accounts
           /\ InGame(session, session[i].account) <=> session[i].player
           /\ \A j \in Ids : session[j].place = "listed" /\ session[j].account = session[i].account => j = i
<1>1. session[i].account \in Accounts  BY DEF ListInv
<1>2. \A j \in Ids : session[j].place = "listed" => m_sessions[session[j].account] = j  BY DEF ListInv
<1> QED  BY <1>1, <1>2 DEF InGame

\* Queries that save nothing of an account change nothing about it.
LEMMA SavedStays ==
    ASSUME NEW qs \in Seq(QueryType), NEW more \in Seq(QueryType), NEW st, NEW a, NEW v,
           SavedAs(qs, st, a, v), \A k \in DOMAIN more : ~IsSave(more[k], a)
    PROVE  SavedAs(qs \o more, st, a, v)
<1> DEFINE all == qs \o more
<1>1. /\ Len(qs) \in Nat /\ Len(more) \in Nat /\ DOMAIN qs = 1..Len(qs) /\ DOMAIN more = 1..Len(more)
      /\ DOMAIN all = 1..Len(qs) + Len(more)
      /\ \A k \in 1..Len(qs) + Len(more) : all[k] = IF k <= Len(qs) THEN qs[k] ELSE more[k - Len(qs)]
  OBVIOUS
<1> HIDE DEF all
<1>2. \A k \in 1..Len(qs) : all[k] = qs[k] /\ k \in DOMAIN all  BY <1>1
<1>3. \A k \in DOMAIN all : k \in 1..Len(qs) \/ ~IsSave(all[k], a)
  <2> SUFFICES ASSUME NEW k \in DOMAIN all, k \notin 1..Len(qs)
               PROVE  ~IsSave(all[k], a)
    OBVIOUS
  <2>1. k - Len(qs) \in DOMAIN more /\ all[k] = more[k - Len(qs)]  BY <1>1
  <2> QED  BY <2>1
<1>4. CASE \E k \in DOMAIN qs : /\ IsSave(qs[k], a) /\ qs[k].progress = v
                                /\ \A j \in DOMAIN qs : j > k => ~IsSave(qs[j], a)
  <2>1. PICK k \in DOMAIN qs : /\ IsSave(qs[k], a) /\ qs[k].progress = v
                               /\ \A j \in DOMAIN qs : j > k => ~IsSave(qs[j], a)
    BY <1>4
  <2>2. k \in DOMAIN all /\ IsSave(all[k], a) /\ all[k].progress = v  BY <1>1, <1>2, <2>1
  <2>3. \A j \in DOMAIN all : j > k => ~IsSave(all[j], a)  BY <1>1, <1>2, <1>3, <2>1
  <2> QED  BY <2>2, <2>3 DEF SavedAs, all
<1>5. CASE st[a] = v /\ \A k \in DOMAIN qs : ~IsSave(qs[k], a)
  <2>1. \A k \in DOMAIN all : ~IsSave(all[k], a)  BY <1>1, <1>2, <1>3, <1>5
  <2> QED  BY <1>5, <2>1 DEF SavedAs, all
<1> QED  BY <1>4, <1>5 DEF SavedAs

\* A save at the end is what will be stored.
LEMMA SavedLast ==
    ASSUME NEW qs \in Seq(QueryType), NEW q \in QueryType, NEW st, NEW a, IsSave(q, a)
    PROVE  SavedAs(qs \o <<q>>, st, a, q.progress)
<1> DEFINE all == qs \o <<q>>
           n == Len(qs) + 1
<1>1. n \in DOMAIN all /\ all[n] = q /\ \A j \in DOMAIN all : ~(j > n)  OBVIOUS
<1> HIDE DEF all, n
<1>2. SavedAs(all, st, a, q.progress)  BY <1>1 DEF SavedAs
<1> QED  BY <1>2 DEF all

-----------------------------------------------------------------------------
(***************************************************************************)
(* The queries for characters, and whom queries are of.                    *)
(***************************************************************************)
\* The queries after some more.
LEMMA MoreQueries ==
    ASSUME NEW qs \in Seq(QueryType), NEW more \in Seq(QueryType)
    PROVE  /\ qs \o more \in Seq(QueryType)
           /\ \A k \in DOMAIN qs : k \in DOMAIN (qs \o more) /\ (qs \o more)[k] = qs[k]
           /\ \A k \in DOMAIN (qs \o more) : k \notin DOMAIN qs =>
                 k - Len(qs) \in DOMAIN more /\ (qs \o more)[k] = more[k - Len(qs)]
  OBVIOUS

\* Sessions that still wait for the answers they waited for.
LEMMA LoginChange ==
    ASSUME NEW s, NEW s2, NEW qs \in Seq(QueryType), LoginInv(s, qs),
           \A i \in Ids : s2[i].place = "listed" =>
              \/ \A k \in DOMAIN qs : qs[k].what = "login" => qs[k].id # i
              \/ /\ s[i].place = "listed" /\ s2[i].account = s[i].account
                 /\ s[i].login = "asked" => s2[i].login = "asked"
    PROVE  LoginInv(s2, qs)
<1>1. \A k \in DOMAIN qs : qs[k].id \in Ids
  <2>1. \A k \in DOMAIN qs : qs[k] \in QueryType  BY ElementsOfSeq
  <2> QED  BY <2>1 DEF QueryType
<1> QED  BY <1>1 DEF LoginInv

\* Queries for no character, and no saves of one that is asked for.
LEMMA LoginMore ==
    ASSUME NEW s, NEW qs \in Seq(QueryType), NEW more \in Seq(QueryType), LoginInv(s, qs),
           \A k \in DOMAIN more :
              /\ more[k].what # "login"
              /\ \A i \in Ids : s[i].place = "listed" /\ s[i].login = "asked" => ~IsSave(more[k], s[i].account)
    PROVE  LoginInv(s, qs \o more)
<1> DEFINE all == qs \o more
<1>1. /\ \A k \in DOMAIN qs : k \in DOMAIN all /\ all[k] = qs[k] /\ qs[k].id \in Ids
      /\ \A k \in DOMAIN all : k \notin DOMAIN qs =>
            k - Len(qs) \in DOMAIN more /\ all[k] = more[k - Len(qs)]
  <2>1. \A k \in DOMAIN qs : qs[k] \in QueryType  BY ElementsOfSeq
  <2> QED  BY <2>1, MoreQueries DEF QueryType
<1> HIDE DEF all
<1> SUFFICES ASSUME NEW k \in DOMAIN all, all[k].what = "login", s[all[k].id].place = "listed"
             PROVE  /\ s[all[k].id].login = "asked" /\ s[all[k].id].account = all[k].account
                    /\ \A j \in DOMAIN all : j > k => ~IsSave(all[j], all[k].account)
                    /\ \A j \in DOMAIN all : j # k => all[j].what # "login" \/ all[j].id # all[k].id
  BY DEF LoginInv, all
<1>2. k \in DOMAIN qs /\ all[k] = qs[k]  BY <1>1
<1>3. s[all[k].id].login = "asked" /\ s[all[k].id].account = all[k].account /\ all[k].id \in Ids
  BY <1>1, <1>2 DEF LoginInv
<1>4. ASSUME NEW j \in DOMAIN all, j > k
      PROVE  ~IsSave(all[j], all[k].account)
  <2>1. CASE j \in DOMAIN qs  BY <1>1, <1>2, <1>4, <2>1 DEF LoginInv
  <2>2. CASE j \notin DOMAIN qs  BY <1>1, <1>3, <2>2
  <2> QED  BY <2>1, <2>2
<1>5. ASSUME NEW j \in DOMAIN all, j # k
      PROVE  all[j].what # "login" \/ all[j].id # all[k].id
  <2>1. CASE j \in DOMAIN qs  BY <1>1, <1>2, <1>5, <2>1 DEF LoginInv
  <2>2. CASE j \notin DOMAIN qs  BY <1>1, <2>2
  <2> QED  BY <2>1, <2>2
<1> QED  BY <1>3, <1>4, <1>5

\* Queries of known sessions stay so.
LEMMA KnownStep ==
    ASSUME NEW s, NEW s2, NEW qs \in Seq(QueryType), QueryInv(s, qs),
           \A i \in Ids : s[i].place \in {"listed", "deleted"} =>
              /\ s2[i].place \in {"listed", "deleted"}
              /\ s2[i].place = "listed" => /\ s[i].place = "listed"
                                           /\ s[i].data # "none" => s2[i].data # "none"
    PROVE  QueryInv(s2, qs)
<1>1. \A k \in DOMAIN qs : qs[k].id \in Ids
  <2>1. \A k \in DOMAIN qs : qs[k] \in QueryType  BY ElementsOfSeq
  <2> QED  BY <2>1 DEF QueryType
<1> QED  BY <1>1 DEF QueryInv, Known

\* More queries of known sessions.
LEMMA KnownMore ==
    ASSUME NEW s, NEW qs \in Seq(QueryType), NEW more \in Seq(QueryType), QueryInv(s, qs),
           \A k \in DOMAIN more : Known(s, more[k])
    PROVE  QueryInv(s, qs \o more)
<1> DEFINE all == qs \o more
<1>1. /\ \A k \in DOMAIN qs : k \in DOMAIN all /\ all[k] = qs[k]
      /\ \A k \in DOMAIN all : k \notin DOMAIN qs =>
            k - Len(qs) \in DOMAIN more /\ all[k] = more[k - Len(qs)]
  BY MoreQueries
<1> HIDE DEF all
<1>2. \A k \in DOMAIN all : Known(s, all[k])  BY <1>1 DEF QueryInv
<1> QED  BY <1>2 DEF QueryInv, all

\* A query for a character.
LEMMA LoginAsk ==
    ASSUME NEW s, NEW s2, NEW qs \in Seq(QueryType), NEW q \in QueryType, LoginInv(s, qs),
           q.what = "login", q.account = s[q.id].account,
           s[q.id].place = "listed", s[q.id].login # "asked", s2[q.id].login = "asked",
           \A j \in Ids : s2[j].place = "listed" =>
              /\ s[j].place = "listed" /\ s2[j].account = s[j].account
              /\ s[j].login = "asked" => s2[j].login = "asked"
    PROVE  LoginInv(s2, qs \o <<q>>)
<1> DEFINE all == qs \o <<q>>
           n == Len(qs) + 1
<1>1. q.id \in Ids /\ \A k \in DOMAIN qs : qs[k].id \in Ids
  <2>1. \A k \in DOMAIN qs : qs[k] \in QueryType  BY ElementsOfSeq
  <2> QED  BY <2>1 DEF QueryType
<1>2. /\ n \in DOMAIN all /\ all[n] = q /\ \A j \in DOMAIN all : ~(j > n)
      /\ \A k \in DOMAIN all : k # n => k \in DOMAIN qs /\ all[k] = qs[k]
  OBVIOUS
<1> HIDE DEF all, n
<1>3. \A k \in DOMAIN qs : qs[k].what # "login" \/ qs[k].id # q.id  BY <1>1 DEF LoginInv
<1>4. LoginInv(s2, qs)
  <2>1. \A j \in Ids : s2[j].place = "listed" =>
              \/ \A k \in DOMAIN qs : qs[k].what = "login" => qs[k].id # j
              \/ /\ s[j].place = "listed" /\ s2[j].account = s[j].account
                 /\ s[j].login = "asked" => s2[j].login = "asked"
    OBVIOUS
  <2> QED  BY <2>1, LoginChange
<1> SUFFICES ASSUME NEW k \in DOMAIN all, all[k].what = "login", s2[all[k].id].place = "listed"
             PROVE  /\ s2[all[k].id].login = "asked" /\ s2[all[k].id].account = all[k].account
                    /\ \A j \in DOMAIN all : j > k => ~IsSave(all[j], all[k].account)
                    /\ \A j \in DOMAIN all : j # k => all[j].what # "login" \/ all[j].id # all[k].id
  BY DEF LoginInv, all
<1>5. CASE k = n
  <2>1. s2[q.id].login = "asked" /\ s2[q.id].account = q.account  BY <1>1, <1>2, <1>5
  <2>2. \A j \in DOMAIN all : j # k => all[j].what # "login" \/ all[j].id # all[k].id
    BY <1>2, <1>3, <1>5
  <2> QED  BY <1>2, <1>5, <2>1, <2>2
<1>6. CASE k # n
  <2>1. k \in DOMAIN qs /\ all[k] = qs[k]  BY <1>2, <1>6
  <2>2. s2[all[k].id].login = "asked" /\ s2[all[k].id].account = all[k].account  BY <1>4, <2>1 DEF LoginInv
  <2>3. ASSUME NEW j \in DOMAIN all, j > k
        PROVE  ~IsSave(all[j], all[k].account)
    <3>1. CASE j = n  BY <1>2, <3>1 DEF IsSave
    <3>2. CASE j # n  BY <1>2, <1>4, <2>1, <2>3, <3>2 DEF LoginInv
    <3> QED  BY <3>1, <3>2
  <2>4. ASSUME NEW j \in DOMAIN all, j # k
        PROVE  all[j].what # "login" \/ all[j].id # all[k].id
    <3>1. CASE j = n  BY <1>2, <1>3, <2>1, <3>1
    <3>2. CASE j # n  BY <1>2, <1>4, <2>1, <2>4, <3>2 DEF LoginInv
    <3> QED  BY <3>1, <3>2
  <2> QED  BY <2>2, <2>3, <2>4
<1> QED  BY <1>5, <1>6

-----------------------------------------------------------------------------
(***************************************************************************)
(* Who leaves the login queue, and who is let in.                          *)
(***************************************************************************)
\* The sessions of L that are not in a queue are counted by the difference.
LEMMA CountQueue ==
    ASSUME NEW L, L \subseteq Ids, NEW q \in Seq(Ids), IsInjective(q), Range(q) \subseteq L
    PROVE  /\ IsFiniteSet(L) /\ Cardinality(L) \in Nat /\ Len(q) \in Nat
           /\ IsFiniteSet(L \ Range(q)) /\ Cardinality(L \ Range(q)) \in Nat
           /\ Cardinality(L \ Range(q)) = Cardinality(L) - Len(q)
<1>1. IsFiniteSet(L)  BY IdFacts, FS_Subset
<1>2. Cardinality(L) \in Nat  BY <1>1, FS_CardinalityType
<1>3. Cardinality(Range(q)) = Len(q) /\ Len(q) \in Nat  BY InjectiveLength
<1>4. L \cap Range(q) = Range(q)  OBVIOUS
<1>5. IsFiniteSet(L \ Range(q)) /\ Cardinality(L \ Range(q)) = Cardinality(L) - Cardinality(L \cap Range(q))
  BY <1>1, FS_Difference
<1>6. Cardinality(L \ Range(q)) \in Nat  BY <1>5, FS_CardinalityType
<1> QED  BY <1>1, <1>2, <1>3, <1>4, <1>5, <1>6

\* The queue, and how many are let in.
LEMMA QueueFacts ==
    ASSUME Types, QueueIsExact
    PROVE  /\ m_QueuedPlayer \in Seq(Ids) /\ IsInjective(m_QueuedPlayer)
           /\ Range(m_QueuedPlayer) \subseteq Listed /\ Listed \subseteq Ids
           /\ Cardinality(Listed) \in Nat /\ Len(m_QueuedPlayer) \in Nat
           /\ Cardinality(Listed \ Range(m_QueuedPlayer)) = Cardinality(Listed) - Len(m_QueuedPlayer)
           /\ Cardinality(Listed) - Len(m_QueuedPlayer) \in Nat
           /\ m_QueuedPlayer = <<>> <=> Len(m_QueuedPlayer) = 0
           /\ m_QueuedPlayer # <<>> => Cardinality(Listed) - Len(m_QueuedPlayer) >= PlayerLimit
<1>1. m_QueuedPlayer \in Seq(Ids)  BY DEF Types
<1>2. IsInjective(m_QueuedPlayer) /\ Range(m_QueuedPlayer) \subseteq Listed  BY DEF QueueIsExact
<1>3. Listed \subseteq Ids  BY DEF Listed
<1>4. m_QueuedPlayer = <<>> <=> Len(m_QueuedPlayer) = 0  BY <1>1
<1>5. m_QueuedPlayer # <<>> => Cardinality(Listed) - Len(m_QueuedPlayer) >= PlayerLimit
  BY DEF QueueIsExact, GetActiveSessionCount
<1>6. /\ Cardinality(Listed) \in Nat /\ Len(m_QueuedPlayer) \in Nat
      /\ Cardinality(Listed \ Range(m_QueuedPlayer)) \in Nat
      /\ Cardinality(Listed \ Range(m_QueuedPlayer)) = Cardinality(Listed) - Len(m_QueuedPlayer)
  BY <1>1, <1>2, <1>3, CountQueue
<1> QED  BY <1>1, <1>2, <1>3, <1>4, <1>5, <1>6

\* Ranges of the shortest sequences.
LEMMA ShortRanges == Range(<<>>) = {} /\ \A h : Range(<<h>>) = {h}
<1>1. Range(<<>>) = {}  BY DEF Range
<1>2. ASSUME NEW h
      PROVE  Range(<<h>>) = {h}
  <2>1. DOMAIN <<h>> = {1} /\ <<h>>[1] = h  OBVIOUS
  <2> QED  BY <2>1 DEF Range
<1> QED  BY <1>1, <1>2

\* What r leaves of the queue when the session o, if it is one, is taken off it:
\* o was in it and nobody is let in, or there was room for exactly o and the first
\* of the queue takes it, or nothing happens.
TakenOff(o, r) ==
    /\ r.found \in BOOLEAN /\ (r.found <=> o \in Range(m_QueuedPlayer))
    /\ r.queue \in Seq(Ids) /\ IsInjective(r.queue) /\ r.admitted \in Seq(Ids)
    /\ Range(r.admitted) \subseteq Range(m_QueuedPlayer) \ {o}
    /\ Range(r.queue) = Range(m_QueuedPlayer) \ ({o} \cup Range(r.admitted))
    /\ \/ /\ r.found /\ Range(r.admitted) = {}
          /\ Len(r.queue) = Len(m_QueuedPlayer) - 1
          /\ Cardinality(Listed) - Len(m_QueuedPlayer) >= PlayerLimit /\ PlayerLimit > 0
       \/ /\ ~r.found /\ Range(r.admitted) = {} /\ Len(r.queue) = Len(m_QueuedPlayer)
          /\ \/ o = None \/ Len(m_QueuedPlayer) = 0
             \/ Cardinality(Listed) - Len(m_QueuedPlayer) > PlayerLimit
       \/ /\ ~r.found /\ (\E h \in Range(m_QueuedPlayer) : Range(r.admitted) = {h})
          /\ Len(r.queue) = Len(m_QueuedPlayer) - 1 /\ o # None
          /\ Cardinality(Listed) - Len(m_QueuedPlayer) = PlayerLimit /\ PlayerLimit > 0

\* RemoveQueuedPlayer does so to a listed session.
LEMMA RemoveEffect ==
    ASSUME Types, QueueIsExact, NoLimitNoQueue, NEW o \in Listed
    PROVE  /\ TakenOff(o, RemoveQueuedPlayer(m_QueuedPlayer, o))
           /\ LET r == RemoveQueuedPlayer(m_QueuedPlayer, o)
                  again == RemoveQueuedPlayer(r.queue, o)
              IN  again.queue = r.queue /\ again.admitted = <<>>
<1> DEFINE q == m_QueuedPlayer
           n == Len(q)
           c == Cardinality(Listed)
           r == RemoveQueuedPlayer(q, o)
           again == RemoveQueuedPlayer(r.queue, o)
<1>1. /\ q \in Seq(Ids) /\ IsInjective(q) /\ Range(q) \subseteq Listed /\ Listed \subseteq Ids
      /\ c \in Nat /\ n \in Nat /\ c - n \in Nat /\ Cardinality(Listed \ Range(q)) = c - n
      /\ q = <<>> <=> n = 0
      /\ q # <<>> => c - n >= PlayerLimit
  BY QueueFacts
<1>2. PlayerLimit \in Nat /\ o \in Ids /\ o # None  BY <1>1, IdFacts
<1>3. PlayerLimit = 0 => q = <<>>  BY DEF NoLimitNoQueue
\* What a call with any queue returns.
<1>4. ASSUME NEW p \in Seq(Ids), IsInjective(p)
      PROVE  LET s == c - Len(p)
                 without == IF o \notin Range(p) /\ s > 0 THEN s - 1 ELSE s
                 others == RemoveFirst(p, o)
                 admits == (PlayerLimit = 0 \/ without < PlayerLimit) /\ others # <<>>
                 x == RemoveQueuedPlayer(p, o)
             IN  /\ x.found \in BOOLEAN /\ (x.found <=> o \in Range(p))
                 /\ x.queue = IF admits THEN Tail(others) ELSE others
                 /\ x.admitted = IF admits THEN <<Head(others)>> ELSE <<>>
  <2>1. Contains(p, o) <=> o \in Range(p)  BY <1>4, RemoveFromQueue
  <2>2. Contains(p, o) \in BOOLEAN  BY DEF Contains
  <2> QED  BY <2>1, <2>2 DEF RemoveQueuedPlayer
<1>5. ASSUME NEW p \in Seq(Ids), IsInjective(p), o \notin Range(p)
      PROVE  RemoveFirst(p, o) = p
  BY <1>5, RemoveFromQueue
\* A queue without o, from which nobody is let in.
<1>6. ASSUME NEW p \in Seq(Ids), IsInjective(p), o \notin Range(p),
             p = <<>> \/ (PlayerLimit > 0 /\ c - Len(p) > PlayerLimit)
      PROVE  LET x == RemoveQueuedPlayer(p, o)
             IN  ~x.found /\ x.queue = p /\ x.admitted = <<>>
  <2>1. Len(p) \in Nat  BY ElementsOfSeq
  <2>2. RemoveFirst(p, o) = p  BY <1>5, <1>6
  <2>3. CASE p = <<>>  BY <1>4, <1>6, <2>2, <2>3
  <2>4. CASE PlayerLimit > 0 /\ c - Len(p) > PlayerLimit
    <3>1. c - Len(p) > 0 /\ ~(c - Len(p) - 1 < PlayerLimit) /\ PlayerLimit # 0
      BY <1>1, <1>2, <2>1, <2>4
    <3> QED  BY <1>4, <1>6, <2>2, <3>1
  <2> QED  BY <1>6, <2>3, <2>4
<1>7. CASE o \in Range(q)
  <2> DEFINE p == RemoveFirst(q, o)
  <2>1. /\ p \in Seq(Ids) /\ IsInjective(p) /\ Range(p) = Range(q) \ {o} /\ Len(p) = n - 1
    BY <1>1, <1>7, RemoveFromQueue
  <2>2. q # <<>>  BY <1>7, ShortRanges
  <2>3. PlayerLimit > 0 /\ c - n >= PlayerLimit  BY <1>1, <1>2, <1>3, <2>2
  <2>4. ~(PlayerLimit = 0) /\ ~(c - n < PlayerLimit)  BY <1>1, <1>2, <2>3
  <2>5. r.found /\ r.queue = p /\ r.admitted = <<>>  BY <1>1, <1>4, <1>7, <2>4
  <2>6. again.queue = p /\ again.admitted = <<>>
    <3>1. o \notin Range(p) /\ c - Len(p) > PlayerLimit  BY <1>1, <1>2, <2>1, <2>3
    <3> QED  BY <1>6, <2>1, <2>3, <2>5, <3>1
  <2>7. <<>> \in Seq(Ids)  OBVIOUS
  <2>8. Range(r.admitted) = {}  BY <2>5, ShortRanges
  <2> HIDE DEF p, r, again
  <2>9. TakenOff(o, r)
    <3>1. r.found \in BOOLEAN /\ (r.found <=> o \in Range(q))
      BY <1>1, <1>4 DEF r
    <3>2. r.queue \in Seq(Ids) /\ IsInjective(r.queue) /\ r.admitted \in Seq(Ids)  BY <2>1, <2>5, <2>7
    <3>3. Range(r.queue) = Range(q) \ ({o} \cup Range(r.admitted))  BY <2>1, <2>5, <2>8
    <3>4. Len(r.queue) = n - 1  BY <2>1, <2>5
    <3> QED  BY <2>3, <2>5, <2>8, <3>1, <3>2, <3>3, <3>4 DEF TakenOff
  <2> QED  BY <2>5, <2>6, <2>9 DEF r, again
<1>8. CASE o \notin Range(q) /\ q # <<>> /\ c - n = PlayerLimit
  <2> DEFINE p == Tail(q)
             h == Head(q)
  <2>1. /\ p \in Seq(Ids) /\ IsInjective(p) /\ Range(p) = Range(q) \ {h} /\ Len(p) = n - 1
        /\ h \in Range(q)
    BY <1>1, <1>8, TailQueue
  <2>2. PlayerLimit > 0 /\ c - n > 0 /\ c - n - 1 < PlayerLimit  BY <1>1, <1>2, <1>3, <1>8
  <2>3. RemoveFirst(q, o) = q  BY <1>1, <1>5, <1>8
  <2>4. ~r.found /\ r.queue = p /\ r.admitted = <<h>>  BY <1>1, <1>4, <1>8, <2>2, <2>3
  <2>5. again.queue = p /\ again.admitted = <<>>
    <3>1. o \notin Range(p) /\ c - Len(p) > PlayerLimit  BY <1>1, <1>2, <1>8, <2>1
    <3> QED  BY <1>6, <2>1, <2>2, <2>4, <3>1
  <2>6. h \in Ids /\ h # o  BY <1>1, <1>8, <2>1
  <2>7. <<h>> \in Seq(Ids) /\ Range(r.admitted) = {h}  BY <2>4, <2>6, ShortRanges
  <2> HIDE DEF p, h, r, again
  <2>8. TakenOff(o, r)
    <3>1. r.found \in BOOLEAN /\ (r.found <=> o \in Range(q))
      BY <1>1, <1>4 DEF r
    <3>2. r.queue \in Seq(Ids) /\ IsInjective(r.queue) /\ r.admitted \in Seq(Ids)  BY <2>1, <2>4, <2>7
    <3>3. Range(r.queue) = Range(q) \ ({o} \cup Range(r.admitted))  BY <1>8, <2>1, <2>4, <2>7
    <3>4. Range(r.admitted) \subseteq Range(q) \ {o}  BY <2>1, <2>6, <2>7
    <3>5. Len(r.queue) = n - 1  BY <2>1, <2>4
    <3>6. \E x \in Range(q) : Range(r.admitted) = {x}  BY <2>1, <2>7
    <3> QED  BY <1>2, <1>8, <2>2, <2>4, <3>1, <3>2, <3>3, <3>4, <3>5, <3>6 DEF TakenOff
  <2> QED  BY <2>4, <2>5, <2>8 DEF r, again
<1>9. CASE o \notin Range(q) /\ (q = <<>> \/ c - n > PlayerLimit)
  <2>1. q = <<>> \/ (PlayerLimit > 0 /\ c - Len(q) > PlayerLimit)  BY <1>2, <1>3, <1>9
  <2>2. ~r.found /\ r.queue = q /\ r.admitted = <<>>  BY <1>1, <1>6, <1>9, <2>1
  <2>3. again.queue = q /\ again.admitted = <<>>  BY <1>1, <1>6, <1>9, <2>1, <2>2
  <2>4. <<>> \in Seq(Ids) /\ Range(r.admitted) = {}  BY <2>2, ShortRanges
  <2> HIDE DEF r, again
  <2>5. TakenOff(o, r)
    <3>1. r.found \in BOOLEAN /\ (r.found <=> o \in Range(q))
      BY <1>1, <1>4 DEF r
    <3>2. Range(r.queue) = Range(q) \ ({o} \cup Range(r.admitted))  BY <1>9, <2>2, <2>4
    <3> QED  BY <1>1, <1>9, <2>2, <2>4, <3>1, <3>2 DEF TakenOff
  <2> QED  BY <2>2, <2>3, <2>5 DEF r, again
<1>10. q # <<>> /\ ~(c - n > PlayerLimit) => c - n = PlayerLimit  BY <1>1, <1>2
<1> QED  BY <1>7, <1>8, <1>9, <1>10

-----------------------------------------------------------------------------
(***************************************************************************)
(* The login queue and the limit.                                          *)
(***************************************************************************)
\* The sessions that the limit is for.
Limited(L, q, s, d) == {i \in L \ Range(q) : s[i].account \notin Privileged \cup d}

\* Nothing changes for the queue.
LEMMA QueueKept ==
    ASSUME Types, QueueIsExact, LimitHolds, NoLimitNoQueue, ListInv',
           m_QueuedPlayer' = m_QueuedPlayer, m_disconnects' = m_disconnects,
           \A i \in Ids :
              /\ session'[i].place = "listed" <=> session[i].place = "listed"
              /\ session[i].place = "listed" =>
                    /\ session'[i].account = session[i].account
                    /\ session'[i].data = "none" <=> session[i].data = "none"
                    /\ session[i].data = "none" => session'[i].inQueue = session[i].inQueue
    PROVE  QueueIsExact' /\ LimitHolds' /\ NoLimitNoQueue'
<1> DEFINE q == m_QueuedPlayer
           L == Listed
<1>1. Listed' = L  BY DEF Listed
<1>2. \A i \in L : i \in Ids /\ session[i].place = "listed"  BY DEF Listed
<1>3. {i \in Listed' : session'[i].data = "none"} = {i \in L : session[i].data = "none"}  BY <1>1, <1>2
<1>4. IsInjective(q) /\ Range(q) = {i \in L : session[i].data = "none"}
      /\ \A i \in Range(q) : session[i].inQueue
  BY DEF QueueIsExact
<1>5. \A i \in Range(q) : session'[i].inQueue /\ m_sessions'[session'[i].account] = i
  <2>1. \A i \in Ids : session'[i].place = "listed" => m_sessions'[session'[i].account] = i  BY DEF ListInv
  <2> QED  BY <1>2, <1>4, <2>1
<1>6. q # <<>> => Cardinality(L) - Len(q) >= PlayerLimit  BY DEF QueueIsExact, GetActiveSessionCount
<1>7. QueueIsExact'
  <2>1. GetActiveSessionCount' = Cardinality(L) - Len(q)  BY <1>1 DEF GetActiveSessionCount
  <2> QED  BY <1>3, <1>4, <1>5, <1>6, <2>1 DEF QueueIsExact
<1>8. Limited(L, q, session', m_disconnects') = Limited(L, q, session, m_disconnects)
  BY <1>2 DEF Limited
<1>9. LimitHolds'  BY <1>1, <1>8 DEF LimitHolds, Limited
<1>10. NoLimitNoQueue'  BY DEF NoLimitNoQueue
<1> QED  BY <1>7, <1>9, <1>10

\* A session o is taken off the queue and leaves, and i joins, in the queue if it waits.
LEMMA QueueTaken ==
    ASSUME Types, QueueIsExact, LimitHolds, NoLimitNoQueue, ListInv', Types',
           NEW o \in Listed \cup {None}, NEW r, TakenOff(o, r),
           NEW i, i \notin Listed, i # o, NEW joins \in BOOLEAN, NEW waits \in BOOLEAN,
           waits => joins, joins => i \in Ids, joins \/ o # None,
           Listed' = (Listed \ {o}) \cup (IF joins THEN {i} ELSE {}),
           m_QueuedPlayer' = IF waits THEN Append(r.queue, i) ELSE r.queue,
           m_disconnects \subseteq m_disconnects',
           \A j \in Listed \ {o} :
              /\ session'[j].account = session[j].account
              /\ IF j \in Range(r.admitted) THEN session'[j].data # "none"
                 ELSE session'[j].data = session[j].data /\ session'[j].inQueue = session[j].inQueue,
           joins => IF waits THEN session'[i].data = "none" /\ session'[i].inQueue
                             ELSE session'[i].data # "none",
           waits => /\ PlayerLimit > 0
                    /\ Cardinality(Listed') - (IF r.found THEN 0 ELSE 1) >= PlayerLimit,
           joins /\ ~waits /\ PlayerLimit > 0 /\ session'[i].account \notin Privileged \cup m_disconnects'
              => Cardinality(Listed') - (IF r.found THEN 0 ELSE 1) < PlayerLimit
    PROVE  QueueIsExact' /\ LimitHolds' /\ NoLimitNoQueue'
<1> DEFINE q == m_QueuedPlayer
           q2 == m_QueuedPlayer'
           L == Listed
           L2 == Listed'
           H == Range(r.admitted)
           c == Cardinality(L)
           c2 == Cardinality(L2)
           n == Len(q)
           n2 == Len(q2)
           J == IF joins THEN 1 ELSE 0
           W == IF waits THEN 1 ELSE 0
<1>1. /\ q \in Seq(Ids) /\ IsInjective(q) /\ Range(q) \subseteq L /\ L \subseteq Ids
      /\ c \in Nat /\ n \in Nat /\ c - n \in Nat /\ Cardinality(L \ Range(q)) = c - n
      /\ q = <<>> <=> n = 0
      /\ q # <<>> => c - n >= PlayerLimit
  BY QueueFacts
<1>2. PlayerLimit \in Nat /\ None \notin Ids /\ IsFiniteSet(L) /\ IsFiniteSet(L \ Range(q))
  BY <1>1, IdFacts, CountQueue
<1>3. /\ r.found \in BOOLEAN /\ (r.found <=> o \in Range(q))
      /\ r.queue \in Seq(Ids) /\ IsInjective(r.queue)
      /\ H \subseteq Range(q) \ {o} /\ Range(r.queue) = Range(q) \ ({o} \cup H)
  BY DEF TakenOff
<1>4. /\ q2 \in Seq(Ids) /\ IsInjective(q2) /\ Range(q2) = Range(r.queue) \cup (IF waits THEN {i} ELSE {})
      /\ n2 = Len(r.queue) + W /\ Len(r.queue) \in Nat
  <2>1. Len(r.queue) \in Nat  BY <1>3, ElementsOfSeq
  <2>2. CASE waits
    <3>1. i \notin Range(r.queue) /\ i \in Ids /\ q2 = Append(r.queue, i)  BY <1>1, <1>3, <2>2
    <3>2. /\ Append(r.queue, i) \in Seq(Ids) /\ IsInjective(Append(r.queue, i))
          /\ Range(Append(r.queue, i)) = Range(r.queue) \cup {i}
          /\ Len(Append(r.queue, i)) = Len(r.queue) + 1
      BY <1>3, <3>1, AppendQueue
    <3> QED  BY <2>1, <2>2, <3>1, <3>2
  <2>3. CASE ~waits  BY <1>3, <2>1, <2>3
  <2> QED  BY <2>2, <2>3
<1>5. c2 \in Nat /\ c2 = c - (IF o = None THEN 0 ELSE 1) + J /\ IsFiniteSet(L2)
  <2>1. /\ IsFiniteSet(L \ {o})
        /\ Cardinality(L \ {o}) = IF o \in L THEN c - 1 ELSE c
    BY <1>2, FS_RemoveElement
  <2>2. o \in L <=> o # None  BY <1>1, <1>2
  <2>3. /\ IsFiniteSet((L \ {o}) \cup {i})
        /\ Cardinality((L \ {o}) \cup {i}) = Cardinality(L \ {o}) + 1
    <3>1. i \notin L \ {o}  OBVIOUS
    <3> QED  BY <2>1, <3>1, FS_AddElement
  <2>4. L2 = IF joins THEN (L \ {o}) \cup {i} ELSE L \ {o}  OBVIOUS
  <2> HIDE DEF L2, L, c
  <2>5. Cardinality(L \ {o}) = c - (IF o = None THEN 0 ELSE 1)  BY <1>1, <2>1, <2>2
  <2>6. IsFiniteSet(L2) /\ c2 = Cardinality(L \ {o}) + J  BY <1>1, <2>1, <2>3, <2>4, <2>5
  <2>7. c2 \in Nat  BY <2>6, FS_CardinalityType
  <2> QED  BY <2>5, <2>6, <2>7
<1>6. /\ W <= J /\ J \in {0, 1} /\ W \in {0, 1} /\ (o = None => J = 1)
      /\ W = 1 => PlayerLimit > 0 /\ c2 - (IF r.found THEN 0 ELSE 1) >= PlayerLimit
  OBVIOUS
<1>7. \/ /\ r.found /\ H = {} /\ Len(r.queue) = n - 1 /\ c - n >= PlayerLimit /\ PlayerLimit > 0 /\ o # None
      \/ /\ ~r.found /\ H = {} /\ Len(r.queue) = n /\ (o = None \/ n = 0 \/ c - n > PlayerLimit)
      \/ /\ ~r.found /\ (\E h \in Range(q) : H = {h}) /\ Len(r.queue) = n - 1 /\ o # None
         /\ c - n = PlayerLimit /\ PlayerLimit > 0
  BY <1>1, <1>2, <1>3 DEF TakenOff
<1>8. q2 # <<>> => c2 - n2 >= PlayerLimit
  <2>1. q2 = <<>> <=> n2 = 0  BY <1>4
  <2>2. n > 0 => c - n >= PlayerLimit  BY <1>1
  <2>3. c \in Nat /\ n \in Nat /\ PlayerLimit \in Nat /\ c - n \in Nat  BY <1>1, <1>2
  <2>4. c2 = c - (IF o = None THEN 0 ELSE 1) + J /\ n2 = Len(r.queue) + W  BY <1>4, <1>5
  <2> HIDE DEF q, q2, L, L2, H, c, c2, n, n2, J, W
  <2> SUFFICES n2 # 0 => c2 - n2 >= PlayerLimit  BY <2>1
  <2>5. CASE r.found /\ Len(r.queue) = n - 1 /\ c - n >= PlayerLimit /\ o # None
    BY <1>6, <2>3, <2>4, <2>5
  <2>6. CASE ~r.found /\ Len(r.queue) = n /\ (o = None \/ n = 0 \/ c - n > PlayerLimit)
    <3>1. CASE o = None  BY <1>6, <2>2, <2>3, <2>4, <2>6, <3>1
    <3>2. CASE o # None  BY <1>6, <2>2, <2>3, <2>4, <2>6, <3>2
    <3> QED  BY <3>1, <3>2
  <2>7. CASE Len(r.queue) = n - 1 /\ o # None /\ c - n = PlayerLimit
    BY <1>6, <2>3, <2>4, <2>7
  <2> QED  BY <1>7, <2>5, <2>6, <2>7
<1>9. \A j \in L \ {o} : j \in Ids /\ (j \in Range(q) <=> session[j].data = "none")
                         /\ (j \in Range(q) => session[j].inQueue)
  BY <1>1 DEF QueueIsExact
<1>10. Range(q2) = {j \in L2 : session'[j].data = "none"}
  <2>1. ASSUME NEW j \in L2
        PROVE  j \in Range(q2) <=> session'[j].data = "none"
    <3>1. CASE joins /\ j = i  BY <1>1, <1>3, <1>4, <3>1
    <3>2. CASE j \in L \ {o}
      <4>1. j \in Range(q2) <=> j \in Range(q) \ H  BY <1>3, <1>4, <3>2
      <4> QED  BY <1>3, <1>9, <3>2, <4>1
    <3> QED  BY <2>1, <3>1, <3>2
  <2>2. Range(q2) \subseteq L2  BY <1>1, <1>3, <1>4
  <2> QED  BY <2>1, <2>2
<1>11. \A j \in Range(q2) : session'[j].inQueue /\ m_sessions'[session'[j].account] = j
  <2>1. \A j \in L2 : j \in Ids /\ session'[j].place = "listed"  BY DEF Listed
  <2>2. \A j \in L2 : m_sessions'[session'[j].account] = j  BY <2>1 DEF ListInv
  <2>3. ASSUME NEW j \in Range(q2)
        PROVE  session'[j].inQueue
    <3>1. CASE waits /\ j = i  BY <3>1
    <3>2. CASE j \in Range(r.queue)
      <4>1. j \in L \ {o} /\ j \in Range(q) /\ j \notin H  BY <1>1, <1>3, <3>2
      <4> QED  BY <1>9, <4>1
    <3> QED  BY <1>4, <2>3, <3>1, <3>2
  <2> QED  BY <1>10, <2>2, <2>3
<1>12. QueueIsExact'
  <2>1. GetActiveSessionCount' = c2 - n2  BY DEF GetActiveSessionCount
  <2> QED  BY <1>4, <1>8, <1>10, <1>11, <2>1 DEF QueueIsExact
<1>13. NoLimitNoQueue'
  <2> HIDE DEF q2, q
  <2>1. CASE PlayerLimit = 0
    <3>1. q = <<>>  BY <2>1 DEF NoLimitNoQueue, q
    <3>2. n = 0 /\ ~waits /\ Len(r.queue) = 0  BY <1>1, <1>2, <1>6, <1>7, <2>1, <3>1
    <3>3. q2 = r.queue /\ r.queue = <<>>  BY <1>3, <3>2 DEF q2
    <3> QED  BY <3>3 DEF NoLimitNoQueue, q2
  <2>2. CASE PlayerLimit # 0  BY <2>2 DEF NoLimitNoQueue
  <2> QED  BY <2>1, <2>2
<1> DEFINE C == Limited(L, q, session, m_disconnects)
           C2 == Limited(L2, q2, session', m_disconnects')
<1>14. PlayerLimit > 0 => Cardinality(C2) <= PlayerLimit
  <2> SUFFICES ASSUME PlayerLimit > 0
               PROVE  Cardinality(C2) <= PlayerLimit
    OBVIOUS
  <2>1. Cardinality(C) <= PlayerLimit  BY DEF LimitHolds, Limited
  <2>2. C \subseteq L \ Range(q) /\ C2 \subseteq L2  BY DEF Limited
  <2>3. IsFiniteSet(C) /\ Cardinality(C) \in Nat  BY <1>2, <2>2, FS_Subset, FS_CardinalityType
  <2>4. CASE joins /\ i \in C2
    <3>1. ~waits /\ session'[i].account \notin Privileged \cup m_disconnects'
      BY <1>4, <2>4 DEF Limited
    <3>2. c2 - (IF r.found THEN 0 ELSE 1) < PlayerLimit  BY <2>4, <3>1
    <3>3. ~r.found
      <4>1. r.found => c - n >= PlayerLimit /\ o # None /\ c2 = c  BY <1>1, <1>5, <1>7, <2>4
      <4> HIDE DEF c, n, c2
      <4> QED  BY <1>1, <1>2, <1>5, <3>2, <4>1
    <3>4. c2 <= PlayerLimit  BY <1>2, <1>5, <3>2, <3>3
    <3>5. Cardinality(C2) <= c2 /\ IsFiniteSet(C2)  BY <1>5, <2>2, FS_Subset
    <3>6. Cardinality(C2) \in Nat  BY <3>5, FS_CardinalityType
    <3> HIDE DEF C2, c2
    <3> QED  BY <1>2, <1>5, <3>4, <3>5, <3>6
  <2>5. CASE ~(joins /\ i \in C2)
    <3>1. \A j \in C2 : /\ j \in L \ {o} /\ (j \notin Range(q) \/ j \in H)
                        /\ session[j].account \notin Privileged \cup m_disconnects
      BY <1>3, <1>4, <2>5 DEF Limited
    <3>2. CASE H = {}
      <4>1. C2 \subseteq C  BY <3>1, <3>2 DEF Limited
      <4>2. Cardinality(C2) <= Cardinality(C) /\ IsFiniteSet(C2)  BY <2>3, <4>1, FS_Subset
      <4>3. Cardinality(C2) \in Nat  BY <4>2, FS_CardinalityType
      <4> HIDE DEF C, C2
      <4> QED  BY <1>2, <2>1, <2>3, <4>2, <4>3
    <3>3. CASE H # {}
      <4>1. PICK h \in Range(q) : H = {h}  BY <1>7, <3>3
      <4>2. c - n = PlayerLimit /\ o # None /\ ~r.found  BY <1>7, <3>3
      <4> DEFINE In == L \ Range(q)
                 X == (In \ {o}) \cup {h}
      <4>3. o \in In  BY <1>3, <4>2
      <4>4. IsFiniteSet(In \ {o}) /\ Cardinality(In \ {o}) = Cardinality(In) - 1
        BY <1>2, <4>3, FS_RemoveElement
      <4>5. h \notin In \ {o}  OBVIOUS
      <4>6. IsFiniteSet(X) /\ Cardinality(X) = Cardinality(In \ {o}) + 1
        BY <4>4, <4>5, FS_AddElement
      <4>7. Cardinality(In) = PlayerLimit  BY <1>1, <4>2
      <4>8. C2 \subseteq X  BY <3>1, <4>1
      <4>9. Cardinality(C2) <= Cardinality(X)  BY <4>6, <4>8, FS_Subset
      <4>10. Cardinality(X) = PlayerLimit
        <5> HIDE DEF X, In
        <5> QED  BY <1>2, <4>4, <4>6, <4>7
      <4> QED  BY <4>9, <4>10
    <3> QED  BY <3>2, <3>3
  <2> QED  BY <2>4, <2>5
<1>15. LimitHolds'  BY <1>14 DEF LimitHolds, Limited
<1> QED  BY <1>12, <1>13, <1>15

-----------------------------------------------------------------------------
(***************************************************************************)
(* The steps.                                                              *)
(***************************************************************************)
\* What the invariant says of a session is the same for d as for r.
SameSession(d, r) ==
    SameAdmission(d, r) /\ d.loading = r.loading /\ d.login = r.login /\ d.player = r.player
    /\ d.progress = r.progress

\* No session comes or goes.
LEMMA ListKept ==
    ASSUME ListInv, m_sessions' = m_sessions, addSessQueue' = addSessQueue,
           left' \subseteq Listed, phase' = "add" => left' = {},
           \A i \in Ids :
              /\ session'[i].place = session[i].place /\ session'[i].account = session[i].account
              /\ session[i].place \in {"none", "adding"} =>
                    session'[i].player = session[i].player /\ session'[i].login = session[i].login,
           Types
    PROVE  ListInv'
<1>1. Listed' = Listed  BY DEF Listed
<1>2. \A a \in Accounts : m_sessions[a] \in Ids \cup {None}  BY DEF Types
<1>3. \A k \in DOMAIN addSessQueue : addSessQueue[k] \in Ids
  <2>1. addSessQueue \in Seq(Ids)  BY DEF Types
  <2> QED  BY <2>1, ElementsOfSeq
<1> QED  BY <1>1, <1>2, <1>3 DEF ListInv

\* Listed sessions, queues and the database stay.
LEMMA CalmStep ==
    ASSUME IInv, Types', ListInv',
           UNCHANGED <<m_QueuedPlayer, m_disconnects, queries, stored, played>>,
           \A i \in Ids :
              /\ session'[i].place = "listed" <=> session[i].place = "listed"
              /\ session[i].place = "deleted" => session'[i].place = "deleted"
              /\ session[i].place = "listed" => SameSession(session'[i], session[i])
    PROVE  IInv'
<1>1. Types /\ QueueIsExact /\ LimitHolds /\ NoLimitNoQueue  BY DEF IInv
<1>2. queries \in Seq(QueryType)  BY <1>1 DEF Types
<1>3. QueueIsExact' /\ LimitHolds' /\ NoLimitNoQueue'
  <2>1. \A i \in Ids : session[i].place = "listed" =>
          /\ session'[i].account = session[i].account
          /\ session'[i].data = "none" <=> session[i].data = "none"
          /\ session[i].data = "none" => session'[i].inQueue = session[i].inQueue
    BY DEF SameSession, SameAdmission
  <2> QED  BY <1>1, <2>1, QueueKept
<1>4. QueryInv(session', queries)
  <2>1. \A i \in Ids : session[i].place \in {"listed", "deleted"} =>
          /\ session'[i].place \in {"listed", "deleted"}
          /\ session'[i].place = "listed" => /\ session[i].place = "listed"
                                             /\ session[i].data # "none" => session'[i].data # "none"
    BY DEF SameSession, SameAdmission
  <2> QED  BY <1>2, <2>1, KnownStep DEF IInv
<1>5. LoadedInv(session', played)
  <2> SUFFICES ASSUME NEW i \in Ids, session'[i].place = "listed"
               PROVE  Loaded(session'[i], played)
    BY DEF LoadedInv, Loaded
  <2>1. Loaded(session[i], played) /\ session[i].place = "listed" /\ SameSession(session'[i], session[i])
    BY DEF IInv, CharInv, LoadedInv
  <2> QED  BY <2>1 DEF Loaded, SameSession, SameAdmission
<1>6. \A a \in Accounts : InGame(session, a) => InGame(session', a)
  <2>1. \A i \in Ids : session[i].place = "listed" =>
          session'[i].place = "listed" /\ session'[i].player = session[i].player
          /\ session'[i].account = session[i].account
    BY DEF SameSession, SameAdmission
  <2> QED  BY <2>1 DEF InGame
<1>7. SavedInv(session', queries, stored, played)  BY <1>6 DEF IInv, CharInv, SavedInv
<1>8. LoginInv(session', queries)
  <2>1. \A i \in Ids : session'[i].place = "listed" =>
          \/ \A k \in DOMAIN queries : queries[k].what = "login" => queries[k].id # i
          \/ /\ session[i].place = "listed" /\ session'[i].account = session[i].account
             /\ session[i].login = "asked" => session'[i].login = "asked"
    BY DEF SameSession, SameAdmission
  <2> QED  BY <1>2, <2>1, LoginChange DEF IInv, CharInv
<1> QED  BY <1>3, <1>4, <1>5, <1>7, <1>8 DEF IInv, CharInv

\* Neither does a step in which sessions only change otherwise.
LEMMA QuietStep ==
    ASSUME IInv, Types', left' \subseteq Listed, phase' = "add" => left' = {},
           UNCHANGED <<addSessQueue, m_sessions, m_QueuedPlayer, m_disconnects, queries, stored, played>>,
           \A i \in Ids : SameSession(session'[i], session[i])
    PROVE  IInv'
<1>1. Types /\ ListInv  BY DEF IInv
<1>2. \A i \in Ids : /\ session'[i].place = session[i].place /\ session'[i].account = session[i].account
                     /\ session'[i].player = session[i].player /\ session'[i].login = session[i].login
  BY DEF SameSession, SameAdmission
<1>3. ListInv'  BY <1>1, <1>2, ListKept
<1> QED  BY <1>2, <1>3, CalmStep

\* A packet arrives: only the session's queue of packets changes.
LEMMA QueuePacketStep ==
    ASSUME IInv, NEW i \in Ids, NEW kind \in Kinds, QueuePacket(i, kind)
    PROVE  IInv'
<1>1. Types /\ left \subseteq Listed /\ (phase = "add" => left = {})  BY DEF IInv, ListInv
<1> DEFINE p == [n |-> sent', kind |-> kind, delayed |-> FALSE]
           d == [session[i] EXCEPT !.recvQueue = Append(session[i].recvQueue, p)]
<1>2. session[i] \in Session /\ session \in [Ids -> Session] /\ sent \in Nat  BY <1>1 DEF Types
<1>3. p \in Packet /\ sent' \in Nat  BY <1>2 DEF QueuePacket, Packet
<1>4. session' = [session EXCEPT ![i] = d]  BY <1>2 DEF QueuePacket
<1> HIDE DEF p
<1>5. d \in Session /\ SameSession(d, session[i])
  <2>1. session[i].recvQueue \in Seq(Packet)  BY <1>2 DEF Session
  <2>2. Append(session[i].recvQueue, p) \in Seq(Packet)  BY <1>3, <2>1
  <2>3. d \in Session  BY <1>2, <2>2 DEF Session
  <2>4. SameSession(d, session[i])  BY <1>2 DEF Session, SameSession, SameAdmission
  <2> QED  BY <2>3, <2>4
<1> HIDE DEF d
<1>6. Types'  BY <1>1, <1>2, <1>3, <1>4, <1>5 DEF Types, QueuePacket, world
<1>7. \A j \in Ids : SameSession(session'[j], session[j])
  <2>1. \A j \in Ids : SameSession(session[j], session[j])  BY DEF SameSession, SameAdmission
  <2> QED  BY <1>2, <1>4, <1>5, <2>1
<1> QED  BY <1>1, <1>6, <1>7, QuietStep DEF QueuePacket, world

\* A socket closes, or time passes for a session.
LEMMA SmallSteps ==
    ASSUME IInv, NEW i \in Ids, CloseSocket(i) \/ Expire(i) \/ LogOutDue(i)
    PROVE  IInv'
<1>1. Types /\ left \subseteq Listed /\ (phase = "add" => left = {})  BY DEF IInv, ListInv
<1>2. session[i] \in Session /\ session \in [Ids -> Session]  BY <1>1 DEF Types
<1>3. \E d \in Session : session' = [session EXCEPT ![i] = d] /\ SameSession(d, session[i])
  <2>1. CASE CloseSocket(i)
    <3> DEFINE d == [session[i] EXCEPT !.open = FALSE]
    <3>1. d \in Session /\ SameSession(d, session[i])
      BY <1>2 DEF Session, SameSession, SameAdmission
    <3>2. session' = [session EXCEPT ![i] = d]  BY <1>2, <2>1 DEF CloseSocket
    <3> QED  BY <3>1, <3>2
  <2>2. CASE Expire(i)
    <3> DEFINE d == [session[i] EXCEPT !.expired = TRUE]
    <3>1. d \in Session /\ SameSession(d, session[i])
      BY <1>2 DEF Session, SameSession, SameAdmission
    <3>2. session' = [session EXCEPT ![i] = d]  BY <1>2, <2>2 DEF Expire
    <3> QED  BY <3>1, <3>2
  <2>3. CASE LogOutDue(i)
    <3> DEFINE d == [session[i] EXCEPT !.logout = "due"]
    <3>1. d \in Session /\ SameSession(d, session[i])
      BY <1>2 DEF Session, SameSession, SameAdmission
    <3>2. session' = [session EXCEPT ![i] = d]  BY <1>2, <2>3 DEF LogOutDue
    <3> QED  BY <3>1, <3>2
  <2> QED  BY <2>1, <2>2, <2>3
<1>4. UNCHANGED <<addSessQueue, world, loop, queries, stored, played>>
  BY DEF CloseSocket, Expire, LogOutDue
<1>5. Types'  BY <1>1, <1>2, <1>3, <1>4 DEF Types, world, loop
<1>6. \A j \in Ids : SameSession(session'[j], session[j])
  <2>1. \A j \in Ids : SameSession(session[j], session[j])  BY DEF SameSession, SameAdmission
  <2> QED  BY <1>2, <1>3, <2>1
<1> QED  BY <1>1, <1>4, <1>5, <1>6, QuietStep DEF world, loop

\* The next phase, or nothing at all.
LEMMA NextPhaseStep ==
    ASSUME IInv, NextPhase \/ UNCHANGED vars
    PROVE  IInv'
<1>1. Types /\ left \subseteq Listed /\ (phase = "add" => left = {})  BY DEF IInv, ListInv
<1>2. InWorld \subseteq Listed /\ Listed \subseteq Ids  BY DEF InWorld, Listed
<1>3. UNCHANGED <<session, addSessQueue, world, sent, queries, stored, played>>  BY DEF NextPhase, vars, world
<1>4. /\ phase' \in {"add", "world", "maps"} /\ left' \subseteq Listed /\ (phase' = "add" => left' = {})
  BY <1>1, <1>2 DEF NextPhase, vars, Types
<1>5. Types'  BY <1>1, <1>2, <1>3, <1>4 DEF Types, world
<1>6. \A j \in Ids : SameSession(session'[j], session[j])  BY <1>3 DEF SameSession, SameAdmission
<1> QED  BY <1>3, <1>4, <1>5, <1>6, QuietStep DEF world

\* A new session, which the world does not know yet.
LEMMA AddSessionStep ==
    ASSUME IInv, NEW i \in Ids, NEW a \in Accounts, AddSession(i, a)
    PROVE  IInv'
<1>1. Types /\ ListInv  BY DEF IInv
<1>2. session[i] \in Session /\ session \in [Ids -> Session] /\ addSessQueue \in Seq(Ids)
  BY <1>1 DEF Types
<1> DEFINE d == [session[i] EXCEPT !.place = "adding", !.account = a, !.open = TRUE]
<1>3. session' = [session EXCEPT ![i] = d] /\ session[i].place = "none"
  <2>1. i >= i  BY IdFacts
  <2> QED  BY <1>2, <2>1 DEF AddSession
<1>4. d \in Session /\ d.place = "adding" /\ d.account = a
      /\ d.player = session[i].player /\ d.login = session[i].login
  BY <1>2 DEF Session
<1> HIDE DEF d
<1>5. session'[i] = d /\ \A j \in Ids : j # i => session'[j] = session[j]  BY <1>2, <1>3
<1>6. Types'
  <2>1. session' \in [Ids -> Session]  BY <1>2, <1>3, <1>4
  <2>2. Append(addSessQueue, i) \in Seq(Ids)  BY <1>2
  <2> QED  BY <1>1, <2>1, <2>2 DEF AddSession, Types, world, loop
<1>7. ListInv'
  <2>1. \A j \in Ids : session'[j].place = "listed" <=> session[j].place = "listed"  BY <1>3, <1>4, <1>5
  <2>2. Listed' = Listed  BY <2>1 DEF Listed
  <2>3. \A k \in DOMAIN addSessQueue : addSessQueue[k] \in Ids /\ session[addSessQueue[k]].place = "adding"
    <3>1. \A k \in DOMAIN addSessQueue : addSessQueue[k] \in Ids  BY <1>2, ElementsOfSeq
    <3> QED  BY <1>1, <3>1 DEF ListInv
  <2>4. i \notin Range(addSessQueue)  BY <1>3, <2>3 DEF Range
  <2>5. IsInjective(addSessQueue)  BY <1>1 DEF ListInv
  <2>6. IsInjective(addSessQueue')
    <3>1. IsInjective(Append(addSessQueue, i))  BY <1>2, <2>4, <2>5, AppendQueue
    <3> QED  BY <3>1 DEF AddSession
  <2>7. \A k \in DOMAIN addSessQueue' : session'[addSessQueue'[k]].place = "adding"
    <3> DEFINE p == Append(addSessQueue, i)
    <3>1. \A k \in DOMAIN p : (k \in DOMAIN addSessQueue /\ p[k] = addSessQueue[k]) \/ p[k] = i  BY <1>2
    <3> HIDE DEF p
    <3>2. \A k \in DOMAIN p : session'[p[k]].place = "adding"  BY <1>3, <1>4, <1>5, <2>3, <3>1
    <3> QED  BY <3>2 DEF p, AddSession
  <2>8. \A j \in Ids : session'[j].place \in {"adding", "listed"} => session'[j].account \in Accounts
    BY <1>1, <1>4, <1>5 DEF ListInv
  <2>9. \A j \in Ids : session'[j].place \in {"none", "adding"} =>
          ~session'[j].player /\ session'[j].login = "none"
    BY <1>1, <1>3, <1>4, <1>5 DEF ListInv
  <2>10. \A j \in Ids : session'[j].place = "listed" => m_sessions[session'[j].account] = j
    BY <1>1, <1>3, <1>4, <1>5 DEF ListInv
  <2>11. \A b \in Accounts : m_sessions[b] # None =>
          session'[m_sessions[b]].place = "listed" /\ session'[m_sessions[b]].account = b
    <3>1. \A b \in Accounts : m_sessions[b] \in Ids \cup {None}  BY <1>1 DEF Types
    <3> QED  BY <1>1, <1>3, <1>5, <3>1 DEF ListInv
  <2>12. left' \subseteq Listed' /\ (phase' = "add" => left' = {}) /\ m_sessions' = m_sessions
    BY <1>1, <2>2 DEF ListInv, AddSession, loop, world
  <2> QED  BY <2>6, <2>7, <2>8, <2>9, <2>10, <2>11, <2>12 DEF ListInv
<1>8. \A j \in Ids :
        /\ session'[j].place = "listed" <=> session[j].place = "listed"
        /\ session[j].place = "deleted" => session'[j].place = "deleted"
        /\ session[j].place = "listed" => SameSession(session'[j], session[j])
  BY <1>3, <1>4, <1>5 DEF SameSession, SameAdmission
<1> QED  BY <1>6, <1>7, <1>8, CalmStep DEF AddSession, world

\* The new session that is next.
LEMMA AddedFacts ==
    ASSUME Types, ListInv, Adding
    PROVE  /\ Added \in Ids /\ session[Added].place = "adding" /\ session[Added].account \in Accounts
           /\ ~session[Added].player /\ session[Added].login = "none"
           /\ Tail(addSessQueue) \in Seq(Ids) /\ IsInjective(Tail(addSessQueue))
           /\ \A k \in DOMAIN Tail(addSessQueue) :
                 /\ Tail(addSessQueue)[k] \in Ids /\ Tail(addSessQueue)[k] # Added
                 /\ session[Tail(addSessQueue)[k]].place = "adding"
<1> DEFINE t == Tail(addSessQueue)
<1>1. addSessQueue \in Seq(Ids) /\ addSessQueue # <<>> /\ IsInjective(addSessQueue)
  BY DEF Types, ListInv, Adding
<1>2. \A k \in DOMAIN addSessQueue : session[addSessQueue[k]].place = "adding"  BY DEF ListInv
<1>3. 1 \in DOMAIN addSessQueue /\ Added = addSessQueue[1] /\ Added \in Ids  BY <1>1 DEF Added
<1>4. session[Added].place = "adding"  BY <1>2, <1>3
<1>5. session[Added].account \in Accounts /\ ~session[Added].player /\ session[Added].login = "none"
  BY <1>3, <1>4 DEF ListInv
<1>6. t \in Seq(Ids) /\ IsInjective(t)  BY <1>1, TailQueue
<1>7. \A k \in DOMAIN t : k + 1 \in DOMAIN addSessQueue /\ k + 1 # 1 /\ t[k] = addSessQueue[k + 1] /\ t[k] \in Ids
  BY <1>1
<1> HIDE DEF t
<1>8. \A k \in DOMAIN t : t[k] \in Ids /\ t[k] # Added /\ session[t[k]].place = "adding"
  BY <1>1, <1>2, <1>3, <1>7 DEF IsInjective
<1> QED  BY <1>3, <1>4, <1>5, <1>6, <1>8 DEF t

\* The new session is refused, because a character of the account is being loaded.
LEMMA RefuseSessionStep ==
    ASSUME IInv, RefuseSession
    PROVE  IInv'
<1>1. Types /\ ListInv  BY DEF IInv
<1> DEFINE i == Added
           t == Tail(addSessQueue)
<1>2. /\ i \in Ids /\ session[i].place = "adding"
      /\ t \in Seq(Ids) /\ IsInjective(t)
      /\ \A k \in DOMAIN t : t[k] \in Ids /\ t[k] # i /\ session[t[k]].place = "adding"
  BY <1>1, AddedFacts DEF RefuseSession
<1>3. session' = [session EXCEPT ![i] = Deleted] /\ addSessQueue' = t  BY DEF RefuseSession
<1> HIDE DEF i, t
<1>4. session \in [Ids -> Session]  BY <1>1 DEF Types
<1>5. session'[i] = Deleted /\ \A j \in Ids : j # i => session'[j] = session[j]  BY <1>2, <1>3, <1>4
<1>6. Deleted \in Session /\ Deleted.place = "deleted"  BY UnbornType DEF Deleted, Unborn
<1>7. Types'
  <2>1. session' \in [Ids -> Session]  BY <1>2, <1>3, <1>4, <1>6
  <2> QED  BY <1>1, <1>2, <1>3, <2>1 DEF Types, RefuseSession, world, loop
<1>8. \A j \in Ids :
        /\ session'[j].place = "listed" <=> session[j].place = "listed"
        /\ session[j].place = "deleted" => session'[j].place = "deleted"
        /\ session[j].place = "listed" => SameSession(session'[j], session[j])
  BY <1>2, <1>5, <1>6 DEF SameSession, SameAdmission
<1>9. ListInv'
  <2>1. Listed' = Listed  BY <1>8 DEF Listed
  <2>2. m_sessions' = m_sessions /\ left' = left /\ phase' = phase  BY DEF RefuseSession, world, loop
  <2>3. \A j \in Ids : session'[j].place \in {"none", "adding", "listed"} => session'[j] = session[j]
    BY <1>5, <1>6
  <2>4. \A k \in DOMAIN t : session'[t[k]].place = "adding"  BY <1>2, <1>5
  <2>5. \A b \in Accounts : m_sessions[b] # None =>
          session'[m_sessions[b]].place = "listed" /\ session'[m_sessions[b]].account = b
    <3>1. \A b \in Accounts : m_sessions[b] \in Ids \cup {None}  BY <1>1 DEF Types
    <3> QED  BY <1>1, <1>2, <1>5, <3>1 DEF ListInv
  <2>6. \A j \in Ids : session'[j].place \in {"adding", "listed"} => session'[j].account \in Accounts
    BY <1>1, <2>3 DEF ListInv
  <2>7. \A j \in Ids : session'[j].place \in {"none", "adding"} =>
          ~session'[j].player /\ session'[j].login = "none"
    BY <1>1, <2>3 DEF ListInv
  <2>8. \A j \in Ids : session'[j].place = "listed" => m_sessions[session'[j].account] = j
    BY <1>1, <2>3 DEF ListInv
  <2>9. left \subseteq Listed /\ (phase = "add" => left = {})  BY <1>1 DEF ListInv
  <2> QED  BY <1>2, <1>3, <2>1, <2>2, <2>4, <2>5, <2>6, <2>7, <2>8, <2>9 DEF ListInv
<1> QED  BY <1>7, <1>8, <1>9, CalmStep DEF RefuseSession, world

\* The queries after the first.
LEMMA TailQueries ==
    ASSUME NEW qs \in Seq(QueryType), qs # <<>>
    PROVE  /\ Tail(qs) \in Seq(QueryType) /\ Head(qs) = qs[1] /\ 1 \in DOMAIN qs
           /\ Head(qs) \in QueryType
           /\ \A k \in DOMAIN Tail(qs) : k \in Nat /\ k + 1 \in DOMAIN qs /\ k + 1 > 1 /\ Tail(qs)[k] = qs[k + 1]
           /\ \A k \in DOMAIN qs : k \in Nat /\ (k # 1 => k - 1 \in DOMAIN Tail(qs) /\ Tail(qs)[k - 1] = qs[k])
<1>1. Tail(qs) \in Seq(QueryType) /\ Head(qs) = qs[1] /\ 1 \in DOMAIN qs /\ Head(qs) \in QueryType
  OBVIOUS
<1>2. \A k \in DOMAIN Tail(qs) : k \in Nat /\ k + 1 \in DOMAIN qs /\ k + 1 > 1 /\ Tail(qs)[k] = qs[k + 1]
  OBVIOUS
<1>3. \A k \in DOMAIN qs : k \in Nat /\ (k # 1 => k - 1 \in DOMAIN Tail(qs) /\ Tail(qs)[k - 1] = qs[k])
  OBVIOUS
<1> QED  BY <1>1, <1>2, <1>3

\* The first query executed, the others are as they were.
LEMMA LoginTail ==
    ASSUME NEW s, NEW qs \in Seq(QueryType), qs # <<>>, LoginInv(s, qs)
    PROVE  LoginInv(s, Tail(qs))
<1> DEFINE t == Tail(qs)
<1>1. \A k \in DOMAIN t : k \in Nat /\ k + 1 \in DOMAIN qs /\ t[k] = qs[k + 1]  BY TailQueries
<1> HIDE DEF t
<1> SUFFICES ASSUME NEW k \in DOMAIN t, t[k].what = "login", s[t[k].id].place = "listed"
             PROVE  /\ s[t[k].id].login = "asked" /\ s[t[k].id].account = t[k].account
                    /\ \A j \in DOMAIN t : j > k => ~IsSave(t[j], t[k].account)
                    /\ \A j \in DOMAIN t : j # k => t[j].what # "login" \/ t[j].id # t[k].id
  BY DEF LoginInv, t
<1>2. s[t[k].id].login = "asked" /\ s[t[k].id].account = t[k].account  BY <1>1 DEF LoginInv
<1>3. ASSUME NEW j \in DOMAIN t, j > k
      PROVE  ~IsSave(t[j], t[k].account)
  <2>1. j + 1 > k + 1  BY <1>1, <1>3
  <2> QED  BY <1>1, <2>1 DEF LoginInv
<1>4. ASSUME NEW j \in DOMAIN t, j # k
      PROVE  t[j].what # "login" \/ t[j].id # t[k].id
  <2>1. j + 1 # k + 1  BY <1>1, <1>4
  <2> QED  BY <1>1, <2>1 DEF LoginInv
<1> QED  BY <1>2, <1>3, <1>4

\* The first query executed, what is stored for account a is st2[a].
LEMMA SavedTail ==
    ASSUME NEW qs \in Seq(QueryType), qs # <<>>, NEW st, NEW st2, NEW a, NEW v, SavedAs(qs, st, a, v),
           st2[a] = IF IsSave(Head(qs), a) THEN Head(qs).progress ELSE st[a]
    PROVE  SavedAs(Tail(qs), st2, a, v)
<1> DEFINE t == Tail(qs)
<1>1. /\ Head(qs) = qs[1] /\ 1 \in DOMAIN qs
      /\ \A k \in DOMAIN t : k \in Nat /\ k + 1 \in DOMAIN qs /\ k + 1 > 1 /\ t[k] = qs[k + 1]
      /\ \A k \in DOMAIN qs : k \in Nat /\ (k # 1 => k - 1 \in DOMAIN t /\ t[k - 1] = qs[k])
  BY TailQueries
<1> HIDE DEF t
<1>2. CASE \E k \in DOMAIN qs : /\ IsSave(qs[k], a) /\ qs[k].progress = v
                                /\ \A j \in DOMAIN qs : j > k => ~IsSave(qs[j], a)
  <2>1. PICK k \in DOMAIN qs : /\ IsSave(qs[k], a) /\ qs[k].progress = v
                               /\ \A j \in DOMAIN qs : j > k => ~IsSave(qs[j], a)
    BY <1>2
  <2>2. CASE k = 1
    <3>1. \A j \in DOMAIN t : ~IsSave(t[j], a)  BY <1>1, <2>1, <2>2
    <3>2. st2[a] = v  BY <1>1, <2>1, <2>2
    <3> QED  BY <3>1, <3>2 DEF SavedAs, t
  <2>3. CASE k # 1
    <3>1. k - 1 \in DOMAIN t /\ t[k - 1] = qs[k] /\ k \in Nat  BY <1>1, <2>1, <2>3
    <3>2. \A j \in DOMAIN t : j > k - 1 => ~IsSave(t[j], a)
      <4> SUFFICES ASSUME NEW j \in DOMAIN t, j > k - 1
                   PROVE  ~IsSave(t[j], a)
        OBVIOUS
      <4>1. j + 1 > k /\ j + 1 \in DOMAIN qs /\ t[j] = qs[j + 1]  BY <1>1, <3>1
      <4> QED  BY <2>1, <4>1
    <3> QED  BY <2>1, <3>1, <3>2 DEF SavedAs, t
  <2> QED  BY <2>2, <2>3
<1>3. CASE st[a] = v /\ \A k \in DOMAIN qs : ~IsSave(qs[k], a)
  <2>1. \A j \in DOMAIN t : ~IsSave(t[j], a)  BY <1>1, <1>3
  <2>2. st2[a] = v  BY <1>1, <1>3
  <2> QED  BY <2>1, <2>2 DEF SavedAs, t
<1> QED  BY <1>2, <1>3 DEF SavedAs

\* The database executes its first query.  The saves of an account come before its login
\* query, so what is loaded is what was played.
LEMMA ExecuteQueryStep ==
    ASSUME IInv, ExecuteQuery
    PROVE  IInv'
<1> DEFINE q == Head(queries)
<1>1. Types /\ ListInv /\ QueueIsExact /\ LimitHolds /\ NoLimitNoQueue /\ QueryInv(session, queries)
      /\ LoadedInv(session, played) /\ SavedInv(session, queries, stored, played) /\ LoginInv(session, queries)
  BY DEF IInv, CharInv
<1>2. queries \in Seq(QueryType) /\ queries # <<>> /\ session \in [Ids -> Session]
      /\ stored \in [Accounts -> Nat] /\ played \in [Accounts -> Nat]
  BY <1>1 DEF Types, ExecuteQuery
<1>3. Tail(queries) \in Seq(QueryType) /\ q = queries[1] /\ 1 \in DOMAIN queries /\ q \in QueryType
  BY <1>2, TailQueries
<1>4. q.id \in Ids /\ q.progress \in Nat /\ session[q.id] \in Session /\ Known(session, q)
      /\ session[q.id].place \in {"listed", "deleted"}
  <2>1. q.id \in Ids /\ q.progress \in Nat  BY <1>3 DEF QueryType
  <2>2. Known(session, q)  BY <1>1, <1>3 DEF QueryInv
  <2> QED  BY <1>2, <2>1, <2>2 DEF Known
\* What becomes of the sessions and of what is stored.
<1>5. /\ queries' = Tail(queries)
      /\ UNCHANGED <<addSessQueue, world, loop, played>>
      /\ \/ /\ q.what = "save" /\ session' = session
            /\ stored' = [stored EXCEPT ![q.account] = q.progress]
         \/ /\ q.what = "data" /\ session[q.id].place = "listed" /\ stored' = stored
            /\ session' = [session EXCEPT ![q.id] = [session[q.id] EXCEPT !.data = "there"]]
         \/ /\ q.what = "login" /\ session[q.id].place = "listed" /\ stored' = stored
            /\ session' = [session EXCEPT ![q.id] = [session[q.id] EXCEPT !.login = "there",
                                                       !.progress = stored[q.account]]]
         \/ /\ q.what # "save" /\ session' = session /\ stored' = stored
  BY <1>2, <1>4 DEF ExecuteQuery
<1> HIDE DEF q
\* A character is loaded as it was played.
<1>6. q.what = "login" /\ session[q.id].place = "listed" =>
        /\ session[q.id].login = "asked" /\ ~session[q.id].player /\ session[q.id].loading
        /\ q.account = session[q.id].account /\ q.account \in Accounts
        /\ stored[q.account] = played[q.account]
  <2> SUFFICES ASSUME q.what = "login", session[q.id].place = "listed"
               PROVE  /\ session[q.id].login = "asked" /\ ~session[q.id].player /\ session[q.id].loading
                      /\ q.account = session[q.id].account /\ q.account \in Accounts
                      /\ stored[q.account] = played[q.account]
    OBVIOUS
  <2>1. /\ session[q.id].login = "asked" /\ session[q.id].account = q.account
        /\ \A j \in DOMAIN queries : j > 1 => ~IsSave(queries[j], q.account)
    BY <1>1, <1>3 DEF LoginInv
  <2>2. ~session[q.id].player /\ session[q.id].loading
    <3>1. Loaded(session[q.id], played)  BY <1>1, <1>4 DEF LoadedInv
    <3> QED  BY <2>1, <3>1 DEF Loaded
  <2>3. q.account \in Accounts /\ ~InGame(session, q.account)  BY <1>1, <1>4, <2>1, <2>2, OnePlayer
  <2>4. SavedAs(queries, stored, q.account, played[q.account])  BY <1>1, <2>3 DEF SavedInv
  <2>5. \A j \in DOMAIN queries : ~IsSave(queries[j], q.account)
    <3>1. \A j \in DOMAIN queries : j = 1 \/ j > 1  BY <1>2
    <3>2. ~IsSave(queries[1], q.account)  BY <1>3 DEF IsSave
    <3> QED  BY <2>1, <3>1, <3>2
  <2>6. stored[q.account] = played[q.account]  BY <2>4, <2>5 DEF SavedAs
  <2> QED  BY <2>1, <2>2, <2>3, <2>6
\* The effect on a session.
<1>7. /\ session' \in [Ids -> Session]
      /\ \A j \in Ids : SameSession(session'[j], session[j])
           \/ /\ j = q.id /\ q.what = "data" /\ session[j].place = "listed" /\ session[j].data # "none"
              /\ session'[j].data = "there" /\ session'[j].place = session[j].place
              /\ session'[j].account = session[j].account /\ session'[j].loading = session[j].loading
              /\ session'[j].login = session[j].login /\ session'[j].player = session[j].player
              /\ session'[j].progress = session[j].progress
           \/ /\ j = q.id /\ q.what = "login" /\ session[j].place = "listed"
              /\ SameAdmission(session'[j], session[j]) /\ session'[j].loading = session[j].loading
              /\ session'[j].player = session[j].player
              /\ session'[j].login = "there" /\ session'[j].progress = played[session[j].account]
  <2>1. \A r \in Session : SameSession(r, r)  BY DEF SameSession, SameAdmission
  <2>2. CASE session' = session  BY <1>2, <2>1, <2>2
  <2>3. CASE /\ q.what = "data" /\ session[q.id].place = "listed"
             /\ session' = [session EXCEPT ![q.id] = [session[q.id] EXCEPT !.data = "there"]]
    <3> DEFINE r == session[q.id]
               d == [r EXCEPT !.data = "there"]
    <3>1. /\ d \in Session /\ d.data = "there" /\ d.place = r.place /\ d.account = r.account
          /\ d.loading = r.loading /\ d.login = r.login /\ d.player = r.player /\ d.progress = r.progress
      BY <1>4 DEF Session
    <3>2. r.data # "none"  BY <1>4, <2>3 DEF Known
    <3>3. session' = [session EXCEPT ![q.id] = d]  BY <2>3
    <3> HIDE DEF d
    <3> QED  BY <1>2, <1>4, <2>1, <2>3, <3>1, <3>2, <3>3
  <2>4. CASE /\ q.what = "login" /\ session[q.id].place = "listed"
             /\ session' = [session EXCEPT ![q.id] = [session[q.id] EXCEPT !.login = "there",
                                                        !.progress = stored[q.account]]]
    <3> DEFINE r == session[q.id]
               d == [r EXCEPT !.login = "there", !.progress = stored[q.account]]
    <3>1. stored[q.account] \in Nat /\ stored[q.account] = played[r.account]  BY <1>2, <1>6, <2>4
    <3>2. /\ d \in Session /\ SameAdmission(d, r) /\ d.login = "there"
          /\ d.loading = r.loading /\ d.player = r.player /\ d.progress = stored[q.account]
      BY <1>4, <3>1 DEF Session, SameAdmission
    <3>3. session' = [session EXCEPT ![q.id] = d]  BY <2>4
    <3> HIDE DEF d
    <3> QED  BY <1>2, <1>4, <2>1, <2>4, <3>1, <3>2, <3>3
  <2> QED  BY <1>5, <2>2, <2>3, <2>4
<1>8. Types'
  <2>1. stored' \in [Accounts -> Nat]  BY <1>2, <1>4, <1>5
  <2> QED  BY <1>1, <1>3, <1>5, <1>7, <2>1 DEF Types, world, loop
<1>9. \A j \in Ids : session'[j].place = session[j].place /\ session'[j].account = session[j].account
                     /\ session'[j].player = session[j].player
  BY <1>7 DEF SameSession, SameAdmission
<1>10. ListInv'
  <2>1. \A j \in Ids : session[j].place \in {"none", "adding"} => session'[j].login = session[j].login
    BY <1>7 DEF SameSession
  <2>2. left' \subseteq Listed /\ (phase' = "add" => left' = {}) /\ m_sessions' = m_sessions
        /\ addSessQueue' = addSessQueue
    BY <1>1, <1>5 DEF ListInv, loop, world
  <2> QED  BY <1>1, <1>9, <2>1, <2>2, ListKept
<1>11. QueueIsExact' /\ LimitHolds' /\ NoLimitNoQueue'
  <2>1. \A j \in Ids : session[j].place = "listed" =>
          /\ session'[j].data = "none" <=> session[j].data = "none"
          /\ session[j].data = "none" => session'[j].inQueue = session[j].inQueue
    BY <1>7 DEF SameSession, SameAdmission
  <2>2. m_QueuedPlayer' = m_QueuedPlayer /\ m_disconnects' = m_disconnects  BY <1>5 DEF world
  <2> QED  BY <1>1, <1>9, <1>10, <2>1, <2>2, QueueKept
<1>12. QueryInv(session', Tail(queries))
  <2>1. \A j \in Ids : session[j].data # "none" => session'[j].data # "none"
    BY <1>7 DEF SameSession, SameAdmission
  <2>2. QueryInv(session', queries)  BY <1>1, <1>2, <1>9, <2>1, KnownStep
  <2>3. \A k \in DOMAIN Tail(queries) : k + 1 \in DOMAIN queries /\ Tail(queries)[k] = queries[k + 1]
    BY <1>2, TailQueries
  <2> QED  BY <2>2, <2>3 DEF QueryInv
<1>13. LoadedInv(session', played)
  <2> SUFFICES ASSUME NEW j \in Ids, session'[j].place = "listed"
               PROVE  Loaded(session'[j], played)
    BY DEF LoadedInv, Loaded
  <2>1. Loaded(session[j], played) /\ session[j].place = "listed"  BY <1>1, <1>9 DEF LoadedInv
  <2> QED  BY <1>6, <1>7, <2>1 DEF Loaded, SameSession, SameAdmission
<1>14. SavedInv(session', Tail(queries), stored', played)
  <2> SUFFICES ASSUME NEW a \in Accounts, ~InGame(session', a)
               PROVE  SavedAs(Tail(queries), stored', a, played[a])
    BY DEF SavedInv
  <2>1. ~InGame(session, a)  BY <1>9 DEF InGame
  <2>2. SavedAs(queries, stored, a, played[a])  BY <1>1, <2>1 DEF SavedInv
  <2>3. stored'[a] = IF IsSave(Head(queries), a) THEN Head(queries).progress ELSE stored[a]
    <3>1. stored'[a] = IF IsSave(q, a) THEN q.progress ELSE stored[a]  BY <1>2, <1>5 DEF IsSave
    <3> QED  BY <3>1 DEF q
  <2> QED  BY <1>2, <2>2, <2>3, SavedTail
<1>15. LoginInv(session', Tail(queries))
  <2> DEFINE t == Tail(queries)
  <2>1. LoginInv(session, t) /\ t \in Seq(QueryType)  BY <1>1, <1>2, <1>3, LoginTail
  <2>2. \A k \in DOMAIN t : k + 1 \in DOMAIN queries /\ k + 1 # 1 /\ t[k] = queries[k + 1]
    <3>1. \A k \in DOMAIN t : k \in Nat /\ k + 1 \in DOMAIN queries /\ k + 1 > 1 /\ t[k] = queries[k + 1]
      BY <1>2, TailQueries
    <3> QED  BY <3>1
  <2> HIDE DEF t
  <2>3. q.what = "login" /\ session[q.id].place = "listed" =>
          \A k \in DOMAIN t : t[k].what = "login" => t[k].id # q.id
    <3>1. q.what = "login" /\ session[q.id].place = "listed" =>
            \A k \in DOMAIN queries : k # 1 => queries[k].what # "login" \/ queries[k].id # q.id
      BY <1>1, <1>3 DEF LoginInv
    <3> QED  BY <2>2, <3>1
  <2>4. \A j \in Ids : session'[j].place = "listed" =>
          \/ \A k \in DOMAIN t : t[k].what = "login" => t[k].id # j
          \/ /\ session[j].place = "listed" /\ session'[j].account = session[j].account
             /\ session[j].login = "asked" => session'[j].login = "asked"
    BY <1>7, <1>9, <2>3 DEF SameSession
  <2>5. LoginInv(session', t)  BY <2>1, <2>4, LoginChange
  <2> QED  BY <2>5 DEF t
<1> QED  BY <1>5, <1>8, <1>10, <1>11, <1>12, <1>13, <1>14, <1>15 DEF IInv, CharInv

\* The larger of two numbers.
LEMMA LargerOf ==
    ASSUME NEW x \in Nat, NEW y \in Nat, y >= x
    PROVE  Max({x, y}) = y
<1>1. \A z \in {x, y} : y >= z  OBVIOUS
<1>2. \A w \in {x, y} : (\A z \in {x, y} : w >= z) => w = y  OBVIOUS
<1> QED  BY <1>1, <1>2 DEF Max

\* The packet that a session handles, and the session without it.
LEMMA TakenFacts ==
    ASSUME Types, NEW i \in Ids, MorePackets(session[i])
    PROVE  LET k == NextPacket(session[i])
               taken == [session[i] EXCEPT !.recvQueue = RemoveAt(@, k)]
           IN  /\ session[i].recvQueue[k] \in Packet
               /\ taken \in Session /\ SameSession(taken, session[i])
<1> DEFINE r == session[i]
           p == r.recvQueue
           x == RemoveAt(p, 1)
           taken == [r EXCEPT !.recvQueue = x]
<1>1. r \in Session /\ p \in Seq(Packet)  BY DEF Types, Session
<1>2. NextPacket(r) = 1 /\ p # <<>>  BY DEF MorePackets, NextPacket
<1>3. p[1] \in Packet  BY <1>1, <1>2
<1>4. x \in Seq(Packet)
  <2>1. SubSeq(p, 1, 0) \in Seq(Packet) /\ SubSeq(p, 2, Len(p)) \in Seq(Packet)  BY <1>1
  <2> QED  BY <2>1 DEF RemoveAt
<1> HIDE DEF x
<1>5. taken \in Session /\ SameSession(taken, r)
  BY <1>1, <1>4 DEF Session, SameSession, SameAdmission
<1> QED  BY <1>2, <1>3, <1>5 DEF x

\* A packet is handled.
LEMMA HandlePacketStep ==
    ASSUME IInv, NEW i \in Ids, HandlePacket(i)
    PROVE  IInv'
<1>1. Types /\ ListInv /\ QueueIsExact /\ LimitHolds /\ NoLimitNoQueue /\ QueryInv(session, queries)
      /\ LoadedInv(session, played) /\ SavedInv(session, queries, stored, played) /\ LoginInv(session, queries)
  BY DEF IInv, CharInv
<1> DEFINE o == session[i]
           a == o.account
<1>2. queries \in Seq(QueryType) /\ session \in [Ids -> Session] /\ played \in [Accounts -> Nat]
      /\ o \in Session
  BY <1>1 DEF Types
<1>3. o.place = "listed"
  <2>1. i \in left  BY DEF HandlePacket, Updates
  <2> QED  BY <1>1, <2>1 DEF ListInv, Listed
<1>4. /\ a \in Accounts /\ (InGame(session, a) <=> o.player)
      /\ \A j \in Ids : session[j].place = "listed" /\ session[j].account = a => j = i
  BY <1>1, <1>3, OnePlayer
<1>5. PICK r \in Session, packet \in Packet : \E done \in Handled(i, r, packet) :
        /\ SameSession(r, o)
        /\ session' = [session EXCEPT ![i] = done.session]
        /\ queries' = queries \o done.queries
        /\ played' = IF done.session.player
                     THEN [played EXCEPT ![r.account] = Max({played[r.account], done.session.progress})]
                     ELSE played
  BY <1>1, TakenFacts DEF HandlePacket
<1>6. UNCHANGED <<addSessQueue, m_sessions, m_QueuedPlayer, m_disconnects, phase, left, sent, stored>>
  BY DEF HandlePacket, world
<1>7. PICK done \in Handled(i, r, packet) :
        /\ SameSession(r, o)
        /\ session' = [session EXCEPT ![i] = done.session]
        /\ queries' = queries \o done.queries
        /\ played' = IF done.session.player
                     THEN [played EXCEPT ![r.account] = Max({played[r.account], done.session.progress})]
                     ELSE played
  BY <1>5
<1> DEFINE d == done.session
           more == done.queries
<1>8. /\ d \in Session /\ more \in Seq(QueryType) /\ SameAdmission(d, r)
      /\ Stays(d, more, r) \/ Asks(i, d, more, r) \/ Leaves(i, d, more, r)
  BY <1>1, HandledEffect
<1> HIDE DEF d, more
<1>9. session'[i] = d /\ (\A j \in Ids : j # i => session'[j] = session[j]) /\ session' \in [Ids -> Session]
  BY <1>2, <1>7, <1>8 DEF d
<1>10. /\ r.place = "listed" /\ r.account = a /\ r.data = o.data /\ r.inQueue = o.inQueue
       /\ r.loading = o.loading /\ r.login = o.login /\ r.player = o.player /\ r.progress = o.progress
       /\ d.place = "listed" /\ d.account = a /\ d.data = o.data /\ d.inQueue = o.inQueue
       /\ r.progress \in Nat /\ d.progress \in Nat
  BY <1>3, <1>7, <1>8 DEF SameSession, SameAdmission, Session
<1>11. Loaded(o, played)  BY <1>1 DEF LoadedInv
<1>12. /\ queries' = queries \o more
       /\ played' = IF d.player THEN [played EXCEPT ![a] = d.progress] ELSE played
  <2>1. CASE d.player
    <3>1. r.player /\ d.progress >= r.progress  BY <1>8, <2>1 DEF Stays, Asks, Leaves
    <3>2. r.progress = played[a]  BY <1>3, <1>10, <1>11, <3>1 DEF Loaded
    <3>3. Max({played[a], d.progress}) = d.progress  BY <1>2, <1>4, <1>10, <3>1, <3>2, LargerOf
    <3> QED  BY <1>7, <1>10, <2>1, <3>3 DEF d, more
  <2>2. CASE ~d.player  BY <1>7, <2>2 DEF d, more
  <2> QED  BY <2>1, <2>2
<1>13. played' \in [Accounts -> Nat] /\ \A b \in Accounts : b # a => played'[b] = played[b]
  BY <1>2, <1>10, <1>12
<1>14. queries' \in Seq(QueryType)  BY <1>2, <1>8, <1>12, MoreQueries
<1>15. Types'  BY <1>1, <1>6, <1>9, <1>13, <1>14 DEF Types
<1>16. \A j \in Ids : session'[j].place = session[j].place /\ session'[j].account = session[j].account
                      /\ session'[j].data = session[j].data /\ session'[j].inQueue = session[j].inQueue
  BY <1>3, <1>9, <1>10
<1>17. ListInv'
  <2>1. \A j \in Ids : session[j].place \in {"none", "adding"} =>
          session'[j].player = session[j].player /\ session'[j].login = session[j].login
    BY <1>3, <1>9
  <2>2. left' \subseteq Listed /\ (phase' = "add" => left' = {})  BY <1>1, <1>6 DEF ListInv
  <2> QED  BY <1>1, <1>6, <1>16, <2>1, <2>2, ListKept
<1>18. QueueIsExact' /\ LimitHolds' /\ NoLimitNoQueue'  BY <1>1, <1>6, <1>16, <1>17, QueueKept
<1>19. QueryInv(session', queries)
  <2>1. \A j \in Ids : session[j].place \in {"listed", "deleted"} =>
          /\ session'[j].place \in {"listed", "deleted"}
          /\ session'[j].place = "listed" => /\ session[j].place = "listed"
                                             /\ session[j].data # "none" => session'[j].data # "none"
    BY <1>16
  <2> QED  BY <1>1, <1>2, <2>1, KnownStep
\* The rest, for what the handler did.
<1>20. LoadedInv(session', played')
  <2> SUFFICES ASSUME NEW j \in Ids, session'[j].place = "listed"
               PROVE  Loaded(session'[j], played')
    BY DEF LoadedInv, Loaded
  <2>1. CASE j = i
    <3>1. played'[a] = IF d.player THEN d.progress ELSE played[a]  BY <1>2, <1>4, <1>12
    <3>2. o.player => o.login = "none" /\ o.progress = played[a]  BY <1>3, <1>11 DEF Loaded
    <3>3. o.login # "none" => o.loading  BY <1>3, <1>11 DEF Loaded
    <3>4. o.login = "there" => o.progress = played[a]  BY <1>3, <1>11 DEF Loaded
    <3>5. CASE Stays(d, more, r)  BY <1>9, <1>10, <2>1, <3>1, <3>2, <3>3, <3>4, <3>5 DEF Loaded, Stays
    <3>6. CASE Asks(i, d, more, r)  BY <1>9, <1>10, <2>1, <3>6 DEF Loaded, Asks
    <3>7. CASE Leaves(i, d, more, r)  BY <1>9, <1>10, <2>1, <3>2, <3>7 DEF Loaded, Leaves
    <3> QED  BY <1>8, <3>5, <3>6, <3>7
  <2>2. CASE j # i
    <3>1. session'[j] = session[j] /\ session[j].place = "listed"  BY <1>9, <2>2
    <3>2. session[j].account \in Accounts /\ session[j].account # a  BY <1>1, <1>4, <2>2, <3>1 DEF ListInv
    <3>3. played'[session[j].account] = played[session[j].account]  BY <1>13, <3>2
    <3>4. Loaded(session[j], played)  BY <1>1 DEF LoadedInv
    <3> QED  BY <3>1, <3>3, <3>4 DEF Loaded
  <2> QED  BY <2>1, <2>2
<1>21. ASSUME NEW b \in Accounts, b # a
       PROVE  /\ InGame(session, b) => InGame(session', b)
              /\ \A k \in DOMAIN more : ~IsSave(more[k], b)
  <2>1. InGame(session, b) => InGame(session', b)  BY <1>9, <1>21 DEF InGame
  <2>2. CASE Stays(d, more, r)  BY <2>1, <2>2 DEF Stays
  <2>3. CASE Asks(i, d, more, r)
    <3>1. more = <<Query("login", i)>> /\ Query("login", i).what = "login"
      BY <1>1, <2>3, QueryOfSession DEF Asks
    <3>2. \A k \in DOMAIN more : more[k].what = "login"  BY <3>1
    <3> QED  BY <2>1, <3>2 DEF IsSave
  <2>4. CASE Leaves(i, d, more, r)
    <3>1. PICK q \in QueryType : more = <<q>> /\ q.account = a
      BY <1>1, <2>4, SavesType DEF Leaves
    <3>2. \A k \in DOMAIN more : more[k].account = a  BY <3>1
    <3> QED  BY <1>21, <2>1, <3>2 DEF IsSave
  <2> QED  BY <1>8, <2>2, <2>3, <2>4
<1>22. SavedInv(session', queries', stored', played')
  <2>1. \A b \in Accounts : b # a =>
          /\ played'[b] = played[b] /\ (InGame(session, b) => InGame(session', b))
          /\ \A v \in {played[b]} : SavedAs(queries, stored, b, v) => SavedAs(queries', stored', b, v)
    <3> SUFFICES ASSUME NEW b \in Accounts, b # a, SavedAs(queries, stored, b, played[b])
                 PROVE  SavedAs(queries', stored', b, played[b])
      BY <1>13, <1>21
    <3>1. SavedAs(queries \o more, stored, b, played[b])  BY <1>2, <1>8, <1>21, SavedStays
    <3> QED  BY <1>6, <1>12, <3>1
  <2>2. InGame(session', a) \/ SavedAs(queries', stored', a, played'[a])
    <3>1. CASE d.player  BY <1>9, <1>10, <3>1 DEF InGame
    <3>2. CASE ~d.player /\ ~o.player
      <4>1. SavedAs(queries, stored, a, played[a])  BY <1>1, <1>4, <3>2 DEF SavedInv
      <4>2. \A k \in DOMAIN more : ~IsSave(more[k], a)
        <5>1. CASE Stays(d, more, r)  BY <5>1 DEF Stays
        <5>2. CASE Asks(i, d, more, r)
          <6>1. more = <<Query("login", i)>> /\ Query("login", i).what = "login"
            BY <1>1, <5>2, QueryOfSession DEF Asks
          <6>2. \A k \in DOMAIN more : more[k].what = "login"  BY <6>1
          <6> QED  BY <6>2 DEF IsSave
        <5>3. CASE Leaves(i, d, more, r)  BY <1>10, <3>2, <5>3 DEF Leaves
        <5> QED  BY <1>8, <5>1, <5>2, <5>3
      <4>3. SavedAs(queries \o more, stored, a, played[a])  BY <1>2, <1>8, <4>1, <4>2, SavedStays
      <4> QED  BY <1>6, <1>12, <3>2, <4>3
    <3>3. CASE ~d.player /\ o.player
      <4>1. Leaves(i, d, more, r)  BY <1>8, <1>10, <3>3 DEF Stays, Asks
      <4>2. PICK q \in QueryType : /\ more = <<q>> /\ q.what = "save" /\ q.account = a
                                   /\ q.progress = r.progress
        BY <1>1, <4>1, SavesType DEF Leaves
      <4>3. q.progress = played[a]  BY <1>3, <1>10, <1>11, <3>3, <4>2 DEF Loaded
      <4>4. SavedAs(queries \o <<q>>, stored, a, q.progress)  BY <1>2, <4>2, SavedLast DEF IsSave
      <4> QED  BY <1>6, <1>12, <3>3, <4>2, <4>3, <4>4
    <3> QED  BY <3>1, <3>2, <3>3
  <2>3. SavedInv(session, queries, stored, played)  BY <1>1
  <2> HIDE DEF a
  <2> QED  BY <2>1, <2>2, <2>3 DEF SavedInv
<1>23. LoginInv(session', queries') /\ QueryInv(session', queries')
  <2>1. CASE Stays(d, more, r) \/ Leaves(i, d, more, r)
    <3>1. \A j \in Ids : session'[j].place = "listed" =>
            \/ \A k \in DOMAIN queries : queries[k].what = "login" => queries[k].id # j
            \/ /\ session[j].place = "listed" /\ session'[j].account = session[j].account
               /\ session[j].login = "asked" => session'[j].login = "asked"
      BY <1>9, <1>10, <1>16, <2>1 DEF Stays, Leaves
    <3>2. LoginInv(session', queries)
      <4>1. LoginInv(session, queries) /\ queries \in Seq(QueryType)  BY <1>1, <1>2
      <4> QED  BY <3>1, <4>1, LoginChange
    <3>3. \A k \in DOMAIN more : more[k].what = "save" /\ more[k].account = a /\ more[k].id = i /\ o.player
      <4>1. CASE Stays(d, more, r)  BY <4>1 DEF Stays
      <4>2. CASE Leaves(i, d, more, r)
        <5>1. PICK q \in QueryType : /\ more = <<q>> /\ q.what = "save" /\ q.account = a /\ q.id = i
          BY <1>1, <4>2, SavesType DEF Leaves
        <5> QED  BY <1>10, <4>2, <5>1 DEF Leaves
      <4> QED  BY <2>1, <4>1, <4>2
    <3>4. \A k \in DOMAIN more :
            /\ more[k].what # "login"
            /\ \A j \in Ids : session'[j].place = "listed" /\ session'[j].login = "asked"
                 => ~IsSave(more[k], session'[j].account)
      <4>1. o.player => d.login # "asked"
        <5>1. o.player => o.login = "none"  BY <1>3, <1>11 DEF Loaded
        <5> QED  BY <1>10, <2>1, <5>1 DEF Stays, Leaves
      <4>2. \A j \in Ids : session'[j].place = "listed" /\ session'[j].account = a => j = i
        BY <1>4, <1>16
      <4> QED  BY <1>9, <3>3, <4>1, <4>2 DEF IsSave
    <3>5. LoginInv(session', queries \o more)  BY <1>2, <1>8, <3>2, <3>4, LoginMore
    <3>6. \A k \in DOMAIN more : Known(session', more[k])  BY <1>9, <1>10, <3>3 DEF Known
    <3>7. QueryInv(session', queries \o more)  BY <1>2, <1>8, <1>19, <3>6, KnownMore
    <3> QED  BY <1>12, <3>5, <3>7
  <2>2. CASE Asks(i, d, more, r)
    <3> DEFINE q == Query("login", i)
    <3>1. q \in QueryType /\ q.what = "login" /\ q.id = i /\ q.account = a  BY <1>1, QueryOfSession
    <3>2. more = <<q>> /\ d.login = "asked" /\ ~o.loading  BY <1>10, <2>2 DEF Asks
    <3> HIDE DEF q
    <3>3. o.login # "asked"  BY <1>3, <1>11, <3>2 DEF Loaded
    <3>4. \A j \in Ids : session'[j].place = "listed" =>
            /\ session[j].place = "listed" /\ session'[j].account = session[j].account
            /\ session[j].login = "asked" => session'[j].login = "asked"
      BY <1>9, <1>16, <3>2
    <3>5. LoginInv(session', queries \o <<q>>)
      <4>1. /\ q.account = session[q.id].account /\ session[q.id].place = "listed"
            /\ session[q.id].login # "asked" /\ session'[q.id].login = "asked"
        BY <1>3, <1>9, <3>1, <3>2, <3>3
      <4>2. LoginInv(session, queries) /\ queries \in Seq(QueryType)  BY <1>1, <1>2
      <4> QED  BY <3>1, <3>4, <4>1, <4>2, LoginAsk
    <3>6. \A k \in DOMAIN more : Known(session', more[k])
      <4>1. Known(session', q)  BY <1>9, <1>10, <3>1 DEF Known
      <4>2. \A k \in DOMAIN more : more[k] = q  BY <3>2
      <4> QED  BY <4>1, <4>2
    <3>7. QueryInv(session', queries \o more)  BY <1>2, <1>8, <1>19, <3>6, KnownMore
    <3> QED  BY <1>12, <3>2, <3>5, <3>7
  <2> QED  BY <1>8, <2>1, <2>2
<1> QED  BY <1>15, <1>17, <1>18, <1>20, <1>22, <1>23 DEF IInv, CharInv

-----------------------------------------------------------------------------
(***************************************************************************)
(* The end of an update, and the sessions that come and go.                *)
(***************************************************************************)
\* A save of the character of session i, with all that it achieved.
FullSave(i, q) ==
    q \in QueryType /\ q.what = "save" /\ q.id = i /\ q.account = session[i].account
    /\ q.progress = played[q.account]

\* Before a session ends its update, or is deleted, its character may log out, and is
\* saved if it does.
LEMMA EndEffect ==
    ASSUME Types, LoadedInv(session, played),
           NEW i \in Ids, session[i].place = "listed", NEW r \in CalledBack(session[i])
    PROVE  LET s     == IF LogsOut(r) THEN LoggedOut(r) ELSE r
               first == IF LogsOut(r) THEN Saves(i, r) ELSE <<>>
           IN  /\ s \in Session /\ s.place = "listed" /\ s.account = session[i].account
               /\ s.data = session[i].data /\ (s.data = "none" => s.inQueue = session[i].inQueue)
               /\ Loaded(s, played) /\ (s.login = "asked" <=> session[i].login = "asked")
               /\ \/ first = <<>> /\ (session[i].player => s.player)
                  \/ ~s.player /\ s.login # "asked" /\ \E q : first = <<q>> /\ FullSave(i, q)
<1> DEFINE o == session[i]
           a == o.account
<1>1. o \in Session  BY DEF Types
<1>2. /\ r \in Session /\ r.place = "listed" /\ r.account = a /\ r.data = o.data
      /\ o.data = "none" => r.inQueue = o.inQueue
      /\ \/ /\ o.login # "there" /\ r.login = o.login /\ r.loading = o.loading
            /\ r.player = o.player /\ r.progress = o.progress
         \/ /\ o.login = "there" /\ r.login = "none" /\ ~r.loading
            /\ (r.player /\ r.progress = o.progress) \/ r.player = o.player
  BY <1>1, CalledBackEffect
<1>3. /\ o.player => o.login = "none" /\ o.progress = played[a]
      /\ o.login # "none" => o.loading
      /\ o.login = "there" => o.progress = played[a]
  <2>1. Loaded(o, played)  BY DEF LoadedInv
  <2> QED  BY <2>1 DEF Loaded
<1>4. /\ r.player => r.login = "none" /\ r.progress = played[a]
      /\ r.login # "none" => r.loading /\ r.login = "asked"
      /\ r.login = "asked" <=> o.login = "asked"
      /\ o.player => r.player
  <2>1. o.login \in {"none", "asked", "there"}  BY <1>1 DEF Session
  <2> HIDE DEF o, a
  <2> QED  BY <1>2, <1>3, <2>1
<1>5. Loaded(r, played)  BY <1>2, <1>4 DEF Loaded
<1>6. CASE ~LogsOut(r)  BY <1>2, <1>4, <1>5, <1>6
<1>7. CASE LogsOut(r)
  <2> DEFINE s == LoggedOut(r)
  <2>1. /\ s \in Session /\ s.place = r.place /\ s.account = r.account /\ s.data = r.data
        /\ s.inQueue = r.inQueue /\ ~s.player /\ s.login = r.login /\ s.loading = r.loading
    <3>1. s \in Session  BY <1>2, SessionTypes
    <3> QED  BY <1>2, <3>1 DEF LoggedOut, Session
  <2>2. ~r.loading /\ r.login = "none"  BY <1>4, <1>7 DEF LogsOut
  <2> HIDE DEF s
  <2>3. Loaded(s, played)  BY <2>1, <2>2 DEF Loaded
  <2>4. \/ Saves(i, r) = <<>> /\ ~o.player
        \/ \E q : Saves(i, r) = <<q>> /\ FullSave(i, q)
    <3>1. CASE ~r.player  BY <1>2, <1>4, <3>1, SavesType
    <3>2. CASE r.player
      <4>1. PICK q \in QueryType : /\ Saves(i, r) = <<q>> /\ q.what = "save" /\ q.id = i
                                   /\ q.account = a /\ q.progress = r.progress
        BY <1>2, <3>2, SavesType
      <4> QED  BY <1>4, <3>2, <4>1 DEF FullSave
    <3> QED  BY <3>1, <3>2
  <2> QED  BY <1>2, <1>4, <1>7, <2>1, <2>2, <2>3, <2>4 DEF s
<1> QED  BY <1>6, <1>7

\* The part of a session that tells of its character.
SameChar(d, r) ==
    d.account = r.account /\ d.loading = r.loading /\ d.login = r.login /\ d.player = r.player
    /\ d.progress = r.progress

\* Only the character of account a is touched, and saved if it leaves the game.
LEMMA CharStep ==
    ASSUME Types, CharInv, QueryInv(session, queries), NEW a \in Accounts, NEW more \in Seq(QueryType),
           UNCHANGED <<stored, played>>, queries' = queries \o more,
           \A j \in Ids : session[j].account # a /\ session[j].place = "listed"
              => session'[j].place = "listed" /\ SameChar(session'[j], session[j]),
           \A j \in Ids : session'[j].place = "listed" =>
              /\ session[j].place \in {"adding", "listed"} /\ session'[j].account = session[j].account
              /\ session'[j].account # a => session[j].place = "listed"
              /\ session'[j].account = a =>
                    /\ Loaded(session'[j], played)
                    /\ session[j].place = "listed" /\ session[j].login = "asked" => session'[j].login = "asked"
                    /\ session'[j].login = "asked" => \A k \in DOMAIN more : more[k].what # "save",
           \A k \in DOMAIN more : more[k].what # "login" /\ (more[k].what = "save" => more[k].account = a),
           InGame(session', a) \/ SavedAs(queries', stored, a, played[a])
    PROVE  CharInv'
<1>1. queries \in Seq(QueryType)  BY DEF Types
<1>2. LoadedInv(session, played) /\ SavedInv(session, queries, stored, played) /\ LoginInv(session, queries)
  BY DEF CharInv
<1>3. LoadedInv(session', played)
  <2> SUFFICES ASSUME NEW j \in Ids, session'[j].place = "listed"
               PROVE  Loaded(session'[j], played)
    BY DEF LoadedInv, Loaded
  <2>1. CASE session'[j].account = a  BY <2>1
  <2>2. CASE session'[j].account # a
    <3>1. session[j].place = "listed" /\ SameChar(session'[j], session[j])  BY <2>2
    <3>2. Loaded(session[j], played)  BY <1>2 DEF LoadedInv
    <3> QED  BY <3>1, <3>2 DEF Loaded, SameChar
  <2> QED  BY <2>1, <2>2
<1>4. SavedInv(session', queries', stored, played)
  <2> SUFFICES ASSUME NEW b \in Accounts, ~InGame(session', b)
               PROVE  SavedAs(queries', stored, b, played[b])
    BY DEF SavedInv
  <2>1. CASE b = a  BY <2>1
  <2>2. CASE b # a
    <3>1. \A j \in Ids : session[j].place = "listed" /\ session[j].account = b =>
            session'[j].place = "listed" /\ session'[j].account = b /\ session'[j].player = session[j].player
      BY <2>2 DEF SameChar
    <3>2. ~InGame(session, b)  BY <3>1 DEF InGame
    <3>3. SavedAs(queries, stored, b, played[b])  BY <1>2, <3>2 DEF SavedInv
    <3>4. \A k \in DOMAIN more : ~IsSave(more[k], b)  BY <2>2 DEF IsSave
    <3>5. SavedAs(queries \o more, stored, b, played[b])  BY <1>1, <3>3, <3>4, SavedStays
    <3> QED  BY <3>5
  <2> QED  BY <2>1, <2>2
<1>5. LoginInv(session', queries)
  <2>1. \A k \in DOMAIN queries : session[queries[k].id].place \in {"listed", "deleted"}
    BY DEF QueryInv, Known
  <2>2. \A j \in Ids : session'[j].place = "listed" =>
          \/ \A k \in DOMAIN queries : queries[k].what = "login" => queries[k].id # j
          \/ /\ session[j].place = "listed" /\ session'[j].account = session[j].account
             /\ session[j].login = "asked" => session'[j].login = "asked"
    <3> SUFFICES ASSUME NEW j \in Ids, session'[j].place = "listed"
                 PROVE  \/ \A k \in DOMAIN queries : queries[k].what = "login" => queries[k].id # j
                        \/ /\ session[j].place = "listed" /\ session'[j].account = session[j].account
                           /\ session[j].login = "asked" => session'[j].login = "asked"
      OBVIOUS
    <3>1. CASE session[j].place = "adding"  BY <2>1, <3>1
    <3>2. CASE session[j].place = "listed"
      <4>1. session'[j].account # a => SameChar(session'[j], session[j])  BY <3>2
      <4> QED  BY <3>2, <4>1 DEF SameChar
    <3> QED  BY <3>1, <3>2
  <2> QED  BY <1>1, <1>2, <2>2, LoginChange
<1>6. LoginInv(session', queries')
  <2>1. \A k \in DOMAIN more :
          /\ more[k].what # "login"
          /\ \A j \in Ids : session'[j].place = "listed" /\ session'[j].login = "asked"
               => ~IsSave(more[k], session'[j].account)
    BY DEF IsSave
  <2>2. LoginInv(session', queries \o more)  BY <1>1, <1>5, <2>1, LoginMore
  <2> QED  BY <2>2
<1> QED  BY <1>3, <1>4, <1>6 DEF CharInv

\* A session ends its update and stays.
LEMMA EndUpdateStep ==
    ASSUME IInv, NEW i \in Ids, EndUpdate(i)
    PROVE  IInv'
<1>1. Types /\ ListInv /\ QueueIsExact /\ LimitHolds /\ NoLimitNoQueue /\ QueryInv(session, queries)
      /\ CharInv /\ LoadedInv(session, played)
  BY DEF IInv, CharInv
<1> DEFINE o == session[i]
           a == o.account
<1>2. queries \in Seq(QueryType) /\ session \in [Ids -> Session] /\ stored \in [Accounts -> Nat]
  BY <1>1 DEF Types
<1>3. o.place = "listed" /\ i \in left
  <2>1. i \in left  BY DEF EndUpdate, Updated, Updates
  <2> QED  BY <1>1, <2>1 DEF ListInv, Listed
<1>4. /\ a \in Accounts /\ (InGame(session, a) <=> o.player)
      /\ \A j \in Ids : session[j].place = "listed" /\ session[j].account = a => j = i
  BY <1>1, <1>3, OnePlayer
<1>5. PICK r \in CalledBack(o) :
        /\ session' = [session EXCEPT ![i] = IF LogsOut(r) THEN LoggedOut(r) ELSE r]
        /\ queries' = IF LogsOut(r) THEN queries \o Saves(i, r) ELSE queries
  BY DEF EndUpdate
<1> DEFINE s == IF LogsOut(r) THEN LoggedOut(r) ELSE r
           first == IF LogsOut(r) THEN Saves(i, r) ELSE <<>>
<1>6. /\ s \in Session /\ s.place = "listed" /\ s.account = a
      /\ s.data = o.data /\ (s.data = "none" => s.inQueue = o.inQueue)
      /\ Loaded(s, played) /\ (s.login = "asked" <=> o.login = "asked")
      /\ \/ first = <<>> /\ (o.player => s.player)
         \/ ~s.player /\ s.login # "asked" /\ \E q : first = <<q>> /\ FullSave(i, q)
  BY <1>1, <1>3, EndEffect
<1>7. session' = [session EXCEPT ![i] = s] /\ queries' = queries \o first
  <2>1. queries \o <<>> = queries  BY <1>2
  <2> QED  BY <1>5, <2>1
<1>8. UNCHANGED <<addSessQueue, m_sessions, m_QueuedPlayer, m_disconnects, phase, sent, stored, played>>
      /\ left' = left \ {i}
  BY DEF EndUpdate, Updated, world
<1> HIDE DEF s, first
<1>9. session'[i] = s /\ (\A j \in Ids : j # i => session'[j] = session[j]) /\ session' \in [Ids -> Session]
  BY <1>2, <1>6, <1>7
<1>10. /\ first \in Seq(QueryType)
       /\ \A k \in DOMAIN first : /\ first[k].what = "save" /\ first[k].account = a /\ first[k].id = i
                                  /\ s.login # "asked"
       /\ \/ s.player \/ (first = <<>> /\ ~o.player)
          \/ \E q \in QueryType : first = <<q>> /\ q.what = "save" /\ q.account = a /\ q.progress = played[a]
  <2>1. CASE first = <<>> /\ (o.player => s.player)  BY <2>1
  <2>2. CASE \E q : ~s.player /\ s.login # "asked" /\ first = <<q>> /\ FullSave(i, q)
    <3>1. PICK q : s.login # "asked" /\ first = <<q>> /\ FullSave(i, q)  BY <2>2
    <3>2. q \in QueryType /\ q.what = "save" /\ q.id = i /\ q.account = a /\ q.progress = played[a]
      BY <3>1 DEF FullSave
    <3>3. first \in Seq(QueryType)  BY <3>1, <3>2
    <3>4. \A k \in DOMAIN first : first[k] = q  BY <3>1
    <3> QED  BY <3>1, <3>2, <3>3, <3>4
  <2> QED  BY <1>6, <2>1, <2>2
<1>11. queries' \in Seq(QueryType)  BY <1>2, <1>7, <1>10, MoreQueries
<1>12. Types'  BY <1>1, <1>8, <1>9, <1>11 DEF Types
<1>13. \A j \in Ids :
         /\ session'[j].place = session[j].place /\ session'[j].account = session[j].account
         /\ session'[j].data = session[j].data
         /\ session[j].data = "none" => session'[j].inQueue = session[j].inQueue
  BY <1>3, <1>6, <1>9
<1>14. ListInv'
  <2>1. \A j \in Ids : session[j].place \in {"none", "adding"} =>
          session'[j].player = session[j].player /\ session'[j].login = session[j].login
    BY <1>3, <1>9
  <2>2. left' \subseteq Listed /\ (phase' = "add" => left' = {})  BY <1>1, <1>8 DEF ListInv
  <2> QED  BY <1>1, <1>8, <1>13, <2>1, <2>2, ListKept
<1>15. QueueIsExact' /\ LimitHolds' /\ NoLimitNoQueue'  BY <1>1, <1>8, <1>13, <1>14, QueueKept
<1>16. QueryInv(session', queries')
  <2>1. \A j \in Ids : session[j].place \in {"listed", "deleted"} =>
          /\ session'[j].place \in {"listed", "deleted"}
          /\ session'[j].place = "listed" => /\ session[j].place = "listed"
                                             /\ session[j].data # "none" => session'[j].data # "none"
    BY <1>13
  <2>2. QueryInv(session', queries)  BY <1>1, <1>2, <2>1, KnownStep
  <2>3. \A k \in DOMAIN first : Known(session', first[k])  BY <1>3, <1>10, <1>13 DEF Known
  <2>4. QueryInv(session', queries \o first)  BY <1>2, <1>10, <2>2, <2>3, KnownMore
  <2> QED  BY <1>7, <2>4
<1>17. CharInv'
  <2>1. \A j \in Ids : session[j].account # a /\ session[j].place = "listed"
          => session'[j].place = "listed" /\ SameChar(session'[j], session[j])
    BY <1>9 DEF SameChar
  <2>2. \A j \in Ids : session'[j].place = "listed" =>
          /\ session[j].place \in {"adding", "listed"} /\ session'[j].account = session[j].account
          /\ session'[j].account # a => session[j].place = "listed"
          /\ session'[j].account = a =>
                /\ Loaded(session'[j], played)
                /\ session[j].place = "listed" /\ session[j].login = "asked" => session'[j].login = "asked"
                /\ session'[j].login = "asked" => \A k \in DOMAIN first : first[k].what # "save"
    <3>1. \A j \in Ids : session'[j].place = "listed" /\ session'[j].account = a => j = i  BY <1>4, <1>13
    <3>2. \A j \in Ids : session'[j].place = "listed" =>
            session[j].place = "listed" /\ session'[j].account = session[j].account
      BY <1>13
    <3> QED  BY <1>6, <1>9, <1>10, <3>1, <3>2
  <2>3. \A k \in DOMAIN first : first[k].what # "login" /\ (first[k].what = "save" => first[k].account = a)
    BY <1>10
  <2>4. InGame(session', a) \/ SavedAs(queries', stored, a, played[a])
    <3>1. CASE s.player  BY <1>6, <1>9, <3>1 DEF InGame
    <3>2. CASE first = <<>> /\ ~o.player
      <4>1. SavedAs(queries, stored, a, played[a])  BY <1>1, <1>4, <3>2 DEF CharInv, SavedInv
      <4>2. queries \o <<>> = queries  BY <1>2
      <4> QED  BY <1>7, <3>2, <4>1, <4>2
    <3>3. CASE \E q \in QueryType : first = <<q>> /\ q.what = "save" /\ q.account = a /\ q.progress = played[a]
      <4>1. PICK q \in QueryType : first = <<q>> /\ q.what = "save" /\ q.account = a /\ q.progress = played[a]
        BY <3>3
      <4>2. SavedAs(queries \o <<q>>, stored, a, q.progress)  BY <1>2, <4>1, SavedLast DEF IsSave
      <4> QED  BY <1>7, <4>1, <4>2
    <3> QED  BY <1>10, <3>1, <3>2, <3>3
  <2>5. queries' = queries \o first /\ stored' = stored /\ played' = played  BY <1>7, <1>8
  <2>6. a \in Accounts  BY <1>4
  <2> HIDE DEF a
  <2> QED  BY <1>1, <1>10, <2>1, <2>2, <2>3, <2>4, <2>5, <2>6, CharStep
<1> QED  BY <1>12, <1>14, <1>15, <1>16, <1>17 DEF IInv

\* Concatenation is associative.
LEMMA ConcatThree ==
    ASSUME NEW S, NEW b \in Seq(S), NEW c \in Seq(S), NEW d \in Seq(S)
    PROVE  (b \o c) \o d = b \o (c \o d) /\ b \o c \in Seq(S)
  OBVIOUS

\* Session o leaves, and saves its character: what has been saved is complete.
LEMMA LeaverSaved ==
    ASSUME Types, ListInv, LoadedInv(session, played), SavedInv(session, queries, stored, played),
           NEW o \in Ids, session[o].place = "listed",
           NEW more \in Seq(QueryType), \A k \in DOMAIN more : more[k].what # "save"
    PROVE  SavedAs(queries \o (more \o Saves(o, session[o])), stored, session[o].account, played[session[o].account])
<1> DEFINE a == session[o].account
           all == queries \o more
<1>1. queries \in Seq(QueryType) /\ session[o] \in Session  BY DEF Types
<1>2. a \in Accounts /\ (InGame(session, a) <=> session[o].player)  BY OnePlayer
<1>3. all \in Seq(QueryType)  BY <1>1, MoreQueries
<1>4. Saves(o, session[o]) \in Seq(QueryType)  BY <1>1, SavesType
<1>5. queries \o (more \o Saves(o, session[o])) = all \o Saves(o, session[o])  BY <1>1, <1>4, ConcatThree
<1>6. CASE session[o].player
  <2>1. PICK q \in QueryType : /\ Saves(o, session[o]) = <<q>> /\ q.what = "save" /\ q.account = a
                               /\ q.progress = session[o].progress
    BY <1>1, <1>6, SavesType
  <2>2. q.progress = played[a]
    <3>1. Loaded(session[o], played)  BY DEF LoadedInv
    <3> QED  BY <1>6, <2>1, <3>1 DEF Loaded
  <2> HIDE DEF all
  <2>3. SavedAs(all \o <<q>>, stored, a, q.progress)  BY <1>3, <2>1, SavedLast DEF IsSave
  <2> QED  BY <1>5, <2>1, <2>2, <2>3
<1>7. CASE ~session[o].player
  <2>1. SavedAs(queries, stored, a, played[a])  BY <1>2, <1>7 DEF SavedInv
  <2>2. \A k \in DOMAIN more : ~IsSave(more[k], a)  BY DEF IsSave
  <2>3. SavedAs(all, stored, a, played[a])  BY <1>1, <2>1, <2>2, SavedStays
  <2>4. Saves(o, session[o]) = <<>>  BY <1>1, <1>7, SavesType
  <2> HIDE DEF all
  <2>5. all \o <<>> = all  BY <1>3
  <2> QED  BY <1>5, <2>3, <2>4, <2>5
<1> QED  BY <1>6, <1>7

\* The queries of sessions that are let in, and those of one that leaves.
LEMMA MoreOfBoth ==
    ASSUME Types, NEW ids \in Seq(Ids), NEW saves \in Seq(QueryType), NEW a, NEW o,
           \A k \in DOMAIN saves : saves[k].what = "save" /\ saves[k].account = a /\ saves[k].id = o
    PROVE  /\ DataQueries(ids) \o saves \in Seq(QueryType)
           /\ \A k \in DOMAIN (DataQueries(ids) \o saves) :
                LET q == (DataQueries(ids) \o saves)[k]
                IN  \/ q.what = "data" /\ q.id \in Range(ids)
                    \/ q.what = "save" /\ q.account = a /\ q.id = o /\ saves # <<>>
<1> DEFINE d == DataQueries(ids)
           all == d \o saves
<1>1. /\ d \in Seq(QueryType) /\ DOMAIN d = DOMAIN ids
      /\ \A k \in DOMAIN ids : d[k].what = "data" /\ d[k].id = ids[k]
  BY DataQueriesType
<1>2. \A k \in DOMAIN ids : ids[k] \in Range(ids)  BY RangeHas, ElementsOfSeq
<1> HIDE DEF d
<1>3. /\ all \in Seq(QueryType)
      /\ \A k \in DOMAIN all : \/ k \in DOMAIN d /\ all[k] = d[k]
                               \/ k - Len(d) \in DOMAIN saves /\ all[k] = saves[k - Len(d)]
  BY <1>1, MoreQueries
<1> HIDE DEF all
<1>4. ASSUME NEW k \in DOMAIN all
      PROVE  \/ all[k].what = "data" /\ all[k].id \in Range(ids)
             \/ all[k].what = "save" /\ all[k].account = a /\ all[k].id = o /\ saves # <<>>
  <2>1. CASE k \in DOMAIN d /\ all[k] = d[k]  BY <1>1, <1>2, <2>1
  <2>2. CASE k - Len(d) \in DOMAIN saves /\ all[k] = saves[k - Len(d)]
    <3>1. saves # <<>>  BY <2>2
    <3> QED  BY <2>2, <3>1
  <2> QED  BY <1>3, <2>1, <2>2
<1> QED  BY <1>3, <1>4 DEF all, d

\* A session is admitted, in the place of an older one of the account if there is one: that
\* one leaves the queue, or leaves its place to the first who waits.
LEMMA AddSession_Step ==
    ASSUME IInv, AddSession_
    PROVE  IInv'
<1>1. Types /\ ListInv /\ QueueIsExact /\ LimitHolds /\ NoLimitNoQueue /\ QueryInv(session, queries)
      /\ CharInv /\ LoadedInv(session, played) /\ SavedInv(session, queries, stored, played)
  BY DEF IInv, CharInv
<1> DEFINE i == Added
           a == session[i].account
           old == m_sessions[a]
           r == Unqueued(old)
           H == Range(r.admitted)
           known == (Listed \ {old}) \cup {i}
           waits == Waits(a, Cardinality(known) - (IF r.found THEN 0 ELSE 1))
           t == Tail(addSessQueue)
           saves == IF old # None THEN Saves(old, session[old]) ELSE <<>>
           more == DataQueries(r.admitted) \o saves
<1>2. /\ i \in Ids /\ session[i].place = "adding" /\ a \in Accounts
      /\ ~session[i].player /\ session[i].login = "none"
      /\ t \in Seq(Ids) /\ IsInjective(t)
      /\ \A k \in DOMAIN t : t[k] \in Ids /\ t[k] # i /\ session[t[k]].place = "adding"
  BY <1>1, AddedFacts DEF AddSession_
<1>3. /\ queries \in Seq(QueryType) /\ session \in [Ids -> Session] /\ m_QueuedPlayer \in Seq(Ids)
      /\ m_sessions \in [Accounts -> Ids \cup {None}] /\ session[i] \in Session
  BY <1>1, <1>2 DEF Types
<1>4. /\ old \in Ids \cup {None} /\ old # i /\ i # None /\ i \notin Listed /\ None \notin Ids
      /\ old # None => old \in Listed /\ session[old].place = "listed" /\ session[old].account = a
      /\ \A j \in Ids : session[j].place = "listed" /\ session[j].account = a => j = old
  <2>1. old \in Ids \cup {None} /\ None \notin Ids  BY <1>2, <1>3, IdFacts
  <2>2. old # None => session[old].place = "listed" /\ session[old].account = a  BY <1>1, <1>2 DEF ListInv
  <2>3. \A j \in Ids : session[j].place = "listed" /\ session[j].account = a => j = old  BY <1>1 DEF ListInv
  <2>4. \A j \in Ids : j \in Listed <=> session[j].place = "listed"  BY DEF Listed
  <2>5. i \notin Listed  BY <1>2, <2>4
  <2> HIDE DEF i, old, a
  <2> QED  BY <1>2, <2>1, <2>2, <2>3, <2>4, <2>5
<1>5. TakenOff(old, r)
  <2>1. CASE old = None
    <3> DEFINE q == m_QueuedPlayer
    <3>1. r = [found |-> FALSE, queue |-> q, admitted |-> <<>>]  BY <2>1 DEF Unqueued
    <3>2. r.found = FALSE /\ r.queue = q /\ r.admitted = <<>>  BY <3>1
    <3>3. None \notin Range(q) /\ IsInjective(q)  BY <1>1, <1>4, QueueFacts
    <3>4. <<>> \in Seq(Ids) /\ Range(<<>>) = {}  BY ShortRanges
    <3> HIDE DEF r, old
    <3> QED  BY <1>3, <2>1, <3>2, <3>3, <3>4 DEF TakenOff
  <2>2. CASE old # None
    <3>1. r = RemoveQueuedPlayer(m_QueuedPlayer, old)  BY <2>2 DEF Unqueued
    <3> HIDE DEF r, old
    <3>2. old \in Listed  BY <1>4, <2>2
    <3>3. TakenOff(old, RemoveQueuedPlayer(m_QueuedPlayer, old))  BY <1>1, <3>2, RemoveEffect
    <3> QED  BY <3>1, <3>3
  <2> QED  BY <2>1, <2>2
<1>6. /\ r.admitted \in Seq(Ids) /\ H \subseteq Listed \ {old} /\ Listed \subseteq Ids
  <2>1. Range(m_QueuedPlayer) \subseteq Listed /\ Listed \subseteq Ids  BY <1>1, QueueFacts
  <2> HIDE DEF r, old
  <2> QED  BY <1>5, <2>1 DEF TakenOff
<1>7. waits \in BOOLEAN  BY DEF Waits
\* What the sessions become.
<1> DEFINE after == [j \in Ids |-> IF j = old THEN Deleted ELSE Initialized(H)[j]]
           n == [session[i] EXCEPT !.place = "listed", !.inQueue = waits, !.data = IF waits THEN "none" ELSE "there"]
<1>8. /\ phase = "add" /\ addSessQueue' = t /\ m_sessions' = [m_sessions EXCEPT ![a] = i]
      /\ session' = [after EXCEPT ![i].place = "listed", ![i].inQueue = waits,
                                  ![i].data = IF waits THEN "none" ELSE "there"]
      /\ m_QueuedPlayer' = IF waits THEN Append(r.queue, i) ELSE r.queue
      /\ queries' = (queries \o DataQueries(r.admitted)) \o saves
      /\ UNCHANGED <<m_disconnects, left, phase, sent, stored, played>>
  BY DEF AddSession_, Adding, loop
<1> HIDE DEF i, old, r, H, waits, t, saves, a
<1>9. /\ session'[i] = n
      /\ old # None => session'[old] = Deleted
      /\ \A j \in Ids \ {i, old} : session'[j] = IF j \in H THEN [session[j] EXCEPT !.data = "asked"]
                                                           ELSE session[j]
  <2>1. \A j \in Ids : after[j] = IF j = old THEN Deleted ELSE
                          IF j \in H THEN [session[j] EXCEPT !.data = "asked"] ELSE session[j]
    BY DEF Initialized
  <2>2. after[i] = session[i]  BY <1>2, <1>4, <1>6, <2>1
  <2>3. DOMAIN after = Ids  OBVIOUS
  <2> HIDE DEF after
  <2>4. session' = [after EXCEPT ![i] = n]  BY <1>2, <1>8, <2>2, <2>3
  <2> HIDE DEF n
  <2> QED  BY <1>2, <1>4, <2>1, <2>3, <2>4
<1>10. /\ n \in Session /\ n.place = "listed" /\ n.account = a /\ ~n.player /\ n.login = "none"
       /\ IF waits THEN n.data = "none" /\ n.inQueue ELSE n.data = "there"
  <2>1. n \in Session /\ n.place = "listed" /\ n.account = session[i].account
        /\ n.player = session[i].player /\ n.login = session[i].login
        /\ IF waits THEN n.data = "none" /\ n.inQueue ELSE n.data = "there"
    BY <1>3, <1>7 DEF Session
  <2> HIDE DEF n
  <2> QED  BY <1>2, <2>1 DEF a
<1> HIDE DEF n, after
<1>11. Deleted \in Session /\ Deleted.place = "deleted"  BY UnbornType DEF Deleted, Unborn
<1>12. \A j \in Ids \ {i, old} :
         /\ session'[j] \in Session /\ session'[j].place = session[j].place
         /\ session'[j].account = session[j].account /\ SameChar(session'[j], session[j])
         /\ session'[j].data = (IF j \in H THEN "asked" ELSE session[j].data)
         /\ session'[j].inQueue = session[j].inQueue
         /\ j \notin H => session'[j] = session[j]
  <2>1. \A x \in Session : LET y == [x EXCEPT !.data = "asked"]
                           IN  /\ y \in Session /\ y.place = x.place /\ y.account = x.account
                               /\ SameChar(y, x) /\ y.data = "asked" /\ y.inQueue = x.inQueue
    BY DEF Session, SameChar
  <2>2. \A x \in Session : SameChar(x, x)  BY DEF SameChar
  <2> TAKE j \in Ids \ {i, old}
  <2>3. session[j] \in Session  BY <1>3
  <2>4. CASE j \in H
    <3>1. session'[j] = [session[j] EXCEPT !.data = "asked"]  BY <1>9, <2>4
    <3> QED  BY <2>1, <2>3, <2>4, <3>1
  <2>5. CASE j \notin H
    <3>1. session'[j] = session[j]  BY <1>9, <2>5
    <3> QED  BY <2>2, <2>3, <2>5, <3>1
  <2> QED  BY <2>4, <2>5
<1>13. session' \in [Ids -> Session]
  <2>1. DOMAIN session' = Ids /\ session' = [j \in Ids |-> session'[j]]  BY <1>8 DEF after
  <2>2. \A j \in Ids : session'[j] \in Session  BY <1>4, <1>9, <1>10, <1>11, <1>12
  <2> QED  BY <2>1, <2>2
<1>14. /\ saves \in Seq(QueryType)
       /\ \A k \in DOMAIN saves : saves[k].what = "save" /\ saves[k].account = a /\ saves[k].id = old
       /\ saves # <<>> => old # None
  <2>1. CASE old = None  BY <2>1 DEF saves
  <2>2. CASE old # None
    <3>1. saves = Saves(old, session[old])  BY <2>2 DEF saves
    <3>2. session[old] \in Session /\ old \in Ids /\ session[old].account = a  BY <1>3, <1>4, <2>2
    <3>3. Saves(old, session[old]) \in Seq(QueryType)  BY <1>1, <3>2, SavesType
    <3>4. CASE ~session[old].player
      <4>1. saves = <<>>  BY <1>1, <3>1, <3>2, <3>4, SavesType
      <4> QED  BY <2>2, <4>1
    <3>5. CASE session[old].player
      <4>1. PICK q \in QueryType : Saves(old, session[old]) = <<q>> /\ q.what = "save" /\ q.id = old /\ q.account = a
        BY <1>1, <3>2, <3>5, SavesType
      <4> QED  BY <2>2, <3>1, <3>3, <4>1
    <3> QED  BY <3>4, <3>5
  <2> QED  BY <2>1, <2>2
<1> DEFINE data == DataQueries(r.admitted)
<1>15. data \in Seq(QueryType) /\ \A k \in DOMAIN data : data[k].what = "data"
  BY <1>1, <1>6, DataQueriesType
<1>16. /\ more \in Seq(QueryType)
       /\ \A k \in DOMAIN more : /\ Known(session', more[k]) /\ more[k].what # "login"
                                 /\ more[k].what = "save" => more[k].account = a
  <2>1. saves # <<>> => session'[old].place \in {"listed", "deleted"}  BY <1>9, <1>11, <1>14
  <2>2. \A j \in H : session'[j].place = "listed" /\ session'[j].data # "none"
    <3>1. \A j \in H : j \in Ids \ {i, old} /\ session[j].place = "listed"  BY <1>4, <1>6 DEF Listed
    <3> QED  BY <1>12, <3>1
  <2>3. r.admitted \in Seq(Ids) /\ saves \in Seq(QueryType)
        /\ \A k \in DOMAIN saves : saves[k].what = "save" /\ saves[k].account = a /\ saves[k].id = old
    BY <1>6, <1>14
  <2>4. /\ more \in Seq(QueryType)
        /\ \A k \in DOMAIN more :
             \/ more[k].what = "data" /\ more[k].id \in H
             \/ more[k].what = "save" /\ more[k].account = a /\ more[k].id = old /\ saves # <<>>
    <3>1. PICK ids \in Seq(Ids) : ids = r.admitted  BY <2>3
    <3>2. /\ DataQueries(ids) \o saves \in Seq(QueryType)
          /\ \A k \in DOMAIN (DataQueries(ids) \o saves) :
                LET q == (DataQueries(ids) \o saves)[k]
                IN  \/ q.what = "data" /\ q.id \in Range(ids)
                    \/ q.what = "save" /\ q.account = a /\ q.id = old /\ saves # <<>>
      BY <1>1, <2>3, MoreOfBoth
    <3> QED  BY <3>1, <3>2 DEF H
  <2> HIDE DEF more
  <2> QED  BY <2>1, <2>2, <2>4 DEF Known
<1>17. queries' = queries \o more /\ queries' \in Seq(QueryType)
  <2>1. queries' = queries \o (data \o saves)  BY <1>3, <1>8, <1>14, <1>15, ConcatThree
  <2>2. queries \o more \in Seq(QueryType)  BY <1>3, <1>16, MoreQueries
  <2> QED  BY <2>1, <2>2
<1> HIDE DEF more, data
<1>18. Types'
  <2>1. m_sessions' \in [Accounts -> Ids \cup {None}]  BY <1>2, <1>3, <1>8
  <2>2. m_QueuedPlayer' \in Seq(Ids)
    <3>1. r.queue \in Seq(Ids)  BY <1>5 DEF TakenOff
    <3> QED  BY <1>2, <1>8, <3>1
  <2> QED  BY <1>1, <1>2, <1>8, <1>13, <1>17, <2>1, <2>2 DEF Types
<1>19. Listed' = known
  <2>1. \A j \in Ids : session'[j].place = "listed" <=> j = i \/ (session[j].place = "listed" /\ j # old)
    BY <1>2, <1>4, <1>9, <1>10, <1>11, <1>12
  <2> QED  BY <1>2, <2>1 DEF Listed
<1>20. ListInv'
  <2>1. \A j \in Ids : session'[j].place \in {"none", "adding"} => session'[j] = session[j] /\ j # i /\ j # old
    <3>1. \A j \in H : session[j].place = "listed"  BY <1>6 DEF Listed
    <3> QED  BY <1>4, <1>9, <1>10, <1>11, <1>12, <3>1
  <2>2. \A j \in Ids : session'[j].place \in {"adding", "listed"} => session'[j].account \in Accounts
    BY <1>1, <1>2, <1>4, <1>9, <1>10, <1>11, <1>12 DEF ListInv
  <2>3. \A j \in Ids : session'[j].place \in {"none", "adding"} => ~session'[j].player /\ session'[j].login = "none"
    BY <1>1, <2>1 DEF ListInv
  <2>4. \A j \in Ids : session'[j].place = "listed" => m_sessions'[session'[j].account] = j
    <3>1. m_sessions'[a] = i  BY <1>2, <1>3, <1>8
    <3>2. ASSUME NEW j \in Ids, session'[j].place = "listed", j # i
          PROVE  m_sessions'[session'[j].account] = j
      <4>1. j # old /\ session[j].place = "listed" /\ session'[j].account = session[j].account
        BY <1>4, <1>9, <1>11, <1>12, <3>2
      <4>2. session[j].account # a /\ session[j].account \in Accounts  BY <1>1, <1>4, <4>1 DEF ListInv
      <4>3. m_sessions[session[j].account] = j  BY <1>1, <4>1 DEF ListInv
      <4> QED  BY <1>3, <1>8, <4>1, <4>2, <4>3
    <3> QED  BY <1>9, <1>10, <3>1, <3>2
  <2>5. \A b \in Accounts : m_sessions'[b] # None =>
          session'[m_sessions'[b]].place = "listed" /\ session'[m_sessions'[b]].account = b
    <3> SUFFICES ASSUME NEW b \in Accounts, m_sessions'[b] # None
                 PROVE  session'[m_sessions'[b]].place = "listed" /\ session'[m_sessions'[b]].account = b
      OBVIOUS
    <3>1. CASE b = a  BY <1>2, <1>3, <1>8, <1>9, <1>10, <3>1
    <3>2. CASE b # a
      <4> DEFINE j == m_sessions[b]
      <4>1. m_sessions'[b] = j /\ j \in Ids  BY <1>3, <1>8, <3>2
      <4>2. session[j].place = "listed" /\ session[j].account = b  BY <1>1, <4>1 DEF ListInv
      <4>3. j # i /\ j # old
        <5>1. j # i  BY <1>2, <4>2
        <5>2. j # old  BY <1>4, <3>2, <4>1, <4>2
        <5> QED  BY <5>1, <5>2
      <4> HIDE DEF j
      <4> QED  BY <1>12, <4>1, <4>2, <4>3
    <3> QED  BY <3>1, <3>2
  <2>6. \A k \in DOMAIN t : session'[t[k]].place = "adding"
    <3>1. \A k \in DOMAIN t : t[k] \in Ids \ {i, old}  BY <1>2, <1>4
    <3> QED  BY <1>2, <1>12, <3>1
  <2>7. left' = {}  BY <1>1, <1>8 DEF ListInv
  <2>8. addSessQueue' = t /\ IsInjective(t)  BY <1>2, <1>8
  <2> QED  BY <2>2, <2>3, <2>4, <2>5, <2>6, <2>7, <2>8 DEF ListInv

<1>21. QueueIsExact' /\ LimitHolds' /\ NoLimitNoQueue'
  <2>1. old \in Listed \cup {None} /\ TRUE \in BOOLEAN /\ i \notin Listed /\ i # old  BY <1>4
  <2>2. Listed' = (Listed \ {old}) \cup (IF TRUE THEN {i} ELSE {})  BY <1>19 DEF known
  <2>3. \A j \in Listed \ {old} :
          /\ session'[j].account = session[j].account
          /\ IF j \in Range(r.admitted) THEN session'[j].data # "none"
             ELSE session'[j].data = session[j].data /\ session'[j].inQueue = session[j].inQueue
    <3>1. \A j \in Listed \ {old} : j \in Ids \ {i, old}  BY <1>4, <1>6
    <3>2. H = Range(r.admitted)  BY DEF H
    <3> QED  BY <1>12, <3>1, <3>2
  <2>4. IF waits THEN session'[i].data = "none" /\ session'[i].inQueue ELSE session'[i].data # "none"
    BY <1>9, <1>10
  <2> DEFINE free == Cardinality(Listed') - (IF r.found THEN 0 ELSE 1)
  <2>5. waits <=> Waits(a, free)  BY <1>19 DEF waits
  <2>6. Cardinality(Listed') \in Nat
    <3>1. Listed' \subseteq Ids  BY <1>2, <1>6, <1>19 DEF known
    <3>2. IsFiniteSet(Listed')  BY <3>1, IdFacts, FS_Subset
    <3> QED  BY <3>2, FS_CardinalityType
  <2>7. free \in Int  BY <2>6
  <2> HIDE DEF free
  <2>8. waits => PlayerLimit > 0 /\ free >= PlayerLimit  BY <2>5 DEF Waits
  <2>9. ~waits /\ PlayerLimit > 0 /\ session'[i].account \notin Privileged \cup m_disconnects'
          => free < PlayerLimit
    <3>1. session'[i].account = a /\ m_disconnects' = m_disconnects  BY <1>8, <1>9, <1>10
    <3>2. PlayerLimit \in Nat  BY IdFacts
    <3>3. ~waits /\ PlayerLimit > 0 /\ a \notin Privileged /\ a \notin m_disconnects => ~(free >= PlayerLimit)
      BY <2>5 DEF Waits
    <3> QED  BY <2>7, <3>1, <3>2, <3>3
  <2>10. m_disconnects \subseteq m_disconnects'  BY <1>8
  <2> QED  BY <1>1, <1>2, <1>5, <1>7, <1>8, <1>18, <1>20, <2>1, <2>2, <2>3, <2>4, <2>8, <2>9, <2>10,
              QueueTaken DEF free
<1>22. QueryInv(session', queries')
  <2>1. \A j \in Ids : session[j].place \in {"listed", "deleted"} =>
          /\ session'[j].place \in {"listed", "deleted"}
          /\ session'[j].place = "listed" => /\ session[j].place = "listed"
                                             /\ session[j].data # "none" => session'[j].data # "none"
    BY <1>2, <1>4, <1>9, <1>11, <1>12
  <2>2. QueryInv(session', queries)  BY <1>1, <1>3, <2>1, KnownStep
  <2>3. QueryInv(session', queries \o more)  BY <1>3, <1>16, <2>2, KnownMore
  <2> QED  BY <1>17, <2>3
<1>23. CharInv'
  <2>1. \A j \in Ids : session[j].account # a /\ session[j].place = "listed"
          => session'[j].place = "listed" /\ SameChar(session'[j], session[j])
    <3>1. session[i].account = a  BY DEF a
    <3> QED  BY <1>4, <1>12, <3>1
  <2>2. \A j \in Ids : session'[j].place = "listed" =>
          /\ session[j].place \in {"adding", "listed"} /\ session'[j].account = session[j].account
          /\ session'[j].account # a => session[j].place = "listed"
          /\ session'[j].account = a =>
                /\ Loaded(session'[j], played)
                /\ session[j].place = "listed" /\ session[j].login = "asked" => session'[j].login = "asked"
                /\ session'[j].login = "asked" => \A k \in DOMAIN more : more[k].what # "save"
    <3> SUFFICES ASSUME NEW j \in Ids, session'[j].place = "listed"
                 PROVE  /\ session[j].place \in {"adding", "listed"} /\ session'[j].account = session[j].account
                        /\ session'[j].account # a => session[j].place = "listed"
                        /\ session'[j].account = a =>
                            /\ Loaded(session'[j], played)
                            /\ session[j].place = "listed" /\ session[j].login = "asked" => session'[j].login = "asked"
                            /\ session'[j].login = "asked" => \A k \in DOMAIN more : more[k].what # "save"
      OBVIOUS
    <3>1. CASE j = i
      <4>1. Loaded(n, played)  BY <1>10 DEF Loaded
      <4>2. session[i].account = a  BY DEF a
      <4> QED  BY <1>2, <1>9, <1>10, <3>1, <4>1, <4>2
    <3>2. CASE j # i
      <4>1. j # old /\ j \in Ids \ {i, old}  BY <1>9, <1>11, <1>4, <3>2
      <4>2. session[j].place = "listed" /\ session'[j].account = session[j].account  BY <1>12, <4>1
      <4> QED  BY <1>4, <4>1, <4>2
    <3> QED  BY <3>1, <3>2
  <2>3. \A k \in DOMAIN more : more[k].what # "login" /\ (more[k].what = "save" => more[k].account = a)
    BY <1>16
  <2>4. SavedAs(queries', stored, a, played[a])
    <3>1. \A k \in DOMAIN data : data[k].what # "save"  BY <1>15
    <3>2. CASE old # None
      <4>1. old \in Ids /\ session[old].place = "listed" /\ session[old].account = a  BY <1>4, <3>2
      <4>2. SavedAs(queries \o (data \o Saves(old, session[old])), stored, a, played[a])
        BY <1>1, <1>15, <3>1, <4>1, LeaverSaved
      <4>3. more = data \o Saves(old, session[old])  BY <3>2 DEF more, data, saves
      <4> QED  BY <1>17, <4>2, <4>3
    <3>3. CASE old = None
      <4>1. ~InGame(session, a)  BY <1>4, <3>3 DEF InGame
      <4>2. SavedAs(queries, stored, a, played[a])  BY <1>1, <1>2, <4>1 DEF SavedInv
      <4>3. SavedAs(queries \o data, stored, a, played[a])  BY <1>3, <1>15, <3>1, <4>2, SavedStays DEF IsSave
      <4>4. more = data
        <5>1. more = data \o <<>>  BY <3>3 DEF more, data, saves
        <5> QED  BY <1>15, <5>1
      <4> QED  BY <1>17, <4>3, <4>4
    <3> QED  BY <3>2, <3>3
  <2>5. queries' = queries \o more /\ stored' = stored /\ played' = played  BY <1>8, <1>17
  <2>6. more \in Seq(QueryType)  BY <1>16
  <2> QED  BY <1>1, <1>2, <2>1, <2>2, <2>3, <2>4, <2>5, <2>6, CharStep
<1> QED  BY <1>18, <1>20, <1>21, <1>22, <1>23 DEF IInv

\* A session ends its update and is deleted; the first who waits may take its place.
LEMMA DeleteSessionStep ==
    ASSUME IInv, NEW i \in Ids, DeleteSession(i)
    PROVE  IInv'
<1>1. Types /\ ListInv /\ QueueIsExact /\ LimitHolds /\ NoLimitNoQueue /\ QueryInv(session, queries)
      /\ CharInv /\ LoadedInv(session, played) /\ SavedInv(session, queries, stored, played)
  BY DEF IInv, CharInv
<1> DEFINE o == session[i]
           a == o.account
           taken == RemoveQueuedPlayer(m_QueuedPlayer, i)
           again == RemoveQueuedPlayer(taken.queue, i)
           H == Range(taken.admitted)
<1>2. /\ queries \in Seq(QueryType) /\ session \in [Ids -> Session]
      /\ m_sessions \in [Accounts -> Ids \cup {None}] /\ None \notin Ids
  BY <1>1, IdFacts DEF Types
<1>3. o.place = "listed" /\ i \in Listed
  <2>1. i \in left  BY DEF DeleteSession, Updated, Updates
  <2> QED  BY <1>1, <2>1 DEF ListInv, Listed
<1>4. /\ a \in Accounts /\ (InGame(session, a) <=> o.player)
      /\ \A j \in Ids : session[j].place = "listed" /\ session[j].account = a => j = i
  BY <1>1, <1>3, OnePlayer
<1>5. TakenOff(i, taken) /\ again.queue = taken.queue /\ again.admitted = <<>>
  BY <1>1, <1>3, RemoveEffect
<1>6. /\ taken.admitted \in Seq(Ids) /\ H \subseteq Listed \ {i} /\ Listed \subseteq Ids
      /\ taken.admitted \o again.admitted = taken.admitted
  <2>1. Range(m_QueuedPlayer) \subseteq Listed /\ Listed \subseteq Ids  BY <1>1, QueueFacts
  <2> HIDE DEF taken, again
  <2>2. taken.admitted \in Seq(Ids) /\ H \subseteq Listed \ {i}  BY <1>5, <2>1 DEF TakenOff
  <2>3. \A x \in Seq(Ids) : x \o <<>> = x  OBVIOUS
  <2> QED  BY <1>5, <2>1, <2>2, <2>3
<1>7. PICK r \in CalledBack(o) :
        LET s == IF LogsOut(r) THEN LoggedOut(r) ELSE r IN
        /\ Ends(s)
        /\ queries' = ((queries \o (IF LogsOut(r) THEN Saves(i, r) ELSE <<>>))
                          \o DataQueries(taken.admitted \o again.admitted)) \o Saves(i, s)
  BY DEF DeleteSession
<1> DEFINE s == IF LogsOut(r) THEN LoggedOut(r) ELSE r
           first == IF LogsOut(r) THEN Saves(i, r) ELSE <<>>
           data == DataQueries(taken.admitted)
           last == Saves(i, s)
           more == first \o (data \o last)
<1>8. /\ s \in Session /\ s.place = "listed" /\ s.account = a
      /\ Loaded(s, played)
      /\ \/ first = <<>> /\ (o.player => s.player)
         \/ ~s.player /\ \E q : first = <<q>> /\ FullSave(i, q)
  BY <1>1, <1>3, EndEffect
<1>9. /\ phase = "world" /\ phase' = phase /\ left' = left \ {i}
      /\ session' = [Initialized(H) EXCEPT ![i] = Deleted]
      /\ m_QueuedPlayer' = taken.queue
      /\ m_sessions' = [m_sessions EXCEPT ![a] = None]
      /\ m_disconnects \subseteq m_disconnects'
      /\ UNCHANGED <<addSessQueue, sent, stored, played>>
  <2>1. phase = "world"  BY <1>7 DEF Ends
  <2>2. session' = [Initialized(Range(taken.admitted \o again.admitted)) EXCEPT ![i] = Deleted]
    BY DEF DeleteSession
  <2>3. m_QueuedPlayer' = again.queue /\ m_disconnects \subseteq m_disconnects'  BY DEF DeleteSession
  <2>4. /\ phase' = phase /\ left' = left \ {i} /\ m_sessions' = [m_sessions EXCEPT ![a] = None]
        /\ UNCHANGED <<addSessQueue, sent, stored, played>>
    BY DEF DeleteSession, Updated
  <2> HIDE DEF taken, again
  <2> QED  BY <1>5, <1>6, <2>1, <2>2, <2>3, <2>4
<1>10. queries' = ((queries \o first) \o data) \o last
  <2> HIDE DEF taken, again
  <2> QED  BY <1>6, <1>7
<1> HIDE DEF taken, again, H, s, first, data, last
<1>11. /\ session'[i] = Deleted
       /\ \A j \in Ids \ {i} : session'[j] = IF j \in H THEN [session[j] EXCEPT !.data = "asked"]
                                                        ELSE session[j]
  BY <1>9 DEF Initialized
<1>12. Deleted \in Session /\ Deleted.place = "deleted"  BY UnbornType DEF Deleted, Unborn
<1>13. \A j \in Ids \ {i} :
         /\ session'[j] \in Session /\ session'[j].place = session[j].place
         /\ session'[j].account = session[j].account /\ SameChar(session'[j], session[j])
         /\ session'[j].data = (IF j \in H THEN "asked" ELSE session[j].data)
         /\ session'[j].inQueue = session[j].inQueue
  <2>1. \A x \in Session : LET y == [x EXCEPT !.data = "asked"]
                           IN  /\ y \in Session /\ y.place = x.place /\ y.account = x.account
                               /\ SameChar(y, x) /\ y.data = "asked" /\ y.inQueue = x.inQueue
    BY DEF Session, SameChar
  <2>2. \A x \in Session : SameChar(x, x)  BY DEF SameChar
  <2> TAKE j \in Ids \ {i}
  <2>3. session[j] \in Session  BY <1>2
  <2>4. CASE j \in H
    <3>1. session'[j] = [session[j] EXCEPT !.data = "asked"]  BY <1>11, <2>4
    <3> QED  BY <2>1, <2>3, <2>4, <3>1
  <2>5. CASE j \notin H
    <3>1. session'[j] = session[j]  BY <1>11, <2>5
    <3> QED  BY <2>2, <2>3, <2>5, <3>1
  <2> QED  BY <2>4, <2>5
<1>14. session' \in [Ids -> Session]
  <2>1. DOMAIN session' = Ids /\ session' = [j \in Ids |-> session'[j]]  BY <1>9 DEF Initialized
  <2>2. \A j \in Ids : session'[j] \in Session  BY <1>11, <1>12, <1>13
  <2> QED  BY <2>1, <2>2
\* The queries.
<1>15. /\ last \in Seq(QueryType)
       /\ \A k \in DOMAIN last : last[k].what = "save" /\ last[k].account = a /\ last[k].id = i
       /\ ~s.player => last = <<>>
       /\ s.player => \E q \in QueryType : last = <<q>> /\ IsSave(q, a) /\ q.progress = played[a]
  <2>1. last \in Seq(QueryType) /\ (~s.player => last = <<>>)  BY <1>1, <1>8, SavesType DEF last
  <2>2. CASE ~s.player  BY <2>1, <2>2
  <2>3. CASE s.player
    <3>1. PICK q \in QueryType : /\ last = <<q>> /\ q.what = "save" /\ q.id = i /\ q.account = a
                                 /\ q.progress = s.progress
      BY <1>1, <1>8, <2>3, SavesType DEF last
    <3>2. s.progress = played[a]  BY <1>8, <2>3 DEF Loaded
    <3> QED  BY <2>1, <2>3, <3>1, <3>2 DEF IsSave
  <2> QED  BY <2>2, <2>3
<1>16. /\ first \in Seq(QueryType)
       /\ \A k \in DOMAIN first : first[k].what = "save" /\ first[k].account = a /\ first[k].id = i
       /\ \/ first = <<>> /\ (o.player => s.player)
          \/ ~s.player /\ \E q \in QueryType : first = <<q>> /\ IsSave(q, a) /\ q.progress = played[a]
  <2>1. CASE first = <<>> /\ (o.player => s.player)  BY <2>1
  <2>2. CASE ~s.player /\ \E q : first = <<q>> /\ FullSave(i, q)
    <3>1. PICK q : first = <<q>> /\ FullSave(i, q)  BY <2>2
    <3>2. q \in QueryType /\ q.what = "save" /\ q.id = i /\ q.account = a /\ q.progress = played[a]
      BY <3>1 DEF FullSave
    <3>3. first \in Seq(QueryType)  BY <3>1, <3>2
    <3>4. \A k \in DOMAIN first : first[k] = q  BY <3>1
    <3> QED  BY <2>2, <3>1, <3>2, <3>3, <3>4 DEF IsSave
  <2> QED  BY <1>8, <2>1, <2>2
<1>17. data \in Seq(QueryType) /\ \A k \in DOMAIN data : data[k].what = "data"
  BY <1>1, <1>6, DataQueriesType DEF data
<1>18. /\ data \o last \in Seq(QueryType) /\ more \in Seq(QueryType)
       /\ queries \o first \in Seq(QueryType)
       /\ queries' = queries \o more /\ queries' = (queries \o first) \o (data \o last)
       /\ queries' \in Seq(QueryType)
  <2>1. data \o last \in Seq(QueryType) /\ queries \o first \in Seq(QueryType)
    BY <1>2, <1>15, <1>16, <1>17, MoreQueries
  <2>2. more \in Seq(QueryType)  BY <1>16, <2>1, MoreQueries
  <2>3. queries' = (queries \o first) \o (data \o last)
    <3> DEFINE with == queries \o first
    <3>1. queries' = (with \o data) \o last /\ with \in Seq(QueryType)  BY <1>10, <2>1
    <3> HIDE DEF with
    <3>2. queries' = with \o (data \o last)  BY <1>15, <1>17, <3>1, ConcatThree
    <3> QED  BY <3>2 DEF with
  <2>4. (queries \o first) \o (data \o last) = queries \o more  BY <1>2, <1>16, <2>1, ConcatThree
  <2>5. queries \o more \in Seq(QueryType)  BY <1>2, <2>2, MoreQueries
  <2> QED  BY <2>1, <2>2, <2>3, <2>4, <2>5
<1>19. \A k \in DOMAIN more :
         \/ more[k].what = "data" /\ more[k].id \in H
         \/ more[k].what = "save" /\ more[k].account = a /\ more[k].id = i
  <2> DEFINE rest == data \o last
  <2>1. PICK ids \in Seq(Ids) : ids = taken.admitted  BY <1>6
  <2>2. \A k \in DOMAIN (DataQueries(ids) \o last) :
          LET q == (DataQueries(ids) \o last)[k]
          IN  \/ q.what = "data" /\ q.id \in Range(ids)
              \/ q.what = "save" /\ q.account = a /\ q.id = i /\ last # <<>>
    <3>1. last \in Seq(QueryType)
          /\ \A k \in DOMAIN last : last[k].what = "save" /\ last[k].account = a /\ last[k].id = i
      BY <1>15
    <3> HIDE DEF a
    <3> QED  BY <1>1, <3>1, MoreOfBoth
  <2>3. \A k \in DOMAIN rest :
          \/ rest[k].what = "data" /\ rest[k].id \in H
          \/ rest[k].what = "save" /\ rest[k].account = a /\ rest[k].id = i
    BY <2>1, <2>2 DEF H, data
  <2>4. rest \in Seq(QueryType)  BY <1>18
  <2> HIDE DEF rest
  <2>5. \A k \in DOMAIN (first \o rest) :
          \/ k \in DOMAIN first /\ (first \o rest)[k] = first[k]
          \/ k - Len(first) \in DOMAIN rest /\ (first \o rest)[k] = rest[k - Len(first)]
    BY <1>16, <2>4, MoreQueries
  <2>6. more = first \o rest  BY DEF rest
  <2> HIDE DEF more
  <2> QED  BY <1>16, <2>3, <2>5, <2>6
<1> HIDE DEF more

<1>20. Types'
  <2>1. m_sessions' \in [Accounts -> Ids \cup {None}]  BY <1>2, <1>9
  <2>2. m_QueuedPlayer' \in Seq(Ids)  BY <1>5, <1>9 DEF TakenOff
  <2>3. left' \subseteq Ids /\ phase' \in {"add", "world", "maps"}  BY <1>1, <1>9 DEF Types
  <2> QED  BY <1>1, <1>9, <1>14, <1>18, <2>1, <2>2, <2>3 DEF Types
<1>21. Listed' = Listed \ {i}
  <2>1. \A j \in Ids : session'[j].place = "listed" <=> session[j].place = "listed" /\ j # i
    BY <1>11, <1>12, <1>13
  <2> QED  BY <2>1 DEF Listed
<1>22. ListInv'
  <2>1. \A j \in Ids : session'[j].place \in {"none", "adding"} => session'[j] = session[j] /\ j # i
    <3>1. \A j \in H : session[j].place = "listed"  BY <1>6 DEF Listed
    <3> QED  BY <1>11, <1>12, <1>13, <3>1
  <2>2. \A j \in Ids : session'[j].place \in {"adding", "listed"} => session'[j].account \in Accounts
    BY <1>1, <1>11, <1>12, <1>13 DEF ListInv
  <2>3. \A j \in Ids : session'[j].place \in {"none", "adding"} => ~session'[j].player /\ session'[j].login = "none"
    BY <1>1, <2>1 DEF ListInv
  <2>4. \A j \in Ids : session'[j].place = "listed" => m_sessions'[session'[j].account] = j
    <3> SUFFICES ASSUME NEW j \in Ids, session'[j].place = "listed"
                 PROVE  m_sessions'[session'[j].account] = j
      OBVIOUS
    <3>1. j # i /\ session[j].place = "listed" /\ session'[j].account = session[j].account
      BY <1>11, <1>12, <1>13
    <3>2. session[j].account # a /\ session[j].account \in Accounts  BY <1>1, <1>4, <3>1 DEF ListInv
    <3>3. m_sessions[session[j].account] = j  BY <1>1, <3>1 DEF ListInv
    <3> QED  BY <1>2, <1>9, <3>1, <3>2, <3>3
  <2>5. \A b \in Accounts : m_sessions'[b] # None =>
          session'[m_sessions'[b]].place = "listed" /\ session'[m_sessions'[b]].account = b
    <3> SUFFICES ASSUME NEW b \in Accounts, m_sessions'[b] # None
                 PROVE  session'[m_sessions'[b]].place = "listed" /\ session'[m_sessions'[b]].account = b
      OBVIOUS
    <3>1. b # a  BY <1>2, <1>4, <1>9
    <3> DEFINE j == m_sessions[b]
    <3>2. m_sessions'[b] = j /\ j \in Ids  BY <1>2, <1>9, <3>1
    <3>3. session[j].place = "listed" /\ session[j].account = b  BY <1>1, <3>2 DEF ListInv
    <3>4. j # i  BY <3>1, <3>3
    <3> HIDE DEF j
    <3> QED  BY <1>13, <3>2, <3>3, <3>4
  <2>6. IsInjective(addSessQueue') /\ \A k \in DOMAIN addSessQueue' : session'[addSessQueue'[k]].place = "adding"
    <3>1. \A k \in DOMAIN addSessQueue : addSessQueue[k] \in Ids
      <4>1. addSessQueue \in Seq(Ids)  BY <1>1 DEF Types
      <4> QED  BY <4>1, ElementsOfSeq
    <3>2. \A k \in DOMAIN addSessQueue : session[addSessQueue[k]].place = "adding" /\ IsInjective(addSessQueue)
      BY <1>1 DEF ListInv
    <3>3. \A k \in DOMAIN addSessQueue : session'[addSessQueue[k]].place = "adding"
      BY <1>3, <1>13, <3>1, <3>2
    <3>4. IsInjective(addSessQueue)  BY <1>1 DEF ListInv
    <3> QED  BY <1>9, <3>3, <3>4
  <2>7. left' \subseteq Listed' /\ phase' # "add"
    <3>1. left \subseteq Listed  BY <1>1 DEF ListInv
    <3> QED  BY <1>9, <1>21, <3>1
  <2> QED  BY <2>2, <2>3, <2>4, <2>5, <2>6, <2>7 DEF ListInv
<1>23. QueueIsExact' /\ LimitHolds' /\ NoLimitNoQueue'
  <2>1. i \in Listed \cup {None} /\ FALSE \in BOOLEAN /\ None \notin Listed /\ None # i  BY <1>2, <1>3, <1>6
  <2>2. Listed' = (Listed \ {i}) \cup (IF FALSE THEN {None} ELSE {})  BY <1>21
  <2>3. \A j \in Listed \ {i} :
          /\ session'[j].account = session[j].account
          /\ IF j \in Range(taken.admitted) THEN session'[j].data # "none"
             ELSE session'[j].data = session[j].data /\ session'[j].inQueue = session[j].inQueue
    <3>1. \A j \in Listed \ {i} : j \in Ids \ {i}  BY <1>6
    <3>2. H = Range(taken.admitted)  BY DEF H
    <3> QED  BY <1>13, <3>1, <3>2
  <2>4. m_QueuedPlayer' = IF FALSE THEN Append(taken.queue, None) ELSE taken.queue  BY <1>9
  <2>5. m_disconnects \subseteq m_disconnects'  BY <1>9
  <2> QED  BY <1>1, <1>5, <1>20, <1>22, <2>1, <2>2, <2>3, <2>4, <2>5, QueueTaken
<1>24. QueryInv(session', queries')
  <2>1. \A j \in Ids : session[j].place \in {"listed", "deleted"} =>
          /\ session'[j].place \in {"listed", "deleted"}
          /\ session'[j].place = "listed" => /\ session[j].place = "listed"
                                             /\ session[j].data # "none" => session'[j].data # "none"
    BY <1>11, <1>12, <1>13
  <2>2. QueryInv(session', queries)  BY <1>1, <1>2, <2>1, KnownStep
  <2>3. \A j \in H : session'[j].place = "listed" /\ session'[j].data # "none"
    <3>1. \A j \in H : j \in Ids \ {i} /\ session[j].place = "listed"  BY <1>6 DEF Listed
    <3> QED  BY <1>13, <3>1
  <2>4. \A k \in DOMAIN more : Known(session', more[k])  BY <1>11, <1>12, <1>19, <2>3 DEF Known
  <2>5. QueryInv(session', queries \o more)  BY <1>2, <1>18, <2>2, <2>4, KnownMore
  <2> QED  BY <1>18, <2>5
<1>25. CharInv'
  <2>1. \A j \in Ids : session[j].account # a /\ session[j].place = "listed"
          => session'[j].place = "listed" /\ SameChar(session'[j], session[j])
    BY <1>13
  <2>2. \A j \in Ids : session'[j].place = "listed" =>
          /\ session[j].place \in {"adding", "listed"} /\ session'[j].account = session[j].account
          /\ session'[j].account # a => session[j].place = "listed"
          /\ session'[j].account = a =>
                /\ Loaded(session'[j], played)
                /\ session[j].place = "listed" /\ session[j].login = "asked" => session'[j].login = "asked"
                /\ session'[j].login = "asked" => \A k \in DOMAIN more : more[k].what # "save"
    <3>1. \A j \in Ids : session'[j].place = "listed" =>
            j # i /\ session[j].place = "listed" /\ session'[j].account = session[j].account
      BY <1>11, <1>12, <1>13
    <3> QED  BY <1>4, <3>1
  <2>3. \A k \in DOMAIN more : more[k].what # "login" /\ (more[k].what = "save" => more[k].account = a)
    BY <1>19
  <2>4. SavedAs(queries', stored, a, played[a])
    <3> DEFINE with == queries \o first
    <3>1. with \in Seq(QueryType) /\ queries' = with \o (data \o last)  BY <1>18
    <3>2. CASE s.player
      <4>1. PICK q \in QueryType : last = <<q>> /\ IsSave(q, a) /\ q.progress = played[a]  BY <1>15, <3>2
      <4> HIDE DEF with
      <4>2. queries' = (with \o data) \o <<q>> /\ with \o data \in Seq(QueryType)
        BY <1>15, <1>17, <3>1, <4>1, ConcatThree
      <4>3. SavedAs((with \o data) \o <<q>>, stored, a, q.progress)  BY <4>1, <4>2, SavedLast
      <4> QED  BY <4>1, <4>2, <4>3
    <3>3. CASE ~s.player
      <4>1. last = <<>> /\ data \o last = data  BY <1>15, <1>17, <3>3
      <4>2. SavedAs(with, stored, a, played[a])
        <5>1. CASE first = <<>> /\ ~o.player
          <6>1. SavedAs(queries, stored, a, played[a])  BY <1>1, <1>4, <5>1 DEF SavedInv
          <6>2. queries \o <<>> = queries  BY <1>2
          <6> QED  BY <5>1, <6>1, <6>2
        <5>2. CASE \E q \in QueryType : first = <<q>> /\ IsSave(q, a) /\ q.progress = played[a]
          <6>1. PICK q \in QueryType : first = <<q>> /\ IsSave(q, a) /\ q.progress = played[a]  BY <5>2
          <6>2. SavedAs(queries \o <<q>>, stored, a, q.progress)  BY <1>2, <6>1, SavedLast
          <6> QED  BY <6>1, <6>2
        <5> QED  BY <1>16, <3>3, <5>1, <5>2
      <4>3. \A k \in DOMAIN data : ~IsSave(data[k], a)  BY <1>17 DEF IsSave
      <4> HIDE DEF with
      <4>4. SavedAs(with \o data, stored, a, played[a])  BY <1>17, <3>1, <4>2, <4>3, SavedStays
      <4> QED  BY <3>1, <4>1, <4>4
    <3> QED  BY <3>2, <3>3
  <2>5. queries' = queries \o more /\ stored' = stored /\ played' = played  BY <1>9, <1>18
  <2>6. more \in Seq(QueryType) /\ a \in Accounts  BY <1>4, <1>18
  <2> HIDE DEF a
  <2> QED  BY <1>1, <2>1, <2>2, <2>3, <2>4, <2>5, <2>6, CharStep
<1> QED  BY <1>20, <1>22, <1>23, <1>24, <1>25 DEF IInv

-----------------------------------------------------------------------------
(***************************************************************************)
(* The invariant, and what follows.                                        *)
(***************************************************************************)
\* It holds at the start.
LEMMA InitHolds == Init => IInv
<1> SUFFICES ASSUME Init
             PROVE  IInv
  OBVIOUS
<1>1. \A i \in Ids : /\ session[i] = Unborn /\ session[i].place = "none"
                     /\ ~session[i].player /\ session[i].login = "none"
  BY DEF Init, Unborn
<1>2. \A a \in Accounts : m_sessions[a] = None /\ stored[a] = 0 /\ played[a] = 0  BY DEF Init
<1>3. addSessQueue = <<>> /\ m_QueuedPlayer = <<>> /\ queries = <<>> /\ left = {} /\ Listed = {}
  BY <1>1 DEF Init, Listed
<1>4. Types
  <2>1. session \in [Ids -> Session]  BY UnbornType DEF Init
  <2>2. m_sessions \in [Accounts -> Ids \cup {None}]  BY DEF Init
  <2>3. stored \in [Accounts -> Nat] /\ played \in [Accounts -> Nat]  BY DEF Init
  <2>4. <<>> \in Seq(Ids) /\ <<>> \in Seq(QueryType)  OBVIOUS
  <2>5. phase \in {"add", "world", "maps"} /\ sent \in Nat  BY DEF Init
  <2> QED  BY <1>3, <2>1, <2>2, <2>3, <2>4, <2>5 DEF Types
<1>5. IsInjective(<<>>) /\ DOMAIN <<>> = {} /\ Range(<<>>) = {}  BY ShortRanges DEF IsInjective
<1>6. ListInv  BY <1>1, <1>2, <1>3, <1>5 DEF ListInv
<1>7. QueryInv(session, queries)  BY <1>3, <1>5 DEF QueryInv
<1>8. CharInv
  <2>1. LoadedInv(session, played)  BY <1>1 DEF LoadedInv, Loaded
  <2>2. SavedInv(session, queries, stored, played)  BY <1>2, <1>3, <1>5 DEF SavedInv, SavedAs
  <2>3. LoginInv(session, queries)  BY <1>3, <1>5 DEF LoginInv
  <2> QED  BY <2>1, <2>2, <2>3 DEF CharInv
<1>9. QueueIsExact /\ NoLimitNoQueue
  <2>1. QueueIsExact  BY <1>3, <1>5 DEF QueueIsExact
  <2> QED  BY <1>3, <2>1 DEF NoLimitNoQueue
<1>10. LimitHolds
  <2>1. {i \in Listed \ Range(m_QueuedPlayer) : session[i].account \notin Privileged \cup m_disconnects} = {}
    BY <1>3
  <2>2. Cardinality({}) = 0 /\ PlayerLimit \in Nat  BY FS_EmptySet, IdFacts
  <2> DEFINE counted == {i \in Listed \ Range(m_QueuedPlayer) : session[i].account \notin Privileged \cup m_disconnects}
  <2>3. counted = {}  BY <2>1
  <2> HIDE DEF counted
  <2>4. PlayerLimit > 0 => Cardinality(counted) <= PlayerLimit  BY <2>2, <2>3
  <2> QED  BY <2>4 DEF LimitHolds, counted
<1> QED  BY <1>4, <1>6, <1>7, <1>8, <1>9, <1>10 DEF IInv

\* And every step keeps it.
LEMMA StepHolds == IInv /\ [Next]_vars => IInv'
<1> SUFFICES ASSUME IInv, [Next]_vars
             PROVE  IInv'
  OBVIOUS
<1>1. CASE \E i \in Ids, a \in Accounts : AddSession(i, a)  BY <1>1, AddSessionStep
<1>2. CASE \E i \in Ids, kind \in Kinds : QueuePacket(i, kind)  BY <1>2, QueuePacketStep
<1>3. CASE \E i \in Ids : CloseSocket(i) \/ Expire(i) \/ LogOutDue(i)  BY <1>3, SmallSteps
<1>4. CASE ExecuteQuery  BY <1>4, ExecuteQueryStep
<1>5. CASE RefuseSession  BY <1>5, RefuseSessionStep
<1>6. CASE AddSession_  BY <1>6, AddSession_Step
<1>7. CASE NextPhase \/ UNCHANGED vars  BY <1>7, NextPhaseStep
<1>8. CASE \E i \in Ids : HandlePacket(i)  BY <1>8, HandlePacketStep
<1>9. CASE \E i \in Ids : EndUpdate(i)  BY <1>9, EndUpdateStep
<1>10. CASE \E i \in Ids : DeleteSession(i)  BY <1>10, DeleteSessionStep
<1> QED  BY <1>1, <1>2, <1>3, <1>4, <1>5, <1>6, <1>7, <1>8, <1>9, <1>10 DEF Next, Network, Time, Server

\* Every state of the world's sessions satisfies it.
THEOREM Inductive == Spec => []IInv
  BY InitHolds, StepHolds, PTL DEF Spec

(***************************************************************************)
(* QueueIsExact: m_QueuedPlayer has exactly the sessions that have not     *)
(* been let in, each once, and nobody waits while there is room, whatever  *)
(* order RemoveQueuedPlayer and AddSession_ are called in.                 *)
(***************************************************************************)
THEOREM QueueStaysExact == Spec => []QueueIsExact
<1>1. IInv => QueueIsExact  BY DEF IInv
<1> QED  BY <1>1, Inductive, PTL

(***************************************************************************)
(* LimitHolds: of the sessions that neither skip the queue nor come back,  *)
(* never more than PlayerLimit are let in.                                 *)
(***************************************************************************)
THEOREM LimitIsKept == Spec => []LimitHolds
<1>1. IInv => LimitHolds  BY DEF IInv
<1> QED  BY <1>1, Inductive, PTL

(***************************************************************************)
(* CharacterIsKept: a character in the game has all that it achieved,      *)
(* however its sessions ended and whenever the database answered.          *)
(***************************************************************************)
THEOREM CharactersAreKept == Spec => []CharacterIsKept
<1>1. IInv => CharacterIsKept
  <2> SUFFICES ASSUME IInv, NEW i \in InWorld
               PROVE  session[i].progress = played[session[i].account]
    BY DEF CharacterIsKept
  <2>1. i \in Ids /\ session[i].place = "listed" /\ session[i].player  BY DEF InWorld, Listed
  <2>2. Loaded(session[i], played)  BY <2>1 DEF IInv, CharInv, LoadedInv
  <2> QED  BY <2>1, <2>2 DEF Loaded
<1> QED  BY <1>1, Inductive, PTL

-----------------------------------------------------------------------------
(***************************************************************************)
(* The order of packets.                                                   *)
(***************************************************************************)
\* Packets that were not put back are in the order they were sent.
Ordered(q) ==
    \A j, k \in DOMAIN q : j < k /\ ~q[j].delayed /\ ~q[k].delayed => q[j].n < q[k].n

\* In every queue, and none was sent later than the last.
OrderInv == \A i \in Ids :
    /\ Ordered(session[i].recvQueue)
    /\ \A k \in DOMAIN session[i].recvQueue : session[i].recvQueue[k].n <= sent

\* A packet that is put back.
PutBack(p) == [p EXCEPT !.delayed = TRUE]

\* What a step may do to the queue q of a session: the network thread appends
\* to it, the first packet is taken, and perhaps put back.
Arrives(q, d, n) == \E kind \in Kinds : d = Append(q, [n |-> n, kind |-> kind, delayed |-> FALSE])
IsTaken(q, d) == q # <<>> /\ d \in {RemoveAt(q, 1), Append(RemoveAt(q, 1), PutBack(q[1]))}
Changes(i) ==
    \/ session'[i].recvQueue = session[i].recvQueue
    \/ Arrives(session[i].recvQueue, session'[i].recvQueue, sent') /\ sent' = sent + 1
    \/ IsTaken(session[i].recvQueue, session'[i].recvQueue)
    \/ session'[i] = Deleted

\* The handler takes the packet for good, or puts it back.
LEMMA HandledQueue ==
    ASSUME Types, NEW i \in Ids, NEW r \in Session, NEW packet \in Packet,
           NEW done \in Handled(i, r, packet)
    PROVE  done.session.recvQueue \in {r.recvQueue, Append(r.recvQueue, PutBack(packet))}
<1>1. \A d : Only(d).session = d  BY DEF Only
<1>2. \A d \in Session : KickPlayer(d).recvQueue = d.recvQueue /\ LoggedOut(d).recvQueue = d.recvQueue
  BY DEF Session, KickPlayer, LoggedOut
<1>3. CASE packet.kind = "login"
  <2> DEFINE loads == [r EXCEPT !.loading = TRUE]
             asks == [loads EXCEPT !.login = "asked"]
  <2>1. loads \in Session /\ loads.recvQueue = r.recvQueue /\ asks.recvQueue = r.recvQueue  BY DEF Session
  <2>2. done \in HandlePlayerLogin(i, r)  BY <1>3 DEF Handled
  <2>3. \/ done = Only(r) \/ done = Only(KickPlayer(r)) \/ done = Only(KickPlayer(loads))
        \/ done = [session |-> asks, queries |-> <<Query("login", i)>>]
    BY <2>2 DEF HandlePlayerLogin
  <2> HIDE DEF loads, asks
  <2>4. done.session \in {r, KickPlayer(r), KickPlayer(loads), asks}  BY <1>1, <2>3
  <2> QED  BY <1>2, <2>1, <2>4
<1>4. CASE packet.kind # "login" /\ packet.kind = "logout" /\ r.player
  <2> DEFINE no == [r EXCEPT !.logout = "no"]
             asked == [r EXCEPT !.logout = "asked"]
  <2>1. no.recvQueue = r.recvQueue /\ asked.recvQueue = r.recvQueue  BY DEF Session
  <2>2. done \in HandleLogoutRequest(i, r)  BY <1>4 DEF Handled
  <2>3. done = Only(no) \/ done = Only(asked) \/ done = [session |-> LoggedOut(r), queries |-> Saves(i, r)]
    BY <2>2 DEF HandleLogoutRequest
  <2> HIDE DEF no, asked
  <2>4. done.session \in {no, asked, LoggedOut(r)}  BY <1>1, <2>3
  <2> QED  BY <1>2, <2>1, <2>4
<1>5. CASE packet.kind # "login" /\ packet.kind = "move" /\ r.player
  <2> DEFINE moved == [r EXCEPT !.progress = r.progress + 1]
  <2>1. moved.recvQueue = r.recvQueue  BY DEF Session
  <2>2. done = Only(moved)  BY <1>5 DEF Handled
  <2> QED  BY <1>1, <2>1, <2>2
<1>6. CASE packet.kind # "login" /\ ~(packet.kind = "logout" /\ r.player)
           /\ ~(packet.kind = "move" /\ r.player)
  <2> DEFINE back == Requeued(r, packet)
  <2>1. back.recvQueue = Append(r.recvQueue, PutBack(packet))  BY DEF Session, Requeued, PutBack
  <2>2. done = Only(IF Requeues(r, packet) THEN back ELSE r)  BY <1>6 DEF Handled
  <2> HIDE DEF back
  <2> QED  BY <1>1, <2>1, <2>2
<1> QED  BY <1>3, <1>4, <1>5, <1>6

\* The queue as the answers of the database and the logout leave it.
LEMMA UpdateQueue ==
    ASSUME NEW r \in Session, NEW d \in CalledBack(r)
    PROVE  d.recvQueue = r.recvQueue /\ LoggedOut(d).recvQueue = r.recvQueue
<1> DEFINE w == WithData(r)
           x == [w EXCEPT !.login = "none", !.loading = FALSE]
<1>1. w \in Session /\ w.recvQueue = r.recvQueue  BY DEF WithData, Session
<1>2. d \in {w, [x EXCEPT !.player = TRUE], KickPlayer([x EXCEPT !.progress = 0])}
  BY DEF CalledBack
<1> HIDE DEF w
<1>3. d.recvQueue = r.recvQueue  BY <1>1, <1>2 DEF Session, KickPlayer
<1>4. d \in Session  BY SessionTypes
<1> QED  BY <1>3, <1>4 DEF LoggedOut, Session

\* No step does anything else to a queue.
LEMMA QueueSteps ==
    ASSUME IInv, [Next]_vars, NEW i \in Ids
    PROVE  Changes(i) /\ (sent' = sent \/ sent' = sent + 1)
<1>1. Types /\ ListInv /\ session \in [Ids -> Session] /\ session[i] \in Session  BY DEF IInv, Types
<1>2. CASE \E j \in Ids, a \in Accounts : AddSession(j, a)
  <2>1. PICK j \in Ids : \E a \in Accounts : AddSession(j, a)  BY <1>2
  <2>2. PICK a \in Accounts : AddSession(j, a)  BY <2>1
  <2>3. /\ session' = [session EXCEPT ![j] = [@ EXCEPT !.place = "adding", !.account = a, !.open = TRUE]]
        /\ sent' = sent
    BY <2>2 DEF AddSession, loop
  <2>4. session'[i].recvQueue = session[i].recvQueue  BY <1>1, <2>3 DEF Session
  <2> QED  BY <2>3, <2>4 DEF Changes
<1>3. CASE \E j \in Ids, kind \in Kinds : QueuePacket(j, kind)
  <2>1. PICK j \in Ids : \E kind \in Kinds : QueuePacket(j, kind)  BY <1>3
  <2>2. PICK kind \in Kinds : QueuePacket(j, kind)  BY <2>1
  <2> DEFINE p == [n |-> sent', kind |-> kind, delayed |-> FALSE]
  <2>3. session' = [session EXCEPT ![j].recvQueue = Append(@, p)] /\ sent' = sent + 1  BY <2>2 DEF QueuePacket
  <2> HIDE DEF p
  <2>4. IF i = j THEN session'[i].recvQueue = Append(session[i].recvQueue, p) ELSE session'[i] = session[i]
    BY <1>1, <2>3 DEF Session
  <2>5. i = j => Arrives(session[i].recvQueue, session'[i].recvQueue, sent')  BY <2>4 DEF Arrives, p
  <2> QED  BY <2>3, <2>4, <2>5 DEF Changes
<1>4. CASE \E j \in Ids : CloseSocket(j) \/ Expire(j) \/ LogOutDue(j)
  <2>1. PICK j \in Ids : CloseSocket(j) \/ Expire(j) \/ LogOutDue(j)  BY <1>4
  <2>2. \E d \in {[session[j] EXCEPT !.open = FALSE], [session[j] EXCEPT !.expired = TRUE],
                  [session[j] EXCEPT !.logout = "due"]} :
          session' = [session EXCEPT ![j] = d] /\ sent' = sent
    BY <1>1, <2>1 DEF CloseSocket, Expire, LogOutDue, loop
  <2>3. \A d \in {[session[j] EXCEPT !.open = FALSE], [session[j] EXCEPT !.expired = TRUE],
                  [session[j] EXCEPT !.logout = "due"]} : d.recvQueue = session[j].recvQueue
    <3>1. session[j] \in Session  BY <1>1
    <3> QED  BY <3>1 DEF Session
  <2>4. session'[i].recvQueue = session[i].recvQueue  BY <1>1, <2>2, <2>3
  <2> QED  BY <2>2, <2>4 DEF Changes
<1>5. CASE ExecuteQuery
  <2> DEFINE q == Head(queries)
  <2>1. /\ \/ session' = session
           \/ session' = [session EXCEPT ![q.id].data = "there"]
           \/ session' = [session EXCEPT ![q.id].login = "there", ![q.id].progress = stored[q.account]]
        /\ sent' = sent
    BY <1>5 DEF ExecuteQuery, loop
  <2> HIDE DEF q
  <2>2. session'[i].recvQueue = session[i].recvQueue  BY <1>1, <2>1 DEF Session
  <2> QED  BY <2>1, <2>2 DEF Changes
<1>6. CASE RefuseSession
  <2> DEFINE j == Added
  <2>1. session' = [session EXCEPT ![j] = Deleted] /\ sent' = sent  BY <1>6 DEF RefuseSession, loop
  <2> HIDE DEF j
  <2>2. session'[i] = Deleted \/ session'[i] = session[i]  BY <1>1, <2>1
  <2> QED  BY <2>1, <2>2 DEF Changes
<1>7. CASE AddSession_
  <2> DEFINE j == Added
             a == session[j].account
             old == m_sessions[a]
             r == Unqueued(old)
             known == (Listed \ {old}) \cup {j}
             waits == Waits(a, Cardinality(known) - (IF r.found THEN 0 ELSE 1))
             there == IF waits THEN "none" ELSE "there"
             most == Initialized(Range(r.admitted))
             after == [k \in Ids |-> IF k = old THEN Deleted ELSE most[k]]
  <2>1. session' = [after EXCEPT ![j].place = "listed", ![j].inQueue = waits, ![j].data = there]
        /\ sent' = sent
    BY <1>7 DEF AddSession_, loop
  <2>2. j \in Ids /\ session[j].place = "adding" /\ a \in Accounts  BY <1>1, <1>7, AddedFacts DEF AddSession_
  <2>3. old # j
    <3>1. None \notin Ids  BY IdFacts
    <3>2. old # None => session[old].place = "listed"  BY <1>1, <2>2 DEF ListInv
    <3> QED  BY <2>2, <3>1, <3>2
  <2>4. most[i] \in Session /\ most[i].recvQueue = session[i].recvQueue
    <3> DEFINE H == Range(r.admitted)
    <3> HIDE DEF H
    <3>1. Initialized(H)[i] \in {session[i], [session[i] EXCEPT !.data = "asked"]}  BY DEF Initialized
    <3>2. [session[i] EXCEPT !.data = "asked"] \in Session
          /\ [session[i] EXCEPT !.data = "asked"].recvQueue = session[i].recvQueue
      BY <1>1 DEF Session
    <3> QED  BY <1>1, <3>1, <3>2 DEF H
  <2> HIDE DEF j, a, old, r, known, waits, there, most
  <2>5. CASE i = j
    <3>1. after[i] = most[i]  BY <2>3, <2>5
    <3>2. session'[i] = [after[i] EXCEPT !.place = "listed", !.inQueue = waits, !.data = there]
      BY <2>1, <2>2, <2>5
    <3>3. session'[i].recvQueue = session[i].recvQueue  BY <2>4, <3>1, <3>2 DEF Session
    <3> QED  BY <2>1, <3>3 DEF Changes
  <2>6. CASE i # j
    <3>1. session'[i] = after[i]  BY <2>1, <2>6
    <3>2. session'[i] = Deleted \/ session'[i] = most[i]  BY <3>1
    <3> QED  BY <2>1, <2>4, <3>2 DEF Changes
  <2> QED  BY <2>5, <2>6
<1>8. CASE NextPhase \/ UNCHANGED vars
  <2>1. session' = session /\ sent' = sent  BY <1>8 DEF NextPhase, vars
  <2> QED  BY <2>1 DEF Changes
<1>9. CASE \E j \in Ids : HandlePacket(j)
  <2>1. PICK j \in Ids : HandlePacket(j)  BY <1>9
  <2> DEFINE k == NextPacket(session[j])
             packet == session[j].recvQueue[k]
             taken == [session[j] EXCEPT !.recvQueue = RemoveAt(@, k)]
  <2>2. PICK done \in Handled(j, taken, packet) : session' = [session EXCEPT ![j] = done.session]
    BY <2>1 DEF HandlePacket
  <2>3. MorePackets(session[j]) /\ sent' = sent  BY <2>1 DEF HandlePacket
  <2>4. k = 1 /\ session[j].recvQueue # <<>>  BY <2>3 DEF MorePackets, NextPacket
  <2>5. packet \in Packet /\ taken \in Session  BY <1>1, <2>3, TakenFacts
  <2>6. taken.recvQueue = RemoveAt(session[j].recvQueue, 1) /\ packet = session[j].recvQueue[1]
    BY <1>1, <2>4 DEF Session
  <2> HIDE DEF k, taken, packet
  <2>7. done.session.recvQueue \in {taken.recvQueue, Append(taken.recvQueue, PutBack(packet))}
    BY <1>1, <2>5, HandledQueue
  <2>8. IF i = j THEN session'[i] = done.session ELSE session'[i] = session[i]  BY <1>1, <2>2
  <2>9. i = j => IsTaken(session[i].recvQueue, session'[i].recvQueue)  BY <2>4, <2>6, <2>7, <2>8 DEF IsTaken
  <2> QED  BY <2>3, <2>8, <2>9 DEF Changes
<1>10. CASE \E j \in Ids : EndUpdate(j)
  <2>1. PICK j \in Ids : EndUpdate(j)  BY <1>10
  <2>2. PICK r \in CalledBack(session[j]) :
          session' = [session EXCEPT ![j] = IF LogsOut(r) THEN LoggedOut(r) ELSE r]
    BY <2>1 DEF EndUpdate
  <2>3. sent' = sent  BY <2>1 DEF EndUpdate
  <2>4. session[j] \in Session  BY <1>1
  <2>5. r.recvQueue = session[j].recvQueue /\ LoggedOut(r).recvQueue = session[j].recvQueue
    BY <2>4, UpdateQueue
  <2> DEFINE d == IF LogsOut(r) THEN LoggedOut(r) ELSE r
  <2>6. d \in {r, LoggedOut(r)} /\ session' = [session EXCEPT ![j] = d]  BY <2>2
  <2> HIDE DEF d
  <2>7. IF i = j THEN session'[i] = d ELSE session'[i] = session[i]
    <3>1. session' = [session EXCEPT ![j] = d]  BY <2>6
    <3> QED  BY <1>1, <3>1
  <2> QED  BY <2>3, <2>5, <2>6, <2>7 DEF Changes
<1>11. CASE \E j \in Ids : DeleteSession(j)
  <2>1. PICK j \in Ids : DeleteSession(j)  BY <1>11
  <2>2. \E H : session' = [Initialized(H) EXCEPT ![j] = Deleted]  BY <2>1 DEF DeleteSession
  <2>3. PICK H : session' = [Initialized(H) EXCEPT ![j] = Deleted]  BY <2>2
  <2>4. sent' = sent  BY <2>1 DEF DeleteSession
  <2>5. session'[i] = Deleted \/ session'[i] = Initialized(H)[i]  BY <2>3 DEF Initialized
  <2>6. Initialized(H)[i].recvQueue = session[i].recvQueue  BY <1>1 DEF Initialized, Session
  <2> QED  BY <2>4, <2>5, <2>6 DEF Changes
<1> QED  BY <1>2, <1>3, <1>4, <1>5, <1>6, <1>7, <1>8, <1>9, <1>10, <1>11 DEF Next, Network, Time, Server

\* The queue after its first packet was taken.
LEMMA TakenFirst ==
    ASSUME NEW q \in Seq(Packet), q # <<>>
    PROVE  /\ RemoveAt(q, 1) \in Seq(Packet) /\ DOMAIN RemoveAt(q, 1) = 1..Len(q) - 1
           /\ \A k \in 1..Len(q) - 1 : RemoveAt(q, 1)[k] = q[k + 1]
           /\ Len(q) \in Nat \ {0} /\ DOMAIN q = 1..Len(q) /\ q[1] \in Packet
<1> DEFINE a == SubSeq(q, 1, 0)
           b == SubSeq(q, 2, Len(q))
<1>1. Len(q) \in Nat \ {0} /\ DOMAIN q = 1..Len(q) /\ q[1] \in Packet  OBVIOUS
<1>2. a \in Seq(Packet) /\ Len(a) = 0  OBVIOUS
<1>3. b \in Seq(Packet) /\ Len(b) = Len(q) - 1 /\ \A k \in 1..Len(q) - 1 : b[k] = q[k + 1]  BY <1>1
<1>4. RemoveAt(q, 1) = a \o b  BY DEF RemoveAt
<1> HIDE DEF a, b
<1> DEFINE n == Len(q) - 1
<1>5. a \o b \in Seq(Packet) /\ DOMAIN (a \o b) = 1..n /\ \A k \in 1..n : (a \o b)[k] = b[k]
  <2>1. a \o b \in Seq(Packet) /\ Len(a \o b) = Len(a) + Len(b)  BY <1>2, <1>3
  <2>2. n \in Nat /\ Len(b) = n  BY <1>1, <1>3
  <2> HIDE DEF n
  <2>3. Len(a \o b) = n  BY <1>2, <2>1, <2>2
  <2>4. DOMAIN (a \o b) = 1..n  BY <2>1, <2>3
  <2>5. \A k \in 1..n : (a \o b)[k] = b[k]
    <3>1. \A k \in 1..Len(a) + Len(b) : (a \o b)[k] = IF k <= Len(a) THEN a[k] ELSE b[k - Len(a)]
      BY <1>2, <1>3
    <3> QED  BY <1>2, <2>2, <3>1
  <2> QED  BY <2>1, <2>4, <2>5
<1> QED  BY <1>1, <1>3, <1>4, <1>5

\* A packet at the end: of the network thread's, or put back.
LEMMA WithLast ==
    ASSUME NEW q \in Seq(Packet), NEW p, NEW n \in Nat, NEW m \in Nat, Ordered(q), m >= n,
           \A k \in DOMAIN q : q[k].n <= n,
           p \in Packet, p.n <= m, p.delayed \/ p.n > n
    PROVE  Ordered(Append(q, p)) /\ \A k \in DOMAIN Append(q, p) : Append(q, p)[k].n <= m
<1> DEFINE d == Append(q, p)
<1>1. Len(q) \in Nat /\ DOMAIN q = 1..Len(q) /\ DOMAIN d = 1..Len(q) + 1
      /\ d[Len(q) + 1] = p /\ \A k \in DOMAIN q : d[k] = q[k] /\ q[k] \in Packet
  OBVIOUS
<1>2. \A k \in DOMAIN q : q[k].n \in Nat  BY <1>1 DEF Packet
<1>3. p.n \in Nat  BY DEF Packet
<1> HIDE DEF d
<1>4. \A k \in DOMAIN d : k \in DOMAIN q \/ k = Len(q) + 1  BY <1>1
<1>5. \A k \in DOMAIN d : d[k].n <= m  BY <1>1, <1>2, <1>3, <1>4
<1>6. Ordered(d)
  <2> SUFFICES ASSUME NEW j \in DOMAIN d, NEW k \in DOMAIN d, j < k, ~d[j].delayed, ~d[k].delayed
               PROVE  d[j].n < d[k].n
    BY DEF Ordered
  <2>1. j \in DOMAIN q  BY <1>1
  <2>2. CASE k \in DOMAIN q  BY <1>1, <2>1, <2>2 DEF Ordered
  <2>3. CASE k = Len(q) + 1
    <3>1. d[k] = p /\ d[j] = q[j] /\ q[j].n <= n  BY <1>1, <2>1, <2>3
    <3> QED  BY <1>2, <1>3, <2>1, <3>1
  <2> QED  BY <1>4, <2>2, <2>3
<1> QED  BY <1>5, <1>6 DEF d

\* Without the first packet the rest is still in order.
LEMMA RestOrdered ==
    ASSUME NEW q \in Seq(Packet), q # <<>>, NEW n \in Nat, Ordered(q), \A k \in DOMAIN q : q[k].n <= n
    PROVE  Ordered(RemoveAt(q, 1)) /\ \A k \in DOMAIN RemoveAt(q, 1) : RemoveAt(q, 1)[k].n <= n
<1> DEFINE d == RemoveAt(q, 1)
<1>1. Len(q) \in Nat \ {0} /\ DOMAIN q = 1..Len(q) /\ DOMAIN d = 1..Len(q) - 1
      /\ \A k \in 1..Len(q) - 1 : d[k] = q[k + 1]
  BY TakenFirst
<1> HIDE DEF d
<1>2. \A k \in DOMAIN d : k \in Nat /\ k + 1 \in DOMAIN q /\ d[k] = q[k + 1]  BY <1>1
<1>3. Ordered(d)
  <2> SUFFICES ASSUME NEW j \in DOMAIN d, NEW k \in DOMAIN d, j < k, ~d[j].delayed, ~d[k].delayed
               PROVE  d[j].n < d[k].n
    BY DEF Ordered
  <2>1. j + 1 \in DOMAIN q /\ k + 1 \in DOMAIN q /\ j + 1 < k + 1 /\ d[j] = q[j + 1] /\ d[k] = q[k + 1]
    BY <1>2
  <2> QED  BY <2>1 DEF Ordered
<1> QED  BY <1>2, <1>3 DEF d

\* The packets of every queue stay in order.
LEMMA OrderStays ==
    ASSUME IInv, OrderInv, [Next]_vars
    PROVE  OrderInv'
<1> SUFFICES ASSUME NEW i \in Ids
             PROVE  /\ Ordered(session'[i].recvQueue)
                    /\ \A k \in DOMAIN session'[i].recvQueue : session'[i].recvQueue[k].n <= sent'
  BY DEF OrderInv
<1> DEFINE q == session[i].recvQueue
           d == session'[i].recvQueue
<1>1. q \in Seq(Packet)
  <2>1. session[i] \in Session  BY DEF IInv, Types
  <2> QED  BY <2>1 DEF Session
<1>2. Ordered(q) /\ \A k \in DOMAIN q : q[k].n <= sent  BY DEF OrderInv
<1>3. \/ d = q
      \/ Arrives(q, d, sent') /\ sent' = sent + 1
      \/ IsTaken(q, d)
      \/ session'[i] = Deleted
  <2>1. Changes(i)  BY QueueSteps
  <2> QED  BY <2>1 DEF Changes
<1>4. sent \in Nat /\ sent' >= sent /\ sent' \in Nat
  <2>1. sent \in Nat  BY DEF IInv, Types
  <2> QED  BY <2>1, QueueSteps
<1>5. CASE session'[i] = Deleted
  <2>1. d = <<>>  BY <1>5 DEF Deleted, Unborn
  <2> HIDE DEF d
  <2>2. DOMAIN d = {}  BY <2>1
  <2> QED  BY <2>2 DEF Ordered, d
<1> HIDE DEF q, d
<1>6. CASE d = q
  <2>1. \A k \in DOMAIN q : q[k].n \in Nat /\ q[k].n <= sent'
    <3>1. \A k \in DOMAIN q : q[k] \in Packet  BY <1>1
    <3>2. \A k \in DOMAIN q : q[k].n \in Nat  BY <3>1 DEF Packet
    <3> QED  BY <1>2, <1>4, <3>2
  <2> QED  BY <1>2, <1>6, <2>1 DEF d
<1>7. CASE Arrives(q, d, sent') /\ sent' = sent + 1
  <2>1. PICK kind \in Kinds : d = Append(q, [n |-> sent', kind |-> kind, delayed |-> FALSE])
    BY <1>7 DEF Arrives
  <2> DEFINE p == [n |-> sent', kind |-> kind, delayed |-> FALSE]
  <2>2. p \in Packet /\ p.n <= sent' /\ p.n > sent  BY <1>4, <1>7 DEF Packet
  <2>3. d = Append(q, p)  BY <2>1
  <2> HIDE DEF p
  <2>4. Ordered(Append(q, p)) /\ \A k \in DOMAIN Append(q, p) : Append(q, p)[k].n <= sent'
    BY <1>1, <1>2, <1>4, <2>2, WithLast
  <2> QED  BY <2>3, <2>4 DEF d
<1>8. CASE IsTaken(q, d)
  <2> DEFINE x == RemoveAt(q, 1)
             p == PutBack(q[1])
  <2>1. q # <<>> /\ d \in {x, Append(x, p)}  BY <1>8 DEF IsTaken
  <2>2. x \in Seq(Packet) /\ q[1] \in Packet /\ 1 \in DOMAIN q  BY <1>1, <2>1, TakenFirst
  <2>3. Ordered(x) /\ \A k \in DOMAIN x : x[k].n <= sent  BY <1>1, <1>2, <1>4, <2>1, RestOrdered
  <2>4. p \in Packet /\ p.n = q[1].n /\ p.delayed  BY <2>2 DEF Packet, PutBack
  <2>5. p.n <= sent  BY <1>2, <2>2, <2>4
  <2> HIDE DEF x, p
  <2>6. sent >= sent  BY <1>4
  <2>7. Ordered(Append(x, p)) /\ \A k \in DOMAIN Append(x, p) : Append(x, p)[k].n <= sent
    BY <1>4, <2>2, <2>3, <2>4, <2>5, <2>6, WithLast
  <2>8. Ordered(d) /\ \A k \in DOMAIN d : d[k].n <= sent  BY <2>1, <2>3, <2>7
  <2>9. sent' \in Nat /\ \A k \in DOMAIN d : d[k].n <= sent'
    <3>1. sent' >= sent  BY <1>4
    <3>2. \A k \in DOMAIN d : d[k].n \in Nat
      <4>1. Append(x, p) \in Seq(Packet) /\ d \in Seq(Packet)  BY <2>1, <2>2, <2>4
      <4>2. \A k \in DOMAIN d : d[k] \in Packet  BY <4>1
      <4> QED  BY <4>2 DEF Packet
    <3> QED  BY <1>4, <2>8, <3>1, <3>2
  <2> QED  BY <2>8, <2>9 DEF d
<1> QED  BY <1>3, <1>5, <1>6, <1>7, <1>8 DEF d

\* What leaves the packets that were not put back was sent before the others.
LEMMA FirstLeaves ==
    ASSUME IInv, OrderInv, [Next]_vars, NEW i \in Ids, session'[i] # Deleted,
           NEW p \in Undelayed(session[i]) \ Undelayed(session'[i]), NEW o \in Undelayed(session[i])
    PROVE  p.n <= o.n
<1> DEFINE q == session[i].recvQueue
           d == session'[i].recvQueue
<1>1. q \in Seq(Packet)
  <2>1. session[i] \in Session  BY DEF IInv, Types
  <2> QED  BY <2>1 DEF Session
<1>2. Ordered(q)  BY DEF OrderInv
<1>3. d = q \/ Arrives(q, d, sent') \/ IsTaken(q, d)  BY QueueSteps DEF Changes
<1>4. p \in Range(q) /\ ~p.delayed /\ p \notin Range(d) /\ o \in Range(q) /\ ~o.delayed  BY DEF Undelayed
<1> HIDE DEF q, d
<1>5. PICK j \in DOMAIN q : q[j] = p  BY <1>4 DEF Range
<1>6. PICK k \in DOMAIN q : q[k] = o  BY <1>4 DEF Range
<1>7. DOMAIN q = 1..Len(q) /\ Len(q) \in Nat /\ p \in Packet /\ o \in Packet  BY <1>1, <1>5, <1>6
<1>8. j = 1
  <2>1. CASE d = q  BY <1>4, <2>1
  <2>2. CASE Arrives(q, d, sent')
    <3>1. PICK e : d = Append(q, e)  BY <2>2 DEF Arrives
    <3>2. j \in DOMAIN d /\ d[j] = p  BY <1>1, <1>5, <3>1
    <3> QED  BY <1>4, <3>2 DEF Range
  <2>3. CASE IsTaken(q, d)
    <3> DEFINE x == RemoveAt(q, 1)
    <3>1. q # <<>> /\ d \in {x, Append(x, PutBack(q[1]))}  BY <2>3 DEF IsTaken
    <3>2. x \in Seq(Packet) /\ DOMAIN x = 1..Len(q) - 1 /\ \A l \in 1..Len(q) - 1 : x[l] = q[l + 1]
      BY <1>1, <3>1, TakenFirst
    <3> HIDE DEF x
    <3>3. \A l \in DOMAIN x : l \in DOMAIN d /\ d[l] = x[l]  BY <3>1, <3>2
    <3>4. ASSUME j # 1  PROVE FALSE
      <4>1. j - 1 \in 1..Len(q) - 1 /\ (j - 1) + 1 = j  BY <1>5, <1>7, <3>4
      <4>2. j - 1 \in DOMAIN d /\ d[j - 1] = p  BY <1>5, <3>2, <3>3, <4>1
      <4> QED  BY <1>4, <4>2 DEF Range
    <3> QED  BY <3>4
  <2> QED  BY <1>3, <2>1, <2>2, <2>3
<1>9. CASE k = 1  BY <1>5, <1>6, <1>7, <1>8, <1>9 DEF Packet
<1>10. CASE k # 1
  <2>1. j < k  BY <1>6, <1>7, <1>8, <1>10
  <2>2. p.n < o.n  BY <1>2, <1>4, <1>5, <1>6, <2>1 DEF Ordered
  <2> QED  BY <1>7, <2>2 DEF Packet
<1> QED  BY <1>9, <1>10

(***************************************************************************)
(* NoOvertaking: two kinds of threads take packets from one queue, each by *)
(* its own filter, and put some back; the others leave it in the order     *)
(* they were sent, whatever the kinds of packets and the sessions.         *)
(***************************************************************************)
THEOREM PacketsStayInOrder == Spec => NoOvertaking
<1>1. Init => OrderInv
  <2> SUFFICES ASSUME Init, NEW i \in Ids
               PROVE  /\ Ordered(session[i].recvQueue)
                      /\ \A k \in DOMAIN session[i].recvQueue : session[i].recvQueue[k].n <= sent
    BY DEF OrderInv
  <2>1. session[i].recvQueue = <<>>  BY DEF Init, Unborn
  <2> QED  BY <2>1 DEF Ordered
<1>2. IInv /\ OrderInv /\ [Next]_vars => OrderInv'  BY OrderStays
<1>3. IInv /\ OrderInv /\ [Next]_vars =>
        [\A i \in Ids :
           \/ session'[i] = Deleted
           \/ \A p \in Undelayed(session[i]) \ Undelayed(session'[i]), q \in Undelayed(session[i]) :
                 p.n <= q.n]_vars
  BY FirstLeaves
<1> QED  BY <1>1, <1>2, <1>3, Inductive, PTL DEF Spec, NoOvertaking
=============================================================================
