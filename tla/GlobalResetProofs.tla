-------------------------- MODULE GlobalResetProofs -------------------------
(***************************************************************************)
(* Proofs about GlobalReset, for any pairs, delays, hours and clock: the   *)
(* queue of warnings, the database and the lockouts.                       *)
(***************************************************************************)
EXTENDS GlobalReset, ResetQueueProofs

\* Nothing is written before the reset times are loaded.
BootInv == ~Serving => writes = <<>>

\* Every reset time that the process works with is one.
TimesInv == Serving => \A p \in Pairs : resetTime[p] > 0

\* The database as each write leaves it, and as it is.
StoredImages == {disk} \cup {writes[i] : i \in DOMAIN writes}

\* The bind b of p lasts no longer than it was granted for, at reset time t.
LocksInTime(p, b, t) ==
    /\ b.state = "normal" => DayOf(t) <= b.until
    /\ b.state = "extended" => DayOf(t + Period[p]) <= b.until
    /\ t = 0 => b.state = "none"

\* What a crash may leave in the database is in time, too, pair by pair.
LockInv ==
    ~moved =>
        /\ \A image \in StoredImages, p \in Pairs :
              /\ Realigned(image.reset[p]) = image.reset[p]
              /\ LocksInTime(p, image.bind[p], image.reset[p])
        /\ pc = "load" => \A p \in Pairs :
              disk.reset[p] = 0 \/ disk.reset[p] >= now \/ disk.bind[p] = NoBind

IInv ==
    /\ TypeOK /\ BootInv /\ TimesInv /\ Sorted(queue)
    /\ OnePending /\ DatabaseFollows /\ LockInv

-----------------------------------------------------------------------------
(***************************************************************************)
(* Lemmas about days and reset times.                                      *)
(***************************************************************************)
LEMMA DayIsPositive == Day \in Nat \ {0, 1} /\ Minute \in Nat \ {0}
<1>1. Delay[1] \in 1..Day - 1  BY GlobalResetAssumption DEF GlobalResetAssumption
<1> QED  BY <1>1, GlobalResetAssumption DEF GlobalResetAssumption

\* A time lies in its day.
LEMMA DayOfType ==
    ASSUME NEW t \in Nat
    PROVE  DayOf(t) \in Nat /\ DayOf(t) * Day <= t /\ t < DayOf(t) * Day + Day
<1>1. t = Day * (t \div Day) + (t % Day)  BY DayIsPositive, Z3
<1>2. t \div Day \in Nat /\ t % Day \in 0..Day - 1  BY DayIsPositive
<1> DEFINE d == t \div Day  r == t % Day
<1>3. DayOf(t) = d  BY DEF DayOf
<1> HIDE DEF d, r
<1>4. d * Day = Day * d  BY <1>2, DayIsPositive DEF d
<1> QED  BY <1>1, <1>2, <1>3, <1>4, DayIsPositive DEF d, r

\* The day of a time that is given as a day and an hour.
LEMMA DayOfSum ==
    ASSUME NEW d \in Nat, NEW r \in 0..Day - 1
    PROVE  d * Day + r \in Nat /\ DayOf(d * Day + r) = d
<1> DEFINE t == d * Day + r
<1>1. d * Day \in Nat  BY DayIsPositive
<1>2. t \in Nat  BY <1>1, DayIsPositive
<1> DEFINE c == DayOf(t)
<1>3. c \in Nat /\ c * Day <= t /\ t < c * Day + Day
  BY <1>2, DayOfType
<1> HIDE DEF c
<1>4. ASSUME c < d PROVE FALSE
  <2>1. (c + 1) * Day <= d * Day  BY <1>3, <1>4, DayIsPositive
  <2>2. (c + 1) * Day = c * Day + Day  BY <1>3, DayIsPositive
  <2>3. c * Day \in Nat  BY <1>3, DayIsPositive
  <2> QED  BY <1>1, <1>3, <2>1, <2>2, <2>3, DayIsPositive
<1>5. ASSUME d < c PROVE FALSE
  <2>1. (d + 1) * Day <= c * Day  BY <1>3, <1>5, DayIsPositive
  <2>2. (d + 1) * Day = d * Day + Day  BY DayIsPositive
  <2>3. c * Day \in Nat  BY <1>3, DayIsPositive
  <2> QED  BY <1>1, <1>3, <2>1, <2>2, <2>3, DayIsPositive
<1> QED  BY <1>2, <1>3, <1>4, <1>5 DEF c

\* A reset delay is a positive number of days.
LEMMA PeriodInDays ==
    ASSUME NEW p \in Pairs
    PROVE  \E k \in Nat \ {0} : Period[p] = k * Day
<1> DEFINE n == Period[p]  k == n \div Day
<1>1. n \in Nat /\ n >= Day /\ n % Day = 0
  BY GlobalResetAssumption DEF GlobalResetAssumption
<1> HIDE DEF n
<1>2. n = Day * k + (n % Day)  BY <1>1, DayIsPositive, Z3
<1>3. k \in Nat  BY <1>1, DayIsPositive
<1> HIDE DEF k
<1>4. n = k * Day  BY <1>1, <1>2, <1>3, DayIsPositive
<1>5. k # 0  BY <1>1, <1>4, DayIsPositive
<1> QED  BY <1>3, <1>4, <1>5 DEF n

\* A reset delay later is that many days later.
LEMMA DayOfLater ==
    ASSUME NEW t \in Nat, NEW k \in Nat
    PROVE  t + k * Day \in Nat /\ DayOf(t + k * Day) = DayOf(t) + k
<1> DEFINE d == DayOf(t)  r == t - d * Day
<1>1. d \in Nat /\ d * Day <= t /\ t < d * Day + Day  BY DayOfType
<1> HIDE DEF d
<1>2. d * Day \in Nat /\ k * Day \in Nat  BY <1>1, DayIsPositive
<1>3. r \in 0..Day - 1  BY <1>1, <1>2, DayIsPositive
<1>4. (d + k) * Day = d * Day + k * Day  BY <1>1, DayIsPositive
<1>5. t + k * Day = (d + k) * Day + r  BY <1>2, <1>4
<1> HIDE DEF r
<1>6. d + k \in Nat  BY <1>1
<1>7. DayOf((d + k) * Day + r) = d + k /\ (d + k) * Day + r \in Nat
  BY <1>3, <1>6, DayOfSum
<1> QED  BY <1>5, <1>7 DEF d

\* The hour and a minute more fit in a day.
LEMMA HourInDay == ASSUME hour \in Hours PROVE hour \in 0..Day - 1 /\ hour + Minute < Day
  BY DayIsPositive, GlobalResetAssumption DEF GlobalResetAssumption

\* The next reset is at the hour, the reset delay after the day of t.
LEMMA NextTime ==
    ASSUME hour \in Hours, NEW p \in Pairs, NEW t \in Nat
    PROVE  /\ GetSubsequentResetTime(p, t) \in Nat
           /\ GetSubsequentResetTime(p, t) > 0
           /\ Realigned(GetSubsequentResetTime(p, t)) = GetSubsequentResetTime(p, t)
           /\ DayOf(GetSubsequentResetTime(p, t)) = DayOf(t + Minute + Period[p])
<1> DEFINE d == DayOf(t + Minute)  next == GetSubsequentResetTime(p, t)
<1>1. t + Minute \in Nat  BY DayIsPositive
<1>2. d \in Nat  BY <1>1, DayOfType
<1>3. PICK k \in Nat \ {0} : Period[p] = k * Day  BY PeriodInDays
<1>4. hour \in 0..Day - 1  BY HourInDay
<1>5. next = d * Day + k * Day + hour  BY <1>3 DEF GetSubsequentResetTime
<1>6. DayOf(t + Minute + Period[p]) = d + k  BY <1>1, <1>3, DayOfLater
<1> HIDE DEF d, next
<1>7. d * Day + k * Day = (d + k) * Day  BY <1>2, DayIsPositive
<1>8. next = (d + k) * Day + hour  BY <1>5, <1>7
<1>9. d + k \in Nat \ {0}  BY <1>2
<1>10. next \in Nat /\ DayOf(next) = d + k  BY <1>4, <1>8, <1>9, DayOfSum
<1>11. (d + k) * Day \in Nat \ {0}  BY <1>9, DayIsPositive
<1>12. next > 0  BY <1>4, <1>8, <1>11
<1>13. Realigned(next) = next  BY <1>8, <1>10, <1>12 DEF Realigned
<1> QED  BY <1>6, <1>10, <1>12, <1>13 DEF next

\* A minute after a reset time at the hour it is still the same day.
LEMMA AlignedDay ==
    ASSUME hour \in Hours, NEW t \in Nat \ {0}, Realigned(t) = t
    PROVE  DayOf(t + Minute) = DayOf(t)
<1> DEFINE d == DayOf(t)  r == hour + Minute
<1>1. d \in Nat  BY DayOfType
<1>2. r \in 0..Day - 1 /\ hour \in Nat  BY HourInDay, DayIsPositive
<1>3. t = d * Day + hour  BY DEF Realigned
<1> HIDE DEF d
<1>4. d * Day \in Nat  BY <1>1, DayIsPositive
<1>5. t + Minute = d * Day + r  BY <1>2, <1>3, <1>4, DayIsPositive
<1> HIDE DEF r
<1>6. DayOf(d * Day + r) = d  BY <1>1, <1>2, DayOfSum
<1> QED  BY <1>5, <1>6 DEF d

\* LoadResetTimes settles on a time at the hour, the stored one if it is.
LEMMA LoadedTimeEffect ==
    ASSUME TypeOK, NEW p \in Pairs
    PROVE  /\ LoadedTime(p) \in Nat
           /\ LoadedTime(p) > 0
           /\ Realigned(LoadedTime(p)) = LoadedTime(p)
           /\ /\ disk.reset[p] # 0 /\ Realigned(disk.reset[p]) = disk.reset[p]
              /\ disk.reset[p] >= now
              => LoadedTime(p) = disk.reset[p]
<1> DEFINE r == disk.reset[p]
           old == Realigned(r)
           t == IF old = 0 THEN Today + Period[p] + hour ELSE old
           day == DayOf(t) * Day
           n == (Today - day) \div Period[p] + 1
<1>1. r \in Nat /\ now \in Nat /\ hour \in Hours  BY DEF TypeOK, Images
<1>2. hour \in 0..Day - 1  BY <1>1, HourInDay
<1>3. PICK k \in Nat \ {0} : Period[p] = k * Day  BY PeriodInDays
<1>4. Period[p] \in Nat \ {0} /\ Period[p] >= Day
  BY GlobalResetAssumption DEF GlobalResetAssumption
<1>5. LoadedTime(p) = IF t < now THEN day + n * Period[p] + hour ELSE t
  BY DEF LoadedTime
<1>6. DayOf(now) \in Nat /\ Today = DayOf(now) * Day /\ Today \in Nat
      /\ Today <= now /\ now < Today + Day
  <2>1. DayOf(now) \in Nat /\ DayOf(now) * Day <= now /\ now < DayOf(now) * Day + Day
    BY <1>1, DayOfType
  <2> QED  BY <2>1, DayIsPositive DEF Today
<1>7. old \in Nat /\ Realigned(old) = old /\ (old # 0 => r # 0)
  <2> DEFINE d == DayOf(r)
  <2>1. d \in Nat  BY <1>1, DayOfType
  <2>2. d * Day + hour \in Nat /\ DayOf(d * Day + hour) = d
    BY <1>2, <2>1, DayOfSum
  <2>3. old = IF r = 0 THEN 0 ELSE d * Day + hour  BY DEF Realigned
  <2> HIDE DEF d, r
  <2> QED  BY <2>2, <2>3 DEF Realigned
<1>8. t \in Nat \ {0} /\ Realigned(t) = t /\ (old = 0 => ~(t < now))
  <2>1. CASE old = 0
    <3> DEFINE d == DayOf(now)
    <3>1. t = d * Day + k * Day + hour  BY <1>3, <1>6, <2>1
    <3>2. d \in Nat  BY <1>6
    <3> HIDE DEF d, t
    <3>3. t = (d + k) * Day + hour  BY <3>1, <3>2, DayIsPositive
    <3>4. d + k \in Nat \ {0}  BY <3>2
    <3>5. t \in Nat /\ DayOf(t) = d + k  BY <1>2, <3>3, <3>4, DayOfSum
    <3>6. (d + k) * Day \in Nat \ {0}  BY <3>4, DayIsPositive
    <3>7. t # 0  BY <1>2, <3>3, <3>6
    <3>8. Realigned(t) = t  BY <3>3, <3>5, <3>7 DEF Realigned
    <3>9. t = Today + Period[p] + hour  BY <2>1 DEF t
    <3>10. ~(t < now)
      <4>1. hour \in Nat /\ Day \in Nat  BY <1>2, DayIsPositive
      <4> QED  BY <1>1, <1>4, <1>6, <3>9, <4>1
    <3> QED  BY <3>5, <3>7, <3>8, <3>10
  <2>2. CASE old # 0
    <3>1. t = old  BY <2>2
    <3> QED  BY <1>7, <2>2, <3>1
  <2> QED  BY <2>1, <2>2
<1> HIDE DEF old, t
<1>9. CASE ~(t < now)
  <2>1. LoadedTime(p) = t  BY <1>5, <1>9
  <2>2. /\ r # 0 /\ old = r => t = r  BY <1>1 DEF t
  <2> QED  BY <1>8, <2>1, <2>2 DEF old
<1>10. CASE t < now
  <2> DEFINE c == DayOf(t)  l == LoadedTime(p)  m == c + n * k
  <2>1. c \in Nat /\ day = c * Day /\ day \in Nat /\ day <= t
    BY <1>8, DayOfType, DayIsPositive
  <2>2. day <= Today
    <3> DEFINE e == DayOf(now)
    <3>1. e \in Nat /\ Today = e * Day /\ Today \in Nat  BY <1>6
    <3> HIDE DEF e, c
    <3>2. c <= e
      <4> SUFFICES ASSUME e + 1 <= c PROVE FALSE
        BY <2>1, <3>1
      <4>1. (e + 1) * Day <= c * Day  BY <2>1, <3>1, DayIsPositive
      <4>2. (e + 1) * Day = e * Day + Day  BY <3>1, DayIsPositive
      <4> HIDE DEF day
      <4>3. now < e * Day + Day /\ e * Day \in Nat  BY <1>6, <3>1
      <4>4. c * Day \in Nat /\ c * Day <= t  BY <2>1
      <4>5. now \in Nat /\ t \in Nat /\ t < now  BY <1>1, <1>8, <1>10
      <4>6. e * Day + Day <= c * Day  BY <4>1, <4>2
      <4> QED  BY <4>3, <4>4, <4>5, <4>6, DayIsPositive
    <3> QED  BY <2>1, <3>1, <3>2, DayIsPositive
  <2>3. n \in Nat \ {0}
    <3> DEFINE x == Today - day
    <3>1. x \in Nat  BY <1>6, <2>1, <2>2
    <3>2. n = x \div Period[p] + 1  OBVIOUS
    <3> HIDE DEF x, n
    <3>3. x \div Period[p] \in Nat  BY <1>4, <3>1
    <3> QED  BY <3>2, <3>3
  <2>4. l = day + n * Period[p] + hour  BY <1>5, <1>10
  <2> HIDE DEF n, day, c, l
  <2>5. n * Period[p] = (n * k) * Day  BY <1>3, <2>3, DayIsPositive
  <2>6. n * k \in Nat \ {0}  BY <2>3
  <2>7. c * Day + (n * k) * Day = m * Day  BY <2>1, <2>6, DayIsPositive
  <2>8. l = m * Day + hour
    <3>1. hour \in Nat /\ m * Day \in Nat  BY <1>2, <2>1, <2>6, DayIsPositive
    <3> QED  BY <2>1, <2>4, <2>5, <2>7, <3>1
  <2>9. m \in Nat \ {0}  BY <2>1, <2>6
  <2> HIDE DEF m
  <2>10. l \in Nat /\ DayOf(l) = m  BY <1>2, <2>8, <2>9, DayOfSum
  <2>11. m * Day \in Nat \ {0}  BY <2>9, DayIsPositive
  <2>12. l # 0  BY <1>2, <2>8, <2>11
  <2>13. Realigned(l) = l  BY <2>8, <2>10, <2>12 DEF Realigned
  <2>14. ~(r # 0 /\ Realigned(r) = r /\ r >= now)
    <3>1. old = r /\ r # 0 => t = r  BY <1>1 DEF t
    <3> QED  BY <1>1, <1>8, <1>10, <3>1 DEF old
  <2> QED  BY <2>10, <2>12, <2>13, <2>14 DEF l
<1> QED  BY <1>9, <1>10

\* The first event of a pair is one of the four types.
LEMMA FirstTypeEffect ==
    ASSUME NEW t
    PROVE  FirstType(t) \in 1..4
<1> DEFINE E == {4} \cup {type \in 1..3 : t - Delay[type] > now}
<1>1. E \in SUBSET Nat /\ E # {} /\ E \subseteq 1..4  OBVIOUS
<1>2. \E m \in E : \A l \in E : m <= l  BY <1>1, LeastNatural
<1>3. Min(E) \in E  BY <1>2 DEF Min
<1>4. FirstType(t) = Min(E)  BY DEF FirstType
<1> HIDE DEF E
<1> QED  BY <1>1, <1>3, <1>4

-----------------------------------------------------------------------------
(***************************************************************************)
(* Lemmas about binds, events and the images of the database.              *)
(***************************************************************************)
LEMMA ExpireEffect ==
    ASSUME NEW b \in Binds
    PROVE  /\ Expire(b) \in Binds
           /\ b.state = "extended" => Expire(b) = [b EXCEPT !.state = "normal"]
           /\ b.state # "extended" => Expire(b).state \in {"none", "expired"}
           /\ b.state = "none" => Expire(b) = NoBind
<1>1. CASE b.state = "extended"
  <2>1. Expire(b) = [b EXCEPT !.state = "normal"]  BY <1>1, Zenon DEF Expire
  <2> QED  BY <1>1, <2>1 DEF Binds
<1>2. CASE b.state = "normal"
  <2>1. Expire(b) = [b EXCEPT !.state = "expired"]  BY <1>2, Zenon DEF Expire
  <2> QED  BY <1>2, <2>1 DEF Binds
<1>3. CASE b.state \notin {"extended", "normal"}
  <2>1. Expire(b) = NoBind  BY <1>3, Zenon DEF Expire
  <2> QED  BY <1>3, <2>1 DEF Binds, NoBind
<1> QED  BY <1>1, <1>2, <1>3

\* The delays of the warnings, the shortest last.
LEMMA DelayType ==
    ASSUME NEW type \in 1..4
    PROVE  /\ Delay[type] \in Nat /\ Minute <= Delay[type]
           /\ type < 4 => type + 1 \in 1..4 /\ Delay[type + 1] < Delay[type]
<1>1. \A t \in 1..4 : Delay[t] \in Nat
  BY GlobalResetAssumption, DayIsPositive DEF GlobalResetAssumption
<1>2. \A t \in 1..3 : Delay[t + 1] < Delay[t]
  BY GlobalResetAssumption DEF GlobalResetAssumption
<1>3. Delay[2] < Delay[1] /\ Delay[3] < Delay[2] /\ Delay[4] < Delay[3]
  BY <1>2
<1>4. Delay[4] = Minute  BY GlobalResetAssumption DEF GlobalResetAssumption
<1>5. type = 1 \/ type = 2 \/ type = 3 \/ type = 4  OBVIOUS
<1>6. Delay[1] \in Nat /\ Delay[2] \in Nat /\ Delay[3] \in Nat /\ Delay[4] \in Nat
  BY <1>1
<1>7. Minute <= Delay[type]  BY <1>3, <1>4, <1>5, <1>6
<1> QED  BY <1>1, <1>2, <1>7

\* The event that is scheduled for a pair.
LEMMA EventType ==
    ASSUME NEW p \in Pairs, NEW type \in 1..4, NEW t \in Nat
    PROVE  InstResetEvent(p, type, t) \in Events
  BY DelayType DEF InstResetEvent, Events

\* Times of events can be compared.
LEMMA EventTimes == \A x \in Events : x.time \in Int
  BY DEF Events

\* The latest of the images of the database.
LEMMA LatestType ==
    ASSUME TypeOK
    PROVE  Latest \in Images /\ Latest \in StoredImages
<1>1. CASE writes = <<>>  BY <1>1 DEF TypeOK, Latest, StoredImages
<1>2. CASE writes # <<>>
  <2>1. Len(writes) \in DOMAIN writes  BY <1>2 DEF TypeOK
  <2> QED  BY <1>2, <2>1 DEF TypeOK, Latest, Last, StoredImages
<1> QED  BY <1>1, <1>2

\* What is true of an image of which the bind of p changes.
LEMMA BindUpdate ==
    ASSUME NEW image \in Images, NEW p \in Pairs, NEW b \in Binds
    PROVE  /\ [image EXCEPT !.bind[p] = b] \in Images
           /\ [image EXCEPT !.bind[p] = b].reset = image.reset
           /\ [image EXCEPT !.bind[p] = b].bind = [image.bind EXCEPT ![p] = b]
  BY DEF Images

\* Store queues one more image.
LEMMA StoreEffect ==
    ASSUME TypeOK, NEW p \in Pairs, NEW b \in Binds, Store(p, b), disk' = disk
    PROVE  /\ writes' \in Seq(Images)
           /\ Latest'.reset = Latest.reset
           /\ Latest'.bind = [Latest.bind EXCEPT ![p] = b]
           /\ StoredImages' \subseteq StoredImages \cup {Latest'}
<1> DEFINE new == [Latest EXCEPT !.bind[p] = b]
<1>1. /\ new \in Images /\ new.reset = Latest.reset
      /\ new.bind = [Latest.bind EXCEPT ![p] = b]
  BY LatestType, BindUpdate
<1>2. writes' = Append(writes, new)  BY DEF Store
<1> HIDE DEF new
<1>3. writes \in Seq(Images)  BY DEF TypeOK
<1>4. /\ writes' \in Seq(Images) /\ Len(writes') = Len(writes) + 1
      /\ \A i \in 1..Len(writes) : writes'[i] = writes[i]
      /\ writes'[Len(writes) + 1] = new
  BY <1>1, <1>2, <1>3
<1>5. writes' # <<>> /\ Latest' = new
  BY <1>3, <1>4 DEF Latest, Last
<1>6. \A i \in DOMAIN writes' : i \in DOMAIN writes \/ i = Len(writes) + 1
  BY <1>3, <1>4
<1>7. StoredImages' \subseteq StoredImages \cup {new}
  BY <1>3, <1>4, <1>6 DEF StoredImages
<1> QED  BY <1>1, <1>4, <1>5, <1>7

\* ResetAll queues two more images: the bind expires, then the time moves.
LEMMA ResetAllEffect ==
    ASSUME TypeOK, NEW p \in Pairs, NEW from \in Nat, NEW b \in Binds,
           NEW q \in Seq(Events), ResetAll(p, from, b, q), disk' = disk
    PROVE  LET next == GetSubsequentResetTime(p, from)
           IN  /\ next \in Nat
               /\ resetTime' = [resetTime EXCEPT ![p] = next]
               /\ queue' = Schedule(q, InstResetEvent(p, 1, next))
               /\ InstResetEvent(p, 1, next) \in Events
               /\ queue' \in Seq(Events)
               /\ writes' \in Seq(Images)
               /\ Latest'.reset = [Latest.reset EXCEPT ![p] = next]
               /\ Latest'.bind = [Latest.bind EXCEPT ![p] = b]
               /\ \E expired \in Images :
                    /\ expired.reset = Latest.reset
                    /\ expired.bind = [Latest.bind EXCEPT ![p] = Expire(Latest.bind[p])]
                    /\ StoredImages' \subseteq StoredImages \cup {expired, Latest'}
<1> DEFINE next == GetSubsequentResetTime(p, from)
           expired == [Latest EXCEPT !.bind[p] = Expire(Latest.bind[p])]
           stored == [expired EXCEPT !.reset[p] = next, !.bind[p] = b]
<1>1. next \in Nat  BY NextTime DEF TypeOK
<1>2. Latest.bind[p] \in Binds  BY LatestType DEF Images
<1>3. Expire(Latest.bind[p]) \in Binds  BY <1>2, ExpireEffect
<1>4. /\ expired \in Images /\ expired.reset = Latest.reset
      /\ expired.bind = [Latest.bind EXCEPT ![p] = Expire(Latest.bind[p])]
  BY <1>3, LatestType, BindUpdate
<1>5. InstResetEvent(p, 1, next) \in Events  BY <1>1, EventType
<1>6. /\ resetTime' = [resetTime EXCEPT ![p] = next]
      /\ queue' = Schedule(q, InstResetEvent(p, 1, next))
      /\ writes' = writes \o <<expired, stored>>
  <2>1. [Latest EXCEPT !.bind[p] = Expire(@)] = expired
    BY LatestType DEF Images
  <2> QED  BY <2>1 DEF ResetAll
<1> HIDE DEF next, expired
<1>7. /\ stored \in Images /\ stored.reset = [expired.reset EXCEPT ![p] = next]
      /\ stored.bind = [expired.bind EXCEPT ![p] = b]
  BY <1>1, <1>4 DEF Images
<1> HIDE DEF stored
<1>8. queue' \in Seq(Events)  BY <1>5, <1>6, ScheduleEffect
<1>9. writes \in Seq(Images)  BY DEF TypeOK
<1>10. /\ writes' \in Seq(Images) /\ Len(writes') = Len(writes) + 2
       /\ \A i \in 1..Len(writes) : writes'[i] = writes[i]
       /\ writes'[Len(writes) + 1] = expired
       /\ writes'[Len(writes) + 2] = stored
  BY <1>4, <1>6, <1>7, <1>9
<1>11. writes' # <<>> /\ Latest' = stored
  BY <1>9, <1>10 DEF Latest, Last
<1>12. \A i \in DOMAIN writes' :
         i \in DOMAIN writes \/ i = Len(writes) + 1 \/ i = Len(writes) + 2
  BY <1>9, <1>10
<1>13. StoredImages' \subseteq StoredImages \cup {expired, stored}
  BY <1>9, <1>10, <1>12 DEF StoredImages
<1>14. /\ Latest'.reset = [Latest.reset EXCEPT ![p] = next]
       /\ Latest'.bind = [Latest.bind EXCEPT ![p] = b]
  <2>1. Latest.bind \in [Pairs -> Binds]  BY LatestType DEF Images
  <2> QED  BY <1>3, <1>4, <1>7, <1>11, <2>1
<1>15. StoredImages' \subseteq StoredImages \cup {expired, Latest'}  BY <1>11, <1>13
<1> QED  BY <1>1, <1>4, <1>5, <1>6, <1>8, <1>10, <1>14, <1>15 DEF next

-----------------------------------------------------------------------------
(***************************************************************************)
(* Lemmas about the events of one pair.                                    *)
(***************************************************************************)

\* Where an event goes in the queue.
LEMMA ScheduleEvents ==
    \A q \in Seq(Events), e \in Events :
        /\ Schedule(q, e) \in Seq(Events)
        /\ Len(Schedule(q, e)) = Len(q) + 1
        /\ \E k \in 1..Len(q) + 1 : \A i \in 1..Len(q) + 1 :
             Schedule(q, e)[i] = IF i < k THEN q[i] ELSE IF i = k THEN e ELSE q[i - 1]
        /\ Sorted(q) => Sorted(Schedule(q, e))
<1> SUFFICES ASSUME NEW q \in Seq(Events), NEW e \in Events
             PROVE  /\ Schedule(q, e) \in Seq(Events)
                    /\ Len(Schedule(q, e)) = Len(q) + 1
                    /\ \E k \in 1..Len(q) + 1 : \A i \in 1..Len(q) + 1 :
                         Schedule(q, e)[i] =
                           IF i < k THEN q[i] ELSE IF i = k THEN e ELSE q[i - 1]
                    /\ Sorted(q) => Sorted(Schedule(q, e))
  OBVIOUS
<1>1. Sorted(q) => Sorted(Schedule(q, e))  BY ScheduleSorted, EventTimes
<1> QED  BY <1>1, ScheduleEffect

\* What an erase leaves in the queue.
LEMMA RemoveEvents ==
    \A q \in Seq(Events) : \A k \in 1..Len(q) :
        /\ RemoveAt(q, k) \in Seq(Events)
        /\ Len(RemoveAt(q, k)) = Len(q) - 1
        /\ \A i \in 1..Len(q) - 1 :
             RemoveAt(q, k)[i] = IF i < k THEN q[i] ELSE q[i + 1]
        /\ Sorted(q) => Sorted(RemoveAt(q, k))
<1> SUFFICES ASSUME NEW q \in Seq(Events), NEW k \in 1..Len(q)
             PROVE  /\ RemoveAt(q, k) \in Seq(Events)
                    /\ Len(RemoveAt(q, k)) = Len(q) - 1
                    /\ \A i \in 1..Len(q) - 1 :
                         RemoveAt(q, k)[i] = IF i < k THEN q[i] ELSE q[i + 1]
                    /\ Sorted(q) => Sorted(RemoveAt(q, k))
  OBVIOUS
<1>1. Sorted(q) => Sorted(RemoveAt(q, k))  BY RemoveAtSorted, EventTimes
<1> QED  BY <1>1, RemoveAtEffect

\* HasOneEvent of the queue q and the reset time t of p.
OneEventIn(q, p, t) ==
    \E i \in DOMAIN q :
        /\ q[i] = InstResetEvent(p, q[i].type, t)
        /\ \A j \in DOMAIN q : q[j].pair = p => j = i

\* An insertion of an event of another pair leaves the events of p alone.
LEMMA ScheduleOther ==
    ASSUME NEW q \in Seq(Events), NEW e \in Events, NEW p \in Pairs, NEW t \in Nat,
           e.pair # p, OneEventIn(q, p, t)
    PROVE  OneEventIn(Schedule(q, e), p, t)
<1> DEFINE r == Schedule(q, e)
<1>1. /\ r \in Seq(Events) /\ Len(r) = Len(q) + 1
      /\ \E k \in 1..Len(q) + 1 : \A i \in 1..Len(q) + 1 :
           r[i] = IF i < k THEN q[i] ELSE IF i = k THEN e ELSE q[i - 1]
  BY ScheduleEvents
<1> HIDE DEF r
<1>2. PICK k \in 1..Len(q) + 1 : \A i \in 1..Len(q) + 1 :
           r[i] = IF i < k THEN q[i] ELSE IF i = k THEN e ELSE q[i - 1]
  BY <1>1
<1>3. PICK i \in 1..Len(q) :
        /\ q[i] = InstResetEvent(p, q[i].type, t)
        /\ \A j \in 1..Len(q) : q[j].pair = p => j = i
  BY DEF OneEventIn
<1> DEFINE m == IF i < k THEN i ELSE i + 1
<1>4. m \in DOMAIN r /\ r[m] = q[i]  BY <1>1, <1>2
<1>5. ASSUME NEW j \in DOMAIN r, r[j].pair = p PROVE j = m
  <2>1. j \in 1..Len(q) + 1 /\ j # k  BY <1>1, <1>2, <1>5
  <2>2. CASE j < k
    <3>1. q[j].pair = p /\ j \in 1..Len(q)  BY <1>2, <1>5, <2>1, <2>2
    <3>2. j = i  BY <1>3, <3>1
    <3> QED  BY <2>2, <3>2
  <2>3. CASE j > k
    <3>1. q[j - 1].pair = p /\ j - 1 \in 1..Len(q)  BY <1>2, <1>5, <2>1, <2>3
    <3>2. j - 1 = i  BY <1>3, <3>1
    <3> QED  BY <2>1, <2>3, <3>2
  <2> QED  BY <2>1, <2>2, <2>3
<1> HIDE DEF m
<1> QED  BY <1>3, <1>4, <1>5 DEF OneEventIn, r

\* So does an erasure of an event of another pair.
LEMMA RemoveOther ==
    ASSUME NEW q \in Seq(Events), NEW k \in 1..Len(q), NEW p \in Pairs, NEW t \in Nat,
           q[k].pair # p, OneEventIn(q, p, t)
    PROVE  OneEventIn(RemoveAt(q, k), p, t)
<1> DEFINE r == RemoveAt(q, k)
<1>1. /\ DOMAIN r = 1..Len(q) - 1
      /\ \A i \in 1..Len(q) - 1 : r[i] = IF i < k THEN q[i] ELSE q[i + 1]
  BY RemoveEvents
<1> HIDE DEF r
<1>2. PICK i \in 1..Len(q) :
        /\ q[i] = InstResetEvent(p, q[i].type, t)
        /\ \A j \in 1..Len(q) : q[j].pair = p => j = i
  BY DEF OneEventIn
<1>3. q[i].pair = p  BY <1>2 DEF InstResetEvent
<1>4. i # k  BY <1>3
<1> DEFINE m == IF i < k THEN i ELSE i - 1
<1>5. m \in DOMAIN r /\ r[m] = q[i]  BY <1>1, <1>4
<1>6. ASSUME NEW j \in DOMAIN r, r[j].pair = p PROVE j = m
  <2>1. CASE j < k
    <3>1. q[j].pair = p /\ j \in 1..Len(q)  BY <1>1, <1>6, <2>1
    <3> QED  BY <1>2, <2>1, <3>1
  <2>2. CASE ~(j < k)
    <3>1. q[j + 1].pair = p /\ j + 1 \in 1..Len(q)  BY <1>1, <1>6, <2>2
    <3>2. j + 1 = i  BY <1>2, <3>1
    <3>3. j \in Nat /\ k \in Nat /\ i \in Nat  BY <1>1
    <3>4. ~(i < k) /\ j = i - 1  BY <2>2, <3>2, <3>3
    <3> QED  BY <3>4
  <2> QED  BY <2>1, <2>2
<1> HIDE DEF m
<1> QED  BY <1>2, <1>5, <1>6 DEF OneEventIn, r

\* A pair without an event has one when one is scheduled.
LEMMA ScheduleNew ==
    ASSUME NEW q \in Seq(Events), NEW e \in Events, \A i \in DOMAIN q : q[i].pair # e.pair
    PROVE  \E k \in DOMAIN Schedule(q, e) :
             /\ Schedule(q, e)[k] = e
             /\ \A j \in DOMAIN Schedule(q, e) : Schedule(q, e)[j].pair = e.pair => j = k
<1> DEFINE r == Schedule(q, e)
<1>1. /\ r \in Seq(Events) /\ Len(r) = Len(q) + 1
      /\ \E k \in 1..Len(q) + 1 : \A i \in 1..Len(q) + 1 :
           r[i] = IF i < k THEN q[i] ELSE IF i = k THEN e ELSE q[i - 1]
  BY ScheduleEvents
<1> HIDE DEF r
<1>2. PICK k \in 1..Len(q) + 1 : \A i \in 1..Len(q) + 1 :
           r[i] = IF i < k THEN q[i] ELSE IF i = k THEN e ELSE q[i - 1]
  BY <1>1
<1>3. k \in DOMAIN r /\ r[k] = e  BY <1>1, <1>2
<1>4. ASSUME NEW j \in DOMAIN r, r[j].pair = e.pair PROVE j = k
  <2>1. j < k => r[j] = q[j] /\ j \in DOMAIN q  BY <1>1, <1>2
  <2>2. j > k => r[j] = q[j - 1] /\ j - 1 \in DOMAIN q  BY <1>1, <1>2
  <2>3. ~(j < k) /\ ~(j > k)  BY <1>4, <2>1, <2>2
  <2>4. j \in Int /\ k \in Int  BY <1>1
  <2> QED  BY <2>3, <2>4
<1> QED  BY <1>3, <1>4 DEF r

\* A pair without an event has one after it is scheduled.
LEMMA ScheduleOwn ==
    ASSUME NEW q \in Seq(Events), NEW p \in Pairs, NEW type \in 1..4, NEW t \in Nat,
           \A i \in DOMAIN q : q[i].pair # p
    PROVE  OneEventIn(Schedule(q, InstResetEvent(p, type, t)), p, t)
<1> DEFINE e == InstResetEvent(p, type, t)
<1>1. e \in Events  BY EventType
<1>2. e.type = type /\ e.pair = p  BY DEF InstResetEvent
<1> HIDE DEF e
<1>3. PICK k \in DOMAIN Schedule(q, e) :
        /\ Schedule(q, e)[k] = e
        /\ \A j \in DOMAIN Schedule(q, e) : Schedule(q, e)[j].pair = p => j = k
  BY <1>1, <1>2, ScheduleNew
<1>4. e = InstResetEvent(p, e.type, t)  BY <1>2 DEF e
<1> QED  BY <1>3, <1>4 DEF OneEventIn, e

\* Without its event, a pair has none.
LEMMA RemoveOwn ==
    ASSUME NEW q \in Seq(Events), NEW k \in 1..Len(q), NEW p \in Pairs, NEW t \in Nat,
           q[k].pair = p, OneEventIn(q, p, t)
    PROVE  \A i \in DOMAIN RemoveAt(q, k) : RemoveAt(q, k)[i].pair # p
<1> DEFINE r == RemoveAt(q, k)
<1>1. /\ DOMAIN r = 1..Len(q) - 1
      /\ \A i \in 1..Len(q) - 1 : r[i] = IF i < k THEN q[i] ELSE q[i + 1]
  BY RemoveEvents
<1> HIDE DEF r
<1>2. \A j \in 1..Len(q) : q[j].pair = p => j = k
  BY DEF OneEventIn
<1>3. ASSUME NEW i \in DOMAIN r, r[i].pair = p PROVE FALSE
  <2>1. i < k => q[i].pair = p /\ i \in 1..Len(q)  BY <1>1, <1>3
  <2>2. ~(i < k) => q[i + 1].pair = p /\ i + 1 \in 1..Len(q)  BY <1>1, <1>3
  <2> QED  BY <1>1, <1>2, <2>1, <2>2
<1> QED  BY <1>3 DEF r

\* The first event of a pair is replaced by the next of its chain.
LEMMA NextOfChain ==
    ASSUME NEW q \in Seq(Events), q # <<>>, Sorted(q), NEW p \in Pairs,
           NEW type \in 1..4, NEW t \in Nat, q[1].pair = p, OneEventIn(q, p, t),
           q[1].time < InstResetEvent(p, type, t).time
    PROVE  OneEventIn(RemoveAt(Schedule(q, InstResetEvent(p, type, t)), 1), p, t)
<1> DEFINE e == InstResetEvent(p, type, t)
           r == Schedule(q, e)
           s == RemoveAt(r, 1)
<1>1. e \in Events /\ e.time \in Int /\ q[1].time < e.time
  BY EventType, EventTimes
<1>2. e.type = type  BY DEF InstResetEvent
<1> HIDE DEF e
<1>3. /\ r \in Seq(Events) /\ Len(r) = Len(q) + 1
      /\ \E k \in 1..Len(q) + 1 : \A i \in 1..Len(q) + 1 :
           r[i] = IF i < k THEN q[i] ELSE IF i = k THEN e ELSE q[i - 1]
  BY <1>1, ScheduleEvents
<1>4. Sorted(r)  BY <1>1, ScheduleEvents
<1> HIDE DEF r
<1>5. PICK k \in 1..Len(q) + 1 : \A i \in 1..Len(q) + 1 :
           r[i] = IF i < k THEN q[i] ELSE IF i = k THEN e ELSE q[i - 1]
  BY <1>3
<1>6. Len(q) \in Nat \ {0} /\ q[1] \in Events /\ q[1].time \in Int
  BY EventTimes
<1>7. k # 1
  <2> SUFFICES ASSUME k = 1 PROVE FALSE
    OBVIOUS
  <2>1. r[1] = e /\ r[2] = q[1]  BY <1>5, <1>6
  <2>2. 1 \in DOMAIN r /\ 2 \in DOMAIN r  BY <1>3, <1>6
  <2>3. e.time <= q[1].time  BY <1>4, <2>1, <2>2 DEF Sorted
  <2> QED  BY <1>1, <1>6, <2>3
<1>8. \A j \in 1..Len(q) : q[j].pair = p => j = 1
  BY <1>6 DEF OneEventIn
<1>9. /\ DOMAIN s = 1..Len(q)
      /\ \A i \in 1..Len(q) : s[i] = r[i + 1]
  <2>1. 1 \in 1..Len(r) /\ Len(r) - 1 = Len(q)  BY <1>3, <1>6
  <2>2. s \in Seq(Events) /\ Len(s) = Len(r) - 1
        /\ \A i \in 1..Len(r) - 1 : s[i] = IF i < 1 THEN r[i] ELSE r[i + 1]
    BY <1>3, <2>1, RemoveEvents
  <2> HIDE DEF s
  <2> QED  BY <1>6, <2>1, <2>2
<1> HIDE DEF s
<1>10. k - 1 \in DOMAIN s /\ s[k - 1] = e  BY <1>5, <1>7, <1>9
<1>11. ASSUME NEW j \in DOMAIN s, s[j].pair = p PROVE j = k - 1
  <2>1. j \in 1..Len(q) /\ r[j + 1].pair = p /\ j + 1 \in 1..Len(q) + 1
    BY <1>6, <1>9, <1>11
  <2>2. CASE j + 1 < k
    <3>1. q[j + 1].pair = p /\ j + 1 \in 1..Len(q)  BY <1>5, <2>1, <2>2
    <3> QED  BY <1>8, <2>1, <3>1
  <2>3. CASE j + 1 > k
    <3>1. q[j].pair = p  BY <1>5, <2>1, <2>3
    <3>2. j = 1  BY <1>8, <2>1, <3>1
    <3> QED  BY <1>7, <2>3, <3>2
  <2> QED  BY <2>1, <2>2, <2>3
<1>12. s[k - 1] = InstResetEvent(p, s[k - 1].type, t)  BY <1>2, <1>10 DEF e
<1> QED  BY <1>10, <1>11, <1>12 DEF OneEventIn, s, r, e

\* Cancelling an event leaves the pair with its own or, if it took that, with none.
LEMMA CancelPairs ==
    ASSUME NEW q \in Seq(Events), NEW time, NEW inst
    PROVE  /\ Cancel(q, time, inst) \in Seq(Events)
           /\ Sorted(q) => Sorted(Cancel(q, time, inst))
           /\ \A p \in Pairs, t \in Nat : OneEventIn(q, p, t) =>
                \/ OneEventIn(Cancel(q, time, inst), p, t)
                \/ \A i \in DOMAIN Cancel(q, time, inst) : Cancel(q, time, inst)[i].pair # p
           /\ \A p \in Pairs : (\A i \in DOMAIN q : q[i].pair # p) =>
                \A i \in DOMAIN Cancel(q, time, inst) : Cancel(q, time, inst)[i].pair # p
<1>1. CASE Cancel(q, time, inst) = q  BY <1>1
<1>2. ASSUME NEW k \in 1..Len(q), Cancel(q, time, inst) = RemoveAt(q, k)
      PROVE  /\ Cancel(q, time, inst) \in Seq(Events)
             /\ Sorted(q) => Sorted(Cancel(q, time, inst))
             /\ \A p \in Pairs, t \in Nat : OneEventIn(q, p, t) =>
                  \/ OneEventIn(Cancel(q, time, inst), p, t)
                  \/ \A i \in DOMAIN Cancel(q, time, inst) : Cancel(q, time, inst)[i].pair # p
             /\ \A p \in Pairs : (\A i \in DOMAIN q : q[i].pair # p) =>
                  \A i \in DOMAIN Cancel(q, time, inst) : Cancel(q, time, inst)[i].pair # p
  <2> DEFINE r == RemoveAt(q, k)
  <2>1. /\ r \in Seq(Events) /\ DOMAIN r = 1..Len(q) - 1
        /\ \A i \in 1..Len(q) - 1 : r[i] = IF i < k THEN q[i] ELSE q[i + 1]
    BY RemoveEvents
  <2>2. Sorted(q) => Sorted(r)  BY RemoveEvents
  <2>3. ASSUME NEW p \in Pairs, NEW t \in Nat, OneEventIn(q, p, t)
        PROVE  OneEventIn(r, p, t) \/ \A i \in DOMAIN r : r[i].pair # p
    BY <2>3, RemoveOther, RemoveOwn
  <2> HIDE DEF r
  <2>4. ASSUME NEW p \in Pairs, \A i \in DOMAIN q : q[i].pair # p, NEW i \in DOMAIN r
        PROVE  r[i].pair # p
    <3>1. i \in DOMAIN q /\ i + 1 \in DOMAIN q /\ (r[i] = q[i] \/ r[i] = q[i + 1])
      BY <2>1
    <3> QED  BY <2>4, <3>1
  <2> QED  BY <1>2, <2>1, <2>2, <2>3, <2>4 DEF r
<1> QED  BY <1>1, <1>2, CancelEffect

-----------------------------------------------------------------------------
(***************************************************************************)
(* The inductive invariant holds initially.                                *)
(***************************************************************************)
LEMMA InitHolds == Init => IInv
<1> SUFFICES ASSUME Init PROVE IInv
  OBVIOUS
<1> USE DEF Init, Serving
<1>1. TypeOK
  <2>1. Day \in Nat  BY DayIsPositive
  <2>2. NoBind \in Binds  BY DEF NoBind, Binds
  <2>3. queue \in Seq(Events) /\ writes \in Seq(Images)  OBVIOUS
  <2>4. disk \in Images  BY <2>2 DEF Images
  <2> QED  BY <2>1, <2>3, <2>4 DEF TypeOK
<1>2. BootInv /\ TimesInv /\ Sorted(queue) /\ OnePending /\ DatabaseFollows
  BY DEF BootInv, TimesInv, Sorted, OnePending, DatabaseFollows
<1>3. LockInv
  <2>1. StoredImages = {disk}  BY DEF StoredImages
  <2> QED  BY <2>1 DEF LockInv, LocksInTime, Realigned, NoBind
<1> QED  BY <1>1, <1>2, <1>3 DEF IInv

(***************************************************************************)
(* The queue: its type and order, and the events of each pair.             *)
(***************************************************************************)
QueueInv == queue \in Seq(Events) /\ Sorted(queue) /\ OnePending

\* Without a change of the queue and the reset times nothing changes.
LEMMA QueueUnchanged ==
    ASSUME IInv, UNCHANGED <<queue, resetTime, lost>>, Serving' => Serving
    PROVE  QueueInv'
  BY DEF IInv, TypeOK, QueueInv, OnePending, HasOneEvent, Sorted

\* OnePending, in terms of a queue and a time of its own.
LEMMA PendingIsOneEvent ==
    /\ OnePending <=> (Serving => \A p \in Pairs \ lost : OneEventIn(queue, p, resetTime[p]))
    /\ OnePending' <=>
         (Serving' => \A p \in Pairs \ lost' : OneEventIn(queue', p, resetTime'[p]))
  BY DEF OnePending, HasOneEvent, OneEventIn

\* LoadResetTimes schedules one event of each pair.
LEMMA LoadQueue ==
    ASSUME IInv, LoadResetTimes
    PROVE  QueueInv'
<1> DEFINE times == [p \in Pairs |-> LoadedTime(p)]
           first(p) == InstResetEvent(p, FirstType(times[p]), times[p])
           E == {first(p) : p \in Pairs}
<1>1. resetTime' = times /\ queue' \in Scheduled(E)  BY DEF LoadResetTimes
<1>2. \A p \in Pairs : times[p] \in Nat /\ FirstType(times[p]) \in 1..4
  BY LoadedTimeEffect, FirstTypeEffect DEF IInv
<1>3. \A p \in Pairs : first(p) \in Events
  BY <1>2, EventType
<1>4. \A p \in Pairs : first(p).pair = p /\ first(p).type = FirstType(times[p])
  BY DEF InstResetEvent
<1>5. IsFiniteSet(E)
  <2>1. IsFiniteSet(Pairs)  BY GlobalResetAssumption DEF GlobalResetAssumption
  <2> DEFINE f == [p \in Pairs |-> first(p)]
  <2>2. f \in Surjection(Pairs, E)  BY DEF Surjection
  <2> QED  BY <2>1, <2>2, FS_Surjection
<1>6. /\ queue' \in Seq(E) /\ Sorted(queue')
      /\ \A e \in E : \E i \in 1..Len(queue') : queue'[i] = e
      /\ \A i, j \in 1..Len(queue') : queue'[i] = queue'[j] => i = j
  <2> HIDE DEF E
  <2> QED  BY <1>1, <1>5, ScheduledEffect
<1> HIDE DEF times
<1>7. queue' \in Seq(Events)
  <2>1. E \subseteq Events  BY <1>3
  <2> HIDE DEF E
  <2> QED  BY <1>6, <2>1
<1>8. ASSUME NEW p \in Pairs PROVE OneEventIn(queue', p, times[p])
  <2>1. PICK i \in DOMAIN queue' : queue'[i] = first(p)  BY <1>6
  <2>2. ASSUME NEW j \in DOMAIN queue', queue'[j].pair = p PROVE j = i
    <3>1. queue'[j] \in E  BY <1>6
    <3>2. PICK r \in Pairs : queue'[j] = first(r)  BY <3>1
    <3>3. r = p  BY <1>4, <2>2, <3>2
    <3> HIDE DEF first
    <3> QED  BY <1>6, <2>1, <3>2, <3>3
  <2>3. queue'[i] = InstResetEvent(p, queue'[i].type, times[p])  BY <1>4, <2>1
  <2> QED  BY <2>1, <2>2, <2>3 DEF OneEventIn
<1> QED  BY <1>1, <1>6, <1>7, <1>8, PendingIsOneEvent DEF QueueInv

\* A warning replaces the event of its pair by the next of the chain.
LEMMA WarnQueue ==
    ASSUME IInv, Warn
    PROVE  QueueInv'
<1> DEFINE e == queue[1]  p == e.pair
           next == InstResetEvent(p, e.type + 1, resetTime[p])
           q == Schedule(queue, next)
<1>1. queue \in Seq(Events) /\ queue # <<>> /\ Sorted(queue) /\ e.type # 4
      /\ queue' = RemoveAt(q, 1) /\ Serving
  BY DEF IInv, TypeOK, Warn, Due, Serving
<1>2. Len(queue) \in Nat \ {0} /\ e \in Events  BY <1>1
<1>3. p \in Pairs /\ e.type \in 1..3 /\ resetTime[p] \in Nat /\ e.type + 1 \in 1..4
  BY <1>1, <1>2 DEF Events, IInv, TypeOK
<1>4. next \in Events /\ next.pair = p  BY <1>3, EventType DEF InstResetEvent
<1> HIDE DEF next
<1>5. /\ q \in Seq(Events) /\ Len(q) = Len(queue) + 1 /\ Sorted(q)
      /\ \E k \in 1..Len(queue) + 1 : \A i \in 1..Len(queue) + 1 :
           q[i] = IF i < k THEN queue[i] ELSE IF i = k THEN next ELSE queue[i - 1]
  BY <1>1, <1>4, ScheduleEvents
<1>6. q[1].pair = p
  <2> HIDE DEF q
  <2>1. PICK k \in 1..Len(queue) + 1 : \A i \in 1..Len(queue) + 1 :
           q[i] = IF i < k THEN queue[i] ELSE IF i = k THEN next ELSE queue[i - 1]
    BY <1>5
  <2>2. q[1] = queue[1] \/ q[1] = next  BY <1>2, <2>1
  <2> QED  BY <1>4, <2>2
<1>7. 1 \in 1..Len(q)  BY <1>2, <1>5
<1>8. queue' \in Seq(Events) /\ Sorted(queue')  BY <1>1, <1>5, <1>7, RemoveEvents
<1>9. ASSUME NEW r \in Pairs \ lost PROVE OneEventIn(queue', r, resetTime[r])
  <2>1. OneEventIn(queue, r, resetTime[r]) /\ resetTime[r] \in Nat
    BY <1>1, <1>9, PendingIsOneEvent DEF IInv, TypeOK
  <2>2. CASE r # p
    <3>1. OneEventIn(q, r, resetTime[r])
      BY <1>1, <1>4, <2>1, <2>2, ScheduleOther
    <3> HIDE DEF q, p
    <3> QED  BY <1>1, <1>5, <1>6, <1>7, <2>1, <2>2, <3>1, RemoveOther
  <2>3. CASE r = p
    <3>1. e = InstResetEvent(p, e.type, resetTime[p])
      <4>1. PICK i \in DOMAIN queue :
              /\ queue[i] = InstResetEvent(p, queue[i].type, resetTime[p])
              /\ \A j \in DOMAIN queue : queue[j].pair = p => j = i
        BY <2>1, <2>3 DEF OneEventIn
      <4>2. 1 = i  BY <1>1, <1>2, <4>1
      <4> QED  BY <4>1, <4>2
    <3>2. Delay[e.type] \in Nat /\ Delay[e.type + 1] \in Nat /\ Delay[e.type + 1] < Delay[e.type]
      <4>1. e.type \in 1..4 /\ e.type < 4  BY <1>3
      <4> QED  BY <1>3, <4>1, DelayType
    <3>3. e.time = resetTime[p] - Delay[e.type] /\ next.time = resetTime[p] - Delay[e.type + 1]
      BY <3>1 DEF InstResetEvent, next
    <3>4. e.time < next.time  BY <1>3, <3>2, <3>3
    <3>5. OneEventIn(queue, p, resetTime[p])  BY <2>1, <2>3
    <3> HIDE DEF p
    <3>6. OneEventIn(RemoveAt(Schedule(queue, next), 1), p, resetTime[p])
      BY <1>1, <1>3, <3>4, <3>5, NextOfChain DEF next, p
    <3> QED  BY <1>1, <2>3, <3>6 DEF q
  <2> QED  BY <2>2, <2>3
<1>10. resetTime' = resetTime /\ lost' = lost  BY DEF Warn, history
<1> QED  BY <1>8, <1>9, <1>10, PendingIsOneEvent DEF QueueInv

\* The event that Update takes out is the first one.
LEMMA TailIsRemoval ==
    ASSUME NEW q \in Seq(Events), q # <<>>
    PROVE  1 \in 1..Len(q) /\ Tail(q) = RemoveAt(q, 1)
<1> DEFINE r == RemoveAt(q, 1)
<1>1. Len(q) \in Nat \ {0}  OBVIOUS
<1>2. /\ r \in Seq(Events) /\ Len(r) = Len(q) - 1
      /\ \A i \in 1..Len(q) - 1 : r[i] = IF i < 1 THEN q[i] ELSE q[i + 1]
  BY <1>1, RemoveEvents
<1> HIDE DEF r
<1>3. /\ Tail(q) \in Seq(Events) /\ Len(Tail(q)) = Len(q) - 1
      /\ \A i \in 1..Len(q) - 1 : Tail(q)[i] = q[i + 1]
  BY <1>1
<1>4. \A i \in 1..Len(q) - 1 : Tail(q)[i] = r[i]  BY <1>1, <1>2, <1>3
<1>5. Tail(q) = r  BY <1>2, <1>3, <1>4
<1> QED  BY <1>1, <1>5 DEF r

\* What remains of the queue q once p is reset, and all of the rest is kept.
LEMMA ResetAllQueue ==
    ASSUME TypeOK, NEW p \in Pairs, NEW next \in Nat, NEW q \in Seq(Events), Sorted(q),
           queue' = Schedule(q, InstResetEvent(p, 1, next)),
           resetTime' = [resetTime EXCEPT ![p] = next],
           \A r \in Pairs \ lost' : r # p => OneEventIn(q, r, resetTime[r]),
           p \notin lost' => \A i \in DOMAIN q : q[i].pair # p
    PROVE  QueueInv'
<1> DEFINE e == InstResetEvent(p, 1, next)
<1>1. e \in Events  BY EventType
<1>2. e.pair = p  BY DEF InstResetEvent
<1>3. queue' \in Seq(Events) /\ Sorted(queue')  BY <1>1, ScheduleEvents
<1>4. ASSUME NEW r \in Pairs \ lost' PROVE OneEventIn(queue', r, resetTime'[r])
  <2>1. CASE r = p
    <3>1. resetTime'[r] = next  BY <2>1 DEF TypeOK
    <3>2. OneEventIn(Schedule(q, e), p, next)
      BY <1>4, <2>1, ScheduleOwn
    <3> QED  BY <2>1, <3>1, <3>2
  <2>2. CASE r # p
    <3>1. resetTime'[r] = resetTime[r] /\ resetTime[r] \in Nat  BY <2>2 DEF TypeOK
    <3>2. OneEventIn(q, r, resetTime[r])  BY <1>4, <2>2
    <3> HIDE DEF e
    <3>3. OneEventIn(Schedule(q, e), r, resetTime[r])
      BY <1>1, <1>2, <2>2, <3>1, <3>2, ScheduleOther
    <3> QED  BY <3>1, <3>3 DEF e
  <2> QED  BY <2>1, <2>2
<1> QED  BY <1>3, <1>4, PendingIsOneEvent DEF QueueInv

\* A reset starts a new chain, for the new reset time.
LEMMA ResetQueueStep ==
    ASSUME IInv, Reset
    PROVE  QueueInv'
<1> DEFINE e == queue[1]  p == e.pair  q == Tail(queue)
           next == GetSubsequentResetTime(p, resetTime[p])
<1>1. TypeOK /\ queue \in Seq(Events) /\ queue # <<>> /\ Sorted(queue) /\ Serving
  BY DEF IInv, TypeOK, Reset, Due, Serving
<1>2. e \in Events /\ p \in Pairs
  <2>1. Len(queue) \in Nat \ {0}  BY <1>1
  <2>2. e \in Events  BY <1>1, <2>1
  <2> QED  BY <2>2 DEF Events
<1>3. resetTime[p] \in Nat /\ hour \in Hours  BY <1>1, <1>2 DEF TypeOK
<1>4. next \in Nat  BY <1>2, <1>3, NextTime
<1>5. /\ resetTime' = [resetTime EXCEPT ![p] = next]
      /\ queue' = Schedule(q, InstResetEvent(p, 1, next))
      /\ lost' = lost
  BY DEF Reset, ResetAll, history
<1>6. 1 \in 1..Len(queue) /\ q = RemoveAt(queue, 1)  BY <1>1, TailIsRemoval
<1>7. q \in Seq(Events) /\ Sorted(q)  BY <1>1, <1>6, RemoveEvents
<1>8. ASSUME NEW r \in Pairs \ lost PROVE OneEventIn(queue, r, resetTime[r]) /\ resetTime[r] \in Nat
  BY <1>1, <1>8, PendingIsOneEvent DEF IInv, TypeOK
<1> HIDE DEF q, p, next
<1>9. ASSUME NEW r \in Pairs \ lost, r # p PROVE OneEventIn(q, r, resetTime[r])
  BY <1>1, <1>6, <1>8, <1>9, RemoveOther DEF p
<1>10. ASSUME p \notin lost PROVE \A i \in DOMAIN q : q[i].pair # p
  <2>1. OneEventIn(queue, p, resetTime[p]) /\ resetTime[p] \in Nat  BY <1>2, <1>8, <1>10
  <2>2. queue[1].pair = p  BY DEF p
  <2> QED  BY <1>1, <1>2, <1>6, <2>1, <2>2, RemoveOwn
<1> QED  BY <1>1, <1>2, <1>4, <1>5, <1>7, <1>9, <1>10, ResetAllQueue

\* A forced reset loses at most the events of the pairs it enters in lost.
LEMMA ForceQueue ==
    ASSUME IInv, NEW p \in Pairs, ForceGlobalReset(p)
    PROVE  QueueInv'
<1> DEFINE once == Cancel(queue, 0, 0)  kept == Cancel(once, 0, 0)
           next == GetSubsequentResetTime(p, now)
<1>1. TypeOK /\ queue \in Seq(Events) /\ Sorted(queue) /\ Serving
  BY DEF IInv, TypeOK, ForceGlobalReset, Serving
<1>2. now \in Nat /\ hour \in Hours  BY <1>1 DEF TypeOK
<1>3. next \in Nat  BY <1>2, NextTime
<1>4. /\ resetTime' = [resetTime EXCEPT ![p] = next]
      /\ queue' = Schedule(kept, InstResetEvent(p, 1, next))
      /\ lost' = lost \cup {r \in Pairs : (\E i \in DOMAIN kept : kept[i].pair = r) = (r = p)}
  BY DEF ForceGlobalReset, ResetAll
<1>5. /\ once \in Seq(Events) /\ Sorted(once)
      /\ \A r \in Pairs, t \in Nat : OneEventIn(queue, r, t) =>
           OneEventIn(once, r, t) \/ \A i \in DOMAIN once : once[i].pair # r
  BY <1>1, CancelPairs
<1> HIDE DEF once
<1>6. /\ kept \in Seq(Events) /\ Sorted(kept)
      /\ \A r \in Pairs, t \in Nat : OneEventIn(once, r, t) =>
           OneEventIn(kept, r, t) \/ \A i \in DOMAIN kept : kept[i].pair # r
      /\ \A r \in Pairs : (\A i \in DOMAIN once : once[i].pair # r) =>
           \A i \in DOMAIN kept : kept[i].pair # r
  BY <1>5, CancelPairs
<1> HIDE DEF kept, next
<1>7. ASSUME NEW r \in Pairs \ lost', r # p PROVE OneEventIn(kept, r, resetTime[r])
  <2>1. r \notin lost  BY <1>4, <1>7
  <2>2. OneEventIn(queue, r, resetTime[r]) /\ resetTime[r] \in Nat
    BY <1>1, <2>1, PendingIsOneEvent DEF IInv, TypeOK
  <2>3. OneEventIn(kept, r, resetTime[r]) \/ \A i \in DOMAIN kept : kept[i].pair # r
    BY <1>5, <1>6, <2>2
  <2>4. \E i \in DOMAIN kept : kept[i].pair = r  BY <1>4, <1>7
  <2> QED  BY <2>3, <2>4
<1>8. ASSUME p \notin lost' PROVE \A i \in DOMAIN kept : kept[i].pair # p
  BY <1>4, <1>8
<1> QED  BY <1>1, <1>3, <1>4, <1>6, <1>7, <1>8, ResetAllQueue

(***************************************************************************)
(* Each action as a ResetAll or a Store of typed arguments.                *)
(***************************************************************************)
LEMMA BindType == ASSUME TypeOK, NEW p \in Pairs PROVE bind[p] \in Binds /\ bind[p] = Latest.bind[p]
  BY LatestType DEF bind, Images

\* Reset takes the first event and resets its pair.
LEMMA ResetFacts ==
    ASSUME TypeOK, Reset
    PROVE  \E p \in Pairs :
             /\ ResetAll(p, resetTime[p], Expire(bind[p]), Tail(queue))
             /\ resetTime[p] \in Nat /\ Expire(bind[p]) \in Binds /\ Tail(queue) \in Seq(Events)
             /\ p = queue[1].pair
<1>1. queue \in Seq(Events) /\ queue # <<>>  BY DEF TypeOK, Reset, Due
<1>2. Len(queue) \in Nat \ {0}  BY <1>1
<1>3. queue[1] \in Events /\ Tail(queue) \in Seq(Events)  BY <1>1, <1>2
<1>4. queue[1].pair \in Pairs  BY <1>3 DEF Events
<1>5. resetTime[queue[1].pair] \in Nat  BY <1>4 DEF TypeOK
<1>6. Expire(bind[queue[1].pair]) \in Binds  BY <1>4, BindType, ExpireEffect
<1> QED  BY <1>3, <1>4, <1>5, <1>6 DEF Reset

\* The bind that a forced reset leaves.
Recounted(p) ==
    IF Expire(bind[p]).state = "normal"
    THEN [Expire(bind[p]) EXCEPT !.until = DayOf(GetSubsequentResetTime(p, now))]
    ELSE Expire(bind[p])

\* ForceGlobalReset cancels the events and resets the pair now.
LEMMA ForceFacts ==
    ASSUME TypeOK, NEW p \in Pairs, ForceGlobalReset(p)
    PROVE  LET kept == Cancel(Cancel(queue, 0, 0), 0, 0)
           IN  /\ ResetAll(p, now, Recounted(p), kept)
               /\ now \in Nat /\ Recounted(p) \in Binds /\ kept \in Seq(Events)
<1>1. now \in Nat /\ queue \in Seq(Events) /\ hour \in Hours  BY DEF TypeOK
<1>2. Cancel(queue, 0, 0) \in Seq(Events)  BY <1>1, CancelPairs
<1>3. Cancel(Cancel(queue, 0, 0), 0, 0) \in Seq(Events)  BY <1>2, CancelPairs
<1>4. GetSubsequentResetTime(p, now) \in Nat  BY <1>1, NextTime
<1>5. DayOf(GetSubsequentResetTime(p, now)) \in Nat  BY <1>4, DayOfType
<1>6. Expire(bind[p]) \in Binds  BY BindType, ExpireEffect
<1>7. Recounted(p) \in Binds  BY <1>5, <1>6 DEF Recounted, Binds
<1> QED  BY <1>1, <1>3, <1>7 DEF ForceGlobalReset, Recounted

\* BindToInstance writes a lockout until the day of the reset.
LEMMA BindFacts ==
    ASSUME TypeOK, NEW p \in Pairs, BindToInstance(p)
    PROVE  \E b \in Binds :
             /\ Store(p, b) /\ b.state = "normal" /\ b.until = DayOf(resetTime[p])
             /\ disk' = disk
<1>1. DayOf(resetTime[p]) \in Nat  BY DayOfType DEF TypeOK
<1>2. [state |-> "normal", until |-> DayOf(resetTime[p])] \in Binds  BY <1>1 DEF Binds
<1> QED  BY <1>2 DEF BindToInstance

\* SetSavedInstanceExtend adds or takes one period.
LEMMA ExtendFacts ==
    ASSUME TypeOK, NEW p \in Pairs, NEW on \in BOOLEAN, SetSavedInstanceExtend(p, on)
    PROVE  \E b \in Binds :
             /\ Store(p, b) /\ b.state \in {"normal", "extended"}
             /\ b.state = "normal" => b.until = DayOf(resetTime[p])
             /\ b.state = "extended" => b.until = DayOf(resetTime[p] + Period[p])
             /\ disk' = disk
<1> DEFINE new == IF on /\ bind[p].state # "expired" THEN "extended" ELSE "normal"
           days == IF new = "extended" THEN Period[p] ELSE 0
           b == [state |-> new, until |-> DayOf(resetTime[p] + days)]
<1>1. resetTime[p] \in Nat /\ Period[p] \in Nat
  BY GlobalResetAssumption DEF GlobalResetAssumption, TypeOK
<1>2. DayOf(resetTime[p] + days) \in Nat  BY <1>1, DayOfType
<1>3. b \in Binds  BY <1>2 DEF Binds
<1>4. Store(p, b) /\ disk' = disk  BY DEF SetSavedInstanceExtend
<1>5. b.state = "normal" => b.until = DayOf(resetTime[p])
  <2>1. resetTime[p] + 0 = resetTime[p]  BY <1>1
  <2> QED  BY <2>1
<1>6. b.state = "extended" => b.until = DayOf(resetTime[p] + Period[p])  OBVIOUS
<1>7. b.state \in {"normal", "extended"}  OBVIOUS
<1> QED  BY <1>3, <1>4, <1>5, <1>6, <1>7

-----------------------------------------------------------------------------
(***************************************************************************)
(* The steps: types, queue, database, lockouts.                            *)
(***************************************************************************)
LEMMA QueueStep ==
    ASSUME IInv, [Next]_vars
    PROVE  QueueInv'
<1>1. CASE UNCHANGED vars  BY <1>1, QueueUnchanged DEF vars, history, Serving
<1>2. CASE LoadResetTimes  BY <1>2, LoadQueue
<1>3. CASE LoadInstances \/ Tick \/ BeginUpdate \/ EndUpdate \/ ExecuteWrite
  BY <1>3, QueueUnchanged DEF LoadInstances, Tick, BeginUpdate, EndUpdate, ExecuteWrite,
     Serving, history
<1>4. CASE Restart
  <2>1. queue' = <<>> /\ ~Serving'  BY <1>4 DEF Restart, Serving
  <2> QED  BY <2>1 DEF QueueInv, Sorted, OnePending
<1>5. CASE Warn  BY <1>5, WarnQueue
<1>6. CASE Reset  BY <1>6, ResetQueueStep
<1>7. ASSUME NEW p \in Pairs, ForceGlobalReset(p) PROVE QueueInv'
  BY <1>7, ForceQueue
<1>8. ASSUME NEW p \in Pairs, BindToInstance(p) PROVE QueueInv'
  BY <1>8, QueueUnchanged DEF BindToInstance, Serving, history
<1>9. ASSUME NEW p \in Pairs, NEW on \in BOOLEAN, SetSavedInstanceExtend(p, on)
      PROVE  QueueInv'
  BY <1>9, QueueUnchanged DEF SetSavedInstanceExtend, Serving, history
<1> QED  BY <1>1, <1>2, <1>3, <1>4, <1>5, <1>6, <1>7, <1>8, <1>9 DEF Next

\* Every step keeps the types.
LEMMA TypeStep ==
    ASSUME IInv, [Next]_vars
    PROVE  TypeOK'
<1>1. TypeOK /\ queue' \in Seq(Events)  BY QueueStep DEF IInv, QueueInv
<1>2. CASE UNCHANGED vars  BY <1>1, <1>2 DEF vars, history, TypeOK
<1>3. CASE LoadInstances
  <2>1. disk' \in Images
    BY <1>1, <1>3 DEF LoadInstances, TypeOK, Images, NoBind, Binds
  <2> QED  BY <1>1, <1>3, <2>1 DEF LoadInstances, TypeOK, history
<1>4. CASE LoadResetTimes
  <2>1. [p \in Pairs |-> LoadedTime(p)] \in [Pairs -> Nat]
    BY <1>1, LoadedTimeEffect
  <2>2. disk' \in Images  BY <1>1, <1>4, <2>1 DEF LoadResetTimes, TypeOK, Images
  <2>3. resetTime' \in [Pairs -> Nat]  BY <1>4, <2>1 DEF LoadResetTimes
  <2> QED  BY <1>1, <1>4, <2>2, <2>3 DEF LoadResetTimes, TypeOK, history
<1>5. CASE BeginUpdate \/ EndUpdate \/ Warn \/ Tick
  BY <1>1, <1>5 DEF BeginUpdate, EndUpdate, Warn, Tick, TypeOK, history
<1>6. CASE ExecuteWrite
  BY <1>1, <1>6 DEF ExecuteWrite, TypeOK, history
<1>7. CASE Restart
  BY <1>1, <1>7 DEF Restart, TypeOK
<1>8. CASE Reset
  <2>1. PICK p \in Pairs :
           /\ ResetAll(p, resetTime[p], Expire(bind[p]), Tail(queue))
           /\ resetTime[p] \in Nat /\ Expire(bind[p]) \in Binds /\ Tail(queue) \in Seq(Events)
    BY <1>1, <1>8, ResetFacts
  <2>2. writes' \in Seq(Images) /\ resetTime' \in [Pairs -> Nat]
    <3> DEFINE next == GetSubsequentResetTime(p, resetTime[p])
    <3>1. disk' = disk  BY <1>8 DEF Reset
    <3>2. writes' \in Seq(Images) /\ next \in Nat /\ resetTime' = [resetTime EXCEPT ![p] = next]
      BY <1>1, <2>1, <3>1, ResetAllEffect
    <3> HIDE DEF next
    <3> QED  BY <1>1, <3>2 DEF TypeOK
  <2> QED  BY <1>1, <1>8, <2>2 DEF Reset, TypeOK, history
<1>9. ASSUME NEW p \in Pairs, ForceGlobalReset(p) PROVE TypeOK'
  <2>1. writes' \in Seq(Images) /\ resetTime' \in [Pairs -> Nat]
    <3> DEFINE next == GetSubsequentResetTime(p, now)
    <3>1. disk' = disk  BY <1>9 DEF ForceGlobalReset
    <3>2. writes' \in Seq(Images) /\ next \in Nat /\ resetTime' = [resetTime EXCEPT ![p] = next]
      BY <1>1, <1>9, <3>1, ForceFacts, ResetAllEffect
    <3> HIDE DEF next
    <3> QED  BY <1>1, <3>2 DEF TypeOK
  <2>2. lost' \subseteq Pairs  BY <1>1, <1>9 DEF ForceGlobalReset, TypeOK
  <2> QED  BY <1>1, <1>9, <2>1, <2>2 DEF ForceGlobalReset, TypeOK
<1>10. ASSUME NEW p \in Pairs, BindToInstance(p) PROVE TypeOK'
  <2>1. writes' \in Seq(Images)  BY <1>1, <1>10, BindFacts, StoreEffect
  <2> QED  BY <1>1, <1>10, <2>1 DEF BindToInstance, TypeOK, history
<1>11. ASSUME NEW p \in Pairs, NEW on \in BOOLEAN, SetSavedInstanceExtend(p, on)
       PROVE  TypeOK'
  <2>1. writes' \in Seq(Images)  BY <1>1, <1>11, ExtendFacts, StoreEffect
  <2> QED  BY <1>1, <1>11, <2>1 DEF SetSavedInstanceExtend, TypeOK, history
<1> QED  BY <1>2, <1>3, <1>4, <1>5, <1>6, <1>7, <1>8, <1>9, <1>10, <1>11 DEF Next

\* Once a write is executed, the newest image is still the same.
LEMMA ExecuteWriteEffect ==
    ASSUME TypeOK, ExecuteWrite
    PROVE  Latest' = Latest /\ StoredImages' \subseteq StoredImages
<1>1. /\ writes \in Seq(Images) /\ writes # <<>>
      /\ disk' = Head(writes) /\ writes' = Tail(writes)
  BY DEF TypeOK, ExecuteWrite
<1>2. Len(writes) \in Nat \ {0} /\ Head(writes) = writes[1]  BY <1>1
<1>3. /\ writes' \in Seq(Images) /\ Len(writes') = Len(writes) - 1
      /\ \A i \in 1..Len(writes) - 1 : writes'[i] = writes[i + 1]
  BY <1>1, <1>2
<1>4. Latest' = Latest
  <2>1. CASE Len(writes) = 1
    <3>1. writes' = <<>>  BY <1>3, <2>1
    <3> QED  BY <1>1, <1>2, <2>1, <3>1 DEF Latest, Last
  <2>2. CASE Len(writes) # 1
    <3>1. writes' # <<>> /\ Len(writes) - 1 \in 1..Len(writes) - 1
      BY <1>2, <1>3, <2>2
    <3>2. writes'[Len(writes')] = writes[Len(writes)]  BY <1>2, <1>3, <3>1
    <3> QED  BY <1>1, <3>1, <3>2 DEF Latest, Last
  <2> QED  BY <2>1, <2>2
<1>5. \A i \in DOMAIN writes' : i + 1 \in DOMAIN writes /\ writes'[i] = writes[i + 1]
  BY <1>1, <1>2, <1>3
<1>6. 1 \in DOMAIN writes /\ disk' = writes[1]  BY <1>1, <1>2
<1> QED  BY <1>4, <1>5, <1>6 DEF StoredImages

\* What the process works with is what the writes leave in the database.
LEMMA DatabaseStep ==
    ASSUME IInv, [Next]_vars
    PROVE  BootInv' /\ TimesInv' /\ DatabaseFollows'
<1>1. TypeOK /\ BootInv /\ TimesInv /\ DatabaseFollows  BY DEF IInv
<1>2. CASE UNCHANGED vars
  BY <1>1, <1>2 DEF vars, history, BootInv, TimesInv, DatabaseFollows, Serving, Latest
<1>3. CASE LoadInstances \/ Restart
  BY <1>1, <1>3 DEF LoadInstances, Restart, BootInv, TimesInv, DatabaseFollows, Serving
<1>4. CASE LoadResetTimes
  <2>1. writes = <<>> /\ writes' = <<>>  BY <1>1, <1>4 DEF BootInv, LoadResetTimes, Serving
  <2>2. disk'.reset = resetTime'  BY <1>1, <1>4 DEF LoadResetTimes, TypeOK, Images
  <2>3. \A p \in Pairs : resetTime'[p] > 0
    BY <1>1, <1>4, LoadedTimeEffect DEF LoadResetTimes
  <2>4. Latest' = disk'  BY <2>1 DEF Latest
  <2>5. Serving'  BY <1>4 DEF LoadResetTimes, Serving
  <2> QED  BY <2>2, <2>3, <2>4, <2>5 DEF BootInv, TimesInv, DatabaseFollows
<1>5. CASE BeginUpdate \/ EndUpdate \/ Warn \/ Tick
  BY <1>1, <1>5 DEF BeginUpdate, EndUpdate, Warn, Tick, BootInv, TimesInv, DatabaseFollows,
     Serving, Latest, history
<1>6. CASE ExecuteWrite
  <2>1. Serving  BY <1>1, <1>6 DEF ExecuteWrite, BootInv
  <2> QED  BY <1>1, <1>6, <2>1, ExecuteWriteEffect
           DEF ExecuteWrite, BootInv, TimesInv, DatabaseFollows, Serving
<1>7. ASSUME NEW p \in Pairs, NEW from \in Nat, NEW b \in Binds, NEW q \in Seq(Events),
             ResetAll(p, from, b, q), disk' = disk, Serving, Serving'
      PROVE  BootInv' /\ TimesInv' /\ DatabaseFollows'
  <2> DEFINE next == GetSubsequentResetTime(p, from)
  <2>1. /\ next \in Nat /\ resetTime' = [resetTime EXCEPT ![p] = next]
        /\ Latest'.reset = [Latest.reset EXCEPT ![p] = next]
    BY <1>1, <1>7, ResetAllEffect
  <2>2. next > 0  BY <1>1, <1>7, NextTime DEF TypeOK
  <2> HIDE DEF next
  <2>4. Latest'.reset = resetTime'  BY <1>1, <1>7, <2>1 DEF DatabaseFollows
  <2>5. \A r \in Pairs : resetTime'[r] > 0
    BY <1>1, <1>7, <2>1, <2>2 DEF TimesInv, TypeOK
  <2> QED  BY <1>7, <2>1, <2>4, <2>5 DEF BootInv, TimesInv, DatabaseFollows
<1>8. CASE Reset
  <2>1. disk' = disk /\ Serving /\ Serving'  BY <1>8 DEF Reset, Serving
  <2> QED  BY <1>1, <1>7, <1>8, <2>1, ResetFacts
<1>9. ASSUME NEW p \in Pairs, ForceGlobalReset(p)
      PROVE  BootInv' /\ TimesInv' /\ DatabaseFollows'
  <2>1. disk' = disk /\ Serving /\ Serving'  BY <1>9 DEF ForceGlobalReset, Serving
  <2> QED  BY <1>1, <1>7, <1>9, <2>1, ForceFacts
<1>10. ASSUME NEW p \in Pairs, NEW b \in Binds, Store(p, b), disk' = disk,
              Serving, pc' = pc, resetTime' = resetTime
       PROVE  BootInv' /\ TimesInv' /\ DatabaseFollows'
  <2>1. Latest'.reset = Latest.reset  BY <1>1, <1>10, StoreEffect
  <2> QED  BY <1>1, <1>10, <2>1 DEF BootInv, TimesInv, DatabaseFollows, Serving
<1>11. ASSUME NEW p \in Pairs, BindToInstance(p)
       PROVE  BootInv' /\ TimesInv' /\ DatabaseFollows'
  <2>1. Serving /\ pc' = pc /\ resetTime' = resetTime  BY <1>11 DEF BindToInstance, Serving
  <2> QED  BY <1>1, <1>10, <1>11, <2>1, BindFacts
<1>12. ASSUME NEW p \in Pairs, NEW on \in BOOLEAN, SetSavedInstanceExtend(p, on)
       PROVE  BootInv' /\ TimesInv' /\ DatabaseFollows'
  <2>1. Serving /\ pc' = pc /\ resetTime' = resetTime
    BY <1>12 DEF SetSavedInstanceExtend, Serving
  <2> QED  BY <1>1, <1>10, <1>12, <2>1, ExtendFacts
<1> QED  BY <1>2, <1>3, <1>4, <1>5, <1>6, <1>8, <1>9, <1>11, <1>12 DEF Next

\* What LockInv says of one image.
ImageInTime(image) ==
    \A p \in Pairs :
        /\ Realigned(image.reset[p]) = image.reset[p]
        /\ LocksInTime(p, image.bind[p], image.reset[p])

\* The day of the reset after the one at t is not before that of t.
LEMMA PeriodIsLater ==
    ASSUME NEW p \in Pairs, NEW t \in Nat
    PROVE  /\ DayOf(t) \in Nat /\ DayOf(t + Period[p]) \in Nat
           /\ DayOf(t) <= DayOf(t + Period[p])
<1>1. PICK k \in Nat \ {0} : Period[p] = k * Day  BY PeriodInDays
<1>2. DayOf(t + Period[p]) = DayOf(t) + k  BY <1>1, DayOfLater
<1>3. DayOf(t) \in Nat  BY DayOfType
<1> QED  BY <1>2, <1>3

\* The reset that follows one at the hour is the reset delay after it.
LEMMA NextAfterAligned ==
    ASSUME hour \in Hours, NEW p \in Pairs, NEW t \in Nat \ {0}, Realigned(t) = t
    PROVE  DayOf(GetSubsequentResetTime(p, t)) = DayOf(t + Period[p])
<1>1. t + Minute \in Nat  BY DayIsPositive
<1>2. PICK k \in Nat \ {0} : Period[p] = k * Day  BY PeriodInDays
<1>3. DayOf(t + Period[p]) = DayOf(t) + k  BY <1>2, DayOfLater
<1>4. DayOf(t + Minute + Period[p]) = DayOf(t + Minute) + k  BY <1>1, <1>2, DayOfLater
<1>5. DayOf(t + Minute) = DayOf(t)  BY AlignedDay
<1> QED  BY <1>3, <1>4, <1>5, NextTime

\* What a reset leaves, and what a crash in the middle of it leaves, is in time.
LEMMA ResetAllLocks ==
    ASSUME IInv, ~moved, Serving, NEW p \in Pairs, NEW next \in Nat, NEW b \in Binds,
           NEW expired \in Images,
           Realigned(next) = next, LocksInTime(p, b, next),
           Latest'.reset = [Latest.reset EXCEPT ![p] = next],
           Latest'.bind = [Latest.bind EXCEPT ![p] = b],
           expired.reset = Latest.reset,
           expired.bind = [Latest.bind EXCEPT ![p] = Expire(Latest.bind[p])],
           StoredImages' \subseteq StoredImages \cup {expired, Latest'}
    PROVE  \A image \in StoredImages' : ImageInTime(image)
<1> DEFINE old == Latest.bind[p]
           t == resetTime[p]
<1>1. TypeOK /\ Latest \in Images /\ Latest \in StoredImages /\ Latest.reset = resetTime
  BY LatestType DEF IInv, DatabaseFollows
<1>2. \A image \in StoredImages : ImageInTime(image)
  BY DEF IInv, LockInv, ImageInTime
<1>3. ImageInTime(Latest)  BY <1>1, <1>2
<1>7. old \in Binds /\ t \in Nat /\ t > 0 /\ Latest.reset[p] = t
  <2>1. resetTime \in [Pairs -> Nat] /\ resetTime[p] > 0  BY DEF IInv, TypeOK, TimesInv
  <2>2. old \in Binds  BY <1>1 DEF Images
  <2> QED  BY <1>1, <2>1, <2>2
<1>8. LocksInTime(p, old, t)  BY <1>3, <1>7 DEF ImageInTime
<1>10. LocksInTime(p, Expire(old), t)
  <2>1. CASE old.state = "extended"
    <3>1. Expire(old).state = "normal" /\ Expire(old).until = old.until /\ old.until \in Nat
      BY <1>7, <2>1, ExpireEffect DEF Binds
    <3>2. DayOf(t + Period[p]) <= old.until  BY <1>8, <2>1 DEF LocksInTime
    <3>3. /\ DayOf(t) \in Nat /\ DayOf(t + Period[p]) \in Nat
          /\ DayOf(t) <= DayOf(t + Period[p])
      BY <1>7, PeriodIsLater
    <3>4. DayOf(t) <= old.until  BY <3>1, <3>2, <3>3
    <3> QED  BY <1>7, <3>1, <3>4 DEF LocksInTime
  <2>2. CASE old.state # "extended"
    <3>1. Expire(old).state \in {"none", "expired"}  BY <1>7, <2>2, ExpireEffect
    <3> QED  BY <1>7, <3>1 DEF LocksInTime
  <2> QED  BY <2>1, <2>2
<1> HIDE DEF old, t
<1>11. ImageInTime(expired)
  <2> SUFFICES ASSUME NEW r \in Pairs
               PROVE  /\ Realigned(expired.reset[r]) = expired.reset[r]
                      /\ LocksInTime(r, expired.bind[r], expired.reset[r])
    BY DEF ImageInTime
  <2>1. expired.reset[r] = Latest.reset[r]  OBVIOUS
  <2>2. expired.bind[r] = IF r = p THEN Expire(old) ELSE Latest.bind[r]
    BY <1>1 DEF Images, old
  <2> QED  BY <1>3, <1>7, <1>10, <2>1, <2>2 DEF ImageInTime
<1>12. ImageInTime(Latest')
  <2> SUFFICES ASSUME NEW r \in Pairs
               PROVE  /\ Realigned(Latest'.reset[r]) = Latest'.reset[r]
                      /\ LocksInTime(r, Latest'.bind[r], Latest'.reset[r])
    BY DEF ImageInTime
  <2>1. Latest'.reset[r] = IF r = p THEN next ELSE Latest.reset[r]
    BY <1>1 DEF Images
  <2>2. Latest'.bind[r] = IF r = p THEN b ELSE Latest.bind[r]
    BY <1>1 DEF Images
  <2> QED  BY <1>3, <2>1, <2>2 DEF ImageInTime
<1> QED  BY <1>2, <1>11, <1>12

\* A bind that is granted until the reset it belongs to is in time.
LEMMA StoreLocks ==
    ASSUME IInv, ~moved, Serving, NEW p \in Pairs, NEW b \in Binds, Store(p, b),
           disk' = disk, LocksInTime(p, b, resetTime[p])
    PROVE  \A image \in StoredImages' : ImageInTime(image)
<1>1. TypeOK /\ Latest \in Images /\ Latest \in StoredImages /\ Latest.reset = resetTime
  BY LatestType DEF IInv, DatabaseFollows
<1>2. \A image \in StoredImages : ImageInTime(image)
  BY DEF IInv, LockInv, ImageInTime
<1>3. /\ Latest'.reset = Latest.reset
      /\ Latest'.bind = [Latest.bind EXCEPT ![p] = b]
      /\ StoredImages' \subseteq StoredImages \cup {Latest'}
  BY <1>1, StoreEffect
<1>4. ImageInTime(Latest')
  <2> SUFFICES ASSUME NEW r \in Pairs
               PROVE  /\ Realigned(Latest'.reset[r]) = Latest'.reset[r]
                      /\ LocksInTime(r, Latest'.bind[r], Latest'.reset[r])
    BY DEF ImageInTime
  <2>1. Latest'.bind[r] = IF r = p THEN b ELSE Latest.bind[r]
    BY <1>1, <1>3 DEF Images
  <2> QED  BY <1>1, <1>2, <1>3, <2>1 DEF ImageInTime
<1> QED  BY <1>2, <1>3, <1>4

\* LockInv, by the images.
LEMMA LockInvByImages ==
    /\ LockInv <=>
         (~moved =>
            /\ \A image \in StoredImages : ImageInTime(image)
            /\ pc = "load" => \A p \in Pairs :
                 disk.reset[p] = 0 \/ disk.reset[p] >= now \/ disk.bind[p] = NoBind)
  BY DEF LockInv, ImageInTime

\* Every step keeps the lockouts of the players right.
LEMMA LockStep ==
    ASSUME IInv, [Next]_vars
    PROVE  LockInv'
<1>1. TypeOK /\ BootInv /\ LockInv /\ hour \in Hours  BY DEF IInv, TypeOK
<1>2. SUFFICES ASSUME ~moved, hour' = hour
               PROVE  /\ \A image \in StoredImages' : ImageInTime(image)
                      /\ pc' = "load" => \A p \in Pairs :
                           disk'.reset[p] = 0 \/ disk'.reset[p] >= now' \/ disk'.bind[p] = NoBind
  <2>1. ~moved' => ~moved /\ hour' = hour
    BY <1>1 DEF Next, vars, history, LoadInstances, LoadResetTimes, BeginUpdate, EndUpdate, Warn,
       Tick, ExecuteWrite, Restart, Reset, ForceGlobalReset, BindToInstance,
       SetSavedInstanceExtend
  <2>2. SUFFICES ASSUME ~moved, hour' = hour PROVE LockInv'
    BY <2>1 DEF LockInv
  <2> QED  BY <2>2 DEF LockInv, ImageInTime, Realigned, LocksInTime
<1>3. \A image \in StoredImages : ImageInTime(image)
  BY <1>1, <1>2, LockInvByImages
<1>4. disk \in StoredImages /\ disk \in Images  BY <1>1 DEF StoredImages, TypeOK
<1>5. CASE UNCHANGED vars
  BY <1>1, <1>2, <1>3, <1>5, LockInvByImages DEF vars, history, StoredImages
<1>6. CASE LoadInstances
  <2>1. writes = <<>> /\ writes' = <<>>  BY <1>1, <1>6 DEF BootInv, LoadInstances, Serving
  <2>2. StoredImages' = {disk'}  BY <2>1 DEF StoredImages
  <2>3. disk'.reset = disk.reset /\ now' = now
    BY <1>4, <1>6 DEF LoadInstances, Images
  <2>4. \A p \in Pairs : disk'.bind[p] =
          IF disk.reset[p] > 0 /\ disk.reset[p] < now THEN NoBind ELSE disk.bind[p]
    BY <1>4, <1>6 DEF LoadInstances, Images
  <2>5. \A p \in Pairs : disk.reset[p] \in Nat /\ now \in Nat
    BY <1>1, <1>4 DEF Images, TypeOK
  <2>6. ImageInTime(disk')
    <3>1. \A p \in Pairs : LocksInTime(p, NoBind, disk.reset[p])
      BY DEF LocksInTime, NoBind
    <3>2. ImageInTime(disk)  BY <1>3, <1>4
    <3> QED  BY <2>3, <2>4, <3>1, <3>2 DEF ImageInTime
  <2>7. \A p \in Pairs :
          disk'.reset[p] = 0 \/ disk'.reset[p] >= now' \/ disk'.bind[p] = NoBind
    BY <2>3, <2>4, <2>5
  <2> QED  BY <2>2, <2>6, <2>7
<1>7. CASE LoadResetTimes
  <2> DEFINE times == [p \in Pairs |-> LoadedTime(p)]
  <2>1. writes = <<>> /\ writes' = <<>>  BY <1>1, <1>7 DEF BootInv, LoadResetTimes, Serving
  <2>2. StoredImages' = {disk'}  BY <2>1 DEF StoredImages
  <2>3. disk'.reset = times /\ disk'.bind = disk.bind /\ pc' = "run"
    BY <1>4, <1>7 DEF LoadResetTimes, Images
  <2>4. ASSUME NEW p \in Pairs
        PROVE  /\ Realigned(times[p]) = times[p]
               /\ LocksInTime(p, disk.bind[p], times[p])
    <3>1. /\ times[p] = LoadedTime(p) /\ times[p] > 0
          /\ Realigned(times[p]) = times[p]
      BY <1>1, LoadedTimeEffect
    <3>2. /\ Realigned(disk.reset[p]) = disk.reset[p]
          /\ LocksInTime(p, disk.bind[p], disk.reset[p])
      BY <1>3, <1>4 DEF ImageInTime
    <3>3. CASE disk.bind[p].state = "none"
      BY <3>1, <3>3 DEF LocksInTime
    <3>4. CASE disk.bind[p].state # "none"
      <4>1. disk.reset[p] # 0  BY <3>2, <3>4 DEF LocksInTime
      <4>2. disk.reset[p] >= now
        BY <1>1, <1>2, <1>7, <3>4, <4>1 DEF LockInv, LoadResetTimes, NoBind
      <4>3. times[p] = disk.reset[p]  BY <1>1, <3>1, <3>2, <4>1, <4>2, LoadedTimeEffect
      <4> QED  BY <3>1, <3>2, <4>3
    <3> QED  BY <3>1, <3>3, <3>4
  <2> HIDE DEF times
  <2>5. ImageInTime(disk')  BY <2>3, <2>4 DEF ImageInTime
  <2> QED  BY <2>2, <2>3, <2>5
<1>8. CASE BeginUpdate \/ EndUpdate \/ Warn \/ Tick
  <2>1. StoredImages' = StoredImages /\ pc' # "load"
    BY <1>8 DEF BeginUpdate, EndUpdate, Warn, Tick, StoredImages
  <2> QED  BY <1>3, <2>1
<1>9. CASE ExecuteWrite
  <2>1. Serving /\ pc' = pc  BY <1>1, <1>9 DEF ExecuteWrite, BootInv
  <2>2. StoredImages' \subseteq StoredImages  BY <1>1, <1>9, ExecuteWriteEffect
  <2> QED  BY <1>3, <2>1, <2>2 DEF Serving
<1>10. CASE Restart
  <2>1. StoredImages' = {disk} /\ pc' = "boot"  BY <1>10 DEF Restart, StoredImages
  <2> QED  BY <1>3, <1>4, <2>1
<1>11. ASSUME NEW p \in Pairs, NEW from \in Nat, NEW b \in Binds, NEW q \in Seq(Events),
              ResetAll(p, from, b, q), disk' = disk, Serving,
              NEW next \in Nat, next = GetSubsequentResetTime(p, from),
              LocksInTime(p, b, next)
       PROVE  \A image \in StoredImages' : ImageInTime(image)
  <2>1. Realigned(next) = next  BY <1>1, <1>11, NextTime
  <2>2. /\ Latest'.reset = [Latest.reset EXCEPT ![p] = GetSubsequentResetTime(p, from)]
        /\ Latest'.bind = [Latest.bind EXCEPT ![p] = b]
        /\ \E expired \in Images :
             /\ expired.reset = Latest.reset
             /\ expired.bind = [Latest.bind EXCEPT ![p] = Expire(Latest.bind[p])]
             /\ StoredImages' \subseteq StoredImages \cup {expired, Latest'}
    BY <1>1, <1>11, ResetAllEffect
  <2> QED  BY <1>2, <1>11, <2>1, <2>2, ResetAllLocks
<1>12. CASE Reset
  <2>1. PICK p \in Pairs :
           /\ ResetAll(p, resetTime[p], Expire(bind[p]), Tail(queue))
           /\ resetTime[p] \in Nat /\ Expire(bind[p]) \in Binds /\ Tail(queue) \in Seq(Events)
    BY <1>1, <1>12, ResetFacts
  <2> DEFINE next == GetSubsequentResetTime(p, resetTime[p])
             b == bind[p]
             t == resetTime[p]
  <2>2. Serving /\ disk' = disk /\ pc' # "load"  BY <1>12 DEF Reset, Serving
  <2>3. next \in Nat /\ next > 0  BY <1>1, <2>1, NextTime
  <2>4. /\ b \in Binds /\ t > 0 /\ Realigned(t) = t /\ LocksInTime(p, b, t)
    <3>1. b \in Binds /\ b = Latest.bind[p] /\ Latest \in StoredImages
      BY <1>1, BindType, LatestType
    <3>2. Latest.reset = resetTime /\ t > 0  BY <2>2 DEF IInv, DatabaseFollows, TimesInv
    <3> QED  BY <1>3, <3>1, <3>2 DEF ImageInTime
  <2>5. t \in Nat \ {0}  BY <2>1, <2>4
  <2>6. DayOf(next) = DayOf(t + Period[p])  BY <1>1, <2>4, <2>5, NextAfterAligned
  <2> HIDE DEF next, b, t
  <2>7. LocksInTime(p, Expire(b), next)
    <3>1. CASE b.state = "extended"
      <4>1. Expire(b).state = "normal" /\ Expire(b).until = b.until
        BY <2>4, <3>1, ExpireEffect DEF Binds
      <4>2. DayOf(t + Period[p]) <= b.until  BY <2>4, <3>1 DEF LocksInTime
      <4> QED  BY <2>3, <2>6, <4>1, <4>2 DEF LocksInTime
    <3>2. CASE b.state # "extended"
      <4>1. Expire(b).state \in {"none", "expired"}  BY <2>4, <3>2, ExpireEffect
      <4> QED  BY <2>3, <4>1 DEF LocksInTime
    <3> QED  BY <3>1, <3>2
  <2> QED  BY <1>11, <2>1, <2>2, <2>3, <2>7 DEF next, b
<1>13. ASSUME NEW p \in Pairs, ForceGlobalReset(p)
       PROVE  /\ \A image \in StoredImages' : ImageInTime(image)
              /\ pc' # "load"
  <2> DEFINE next == GetSubsequentResetTime(p, now)
             kept == Cancel(Cancel(queue, 0, 0), 0, 0)
  <2>1. /\ ResetAll(p, now, Recounted(p), kept)
        /\ now \in Nat /\ Recounted(p) \in Binds /\ kept \in Seq(Events)
    BY <1>1, <1>13, ForceFacts
  <2>2. Serving /\ disk' = disk /\ pc' # "load"  BY <1>13 DEF ForceGlobalReset, Serving
  <2>3. next \in Nat /\ next > 0  BY <1>1, <2>1, NextTime
  <2>4. DayOf(next) \in Nat  BY <2>3, DayOfType
  <2>5. LocksInTime(p, Recounted(p), next)
    <3>1. Expire(bind[p]) \in Binds /\ Expire(bind[p]).state # "extended"
      <4>1. bind[p] \in Binds  BY <1>1, BindType
      <4>2. CASE bind[p].state = "extended"
        <5>1. Expire(bind[p]) = [bind[p] EXCEPT !.state = "normal"]  BY <4>1, <4>2, ExpireEffect
        <5> QED  BY <4>1, <5>1, ExpireEffect DEF Binds
      <4>3. CASE bind[p].state # "extended"
        BY <4>1, <4>3, ExpireEffect
      <4> QED  BY <4>2, <4>3
    <3> HIDE DEF next
    <3>2. CASE Expire(bind[p]).state = "normal"
      <4>1. Recounted(p).state = "normal" /\ Recounted(p).until = DayOf(next)
        BY <3>1, <3>2 DEF Recounted, next, Binds
      <4> QED  BY <2>3, <2>4, <4>1 DEF LocksInTime
    <3>3. CASE Expire(bind[p]).state # "normal"
      BY <2>3, <3>1, <3>3 DEF LocksInTime, Recounted
    <3> QED  BY <3>2, <3>3
  <2> HIDE DEF next, kept
  <2> QED  BY <1>11, <2>1, <2>2, <2>3, <2>5 DEF next
<1>14. ASSUME NEW p \in Pairs, NEW b \in Binds, Store(p, b), disk' = disk, Serving,
              b.state \in {"normal", "extended"},
              b.state = "normal" => b.until = DayOf(resetTime[p]),
              b.state = "extended" => b.until = DayOf(resetTime[p] + Period[p])
       PROVE  \A image \in StoredImages' : ImageInTime(image)
  <2>1. resetTime[p] \in Nat /\ resetTime[p] > 0
    BY <1>1, <1>14 DEF IInv, TimesInv, TypeOK
  <2>2. DayOf(resetTime[p]) \in Nat /\ DayOf(resetTime[p] + Period[p]) \in Nat
    BY <2>1, PeriodIsLater
  <2>3. LocksInTime(p, b, resetTime[p])  BY <1>14, <2>1, <2>2 DEF LocksInTime
  <2> QED  BY <1>2, <1>14, <2>3, StoreLocks
<1>15. ASSUME NEW p \in Pairs, BindToInstance(p)
       PROVE  /\ \A image \in StoredImages' : ImageInTime(image)
              /\ pc' # "load"
  <2>1. Serving /\ pc' # "load"  BY <1>15 DEF BindToInstance, Serving
  <2> QED  BY <1>1, <1>14, <1>15, <2>1, BindFacts
<1>16. ASSUME NEW p \in Pairs, NEW on \in BOOLEAN, SetSavedInstanceExtend(p, on)
       PROVE  /\ \A image \in StoredImages' : ImageInTime(image)
              /\ pc' # "load"
  <2>1. Serving /\ pc' # "load"  BY <1>16 DEF SetSavedInstanceExtend, Serving
  <2> QED  BY <1>1, <1>14, <1>16, <2>1, ExtendFacts
<1> QED
  BY <1>5, <1>6, <1>7, <1>8, <1>9, <1>10, <1>12, <1>13, <1>15, <1>16 DEF Next

-----------------------------------------------------------------------------
(***************************************************************************)
(* The theorems.                                                           *)
(***************************************************************************)
LEMMA Inductive == Spec => []IInv
<1>1. IInv /\ [Next]_vars => IInv'
  BY TypeStep, QueueStep, DatabaseStep, LockStep DEF IInv, QueueInv
<1> QED  BY InitHolds, <1>1, PTL DEF Spec

\* Every variable keeps its type: the stored state of a bind stays an enumerator,
\* and no reset time that LoadResetTimes or a reset computes is negative.
THEOREM TypesAreKept == Spec => []TypeOK
<1>1. IInv => TypeOK  BY DEF IInv
<1> QED  BY Inductive, <1>1, PTL

\* Each pair has exactly one event in the queue, the one that belongs to its
\* reset time, unless the forced reset of some pair has mixed them up.
THEOREM ChainsAreKept == Spec => []OnePending
<1>1. IInv => OnePending  BY DEF IInv
<1> QED  BY Inductive, <1>1, PTL

\* The writes leave the reset times that the process works with in the database.
THEOREM DatabaseIsFollowed == Spec => []DatabaseFollows
<1>1. IInv => DatabaseFollows  BY DEF IInv
<1> QED  BY Inductive, <1>1, PTL

\* No lockout outlives the reset it was granted for, whatever writes a crash loses.
THEOREM LockoutsEnd == Spec => []NoStaleLockout
<1>1. IInv => NoStaleLockout
  <2> SUFFICES ASSUME IInv, Serving, ~moved, NEW p \in Pairs
               PROVE  CASE bind[p].state = "normal" -> DayOf(resetTime[p]) <= bind[p].until
                        [] bind[p].state = "extended" ->
                             DayOf(resetTime[p] + Period[p]) <= bind[p].until
                        [] OTHER -> TRUE
    BY DEF NoStaleLockout
  <2>1. LocksInTime(p, bind[p], resetTime[p])
    <3>1. bind[p] = Latest.bind[p] /\ Latest \in StoredImages
      BY BindType, LatestType DEF IInv
    <3>2. Latest.reset = resetTime  BY DEF IInv, DatabaseFollows
    <3> QED  BY <3>1, <3>2 DEF IInv, LockInv
  <2>2. CASE bind[p].state = "normal"  BY <2>1, <2>2, Zenon DEF LocksInTime
  <2>3. CASE bind[p].state = "extended"  BY <2>1, <2>3, Zenon DEF LocksInTime
  <2>4. CASE bind[p].state \notin {"normal", "extended"}  BY <2>4, Zenon
  <2> QED  BY <2>2, <2>3, <2>4
<1> QED  BY Inductive, <1>1, PTL

\* The event of a pair, and what it tells of the pair's reset time.
LEMMA EventOfPair ==
    ASSUME IInv, Serving, NEW p \in Pairs \ lost
    PROVE  \E i \in 1..Len(queue) :
             /\ queue[i].time \in Int /\ queue[i].type \in 1..4
             /\ queue[i].time = resetTime[p] - Delay[queue[i].type]
             /\ \A j \in 1..Len(queue) : queue[j].pair = p => j = i
<1>1. queue \in Seq(Events) /\ HasOneEvent(p)  BY DEF IInv, TypeOK, OnePending
<1>2. PICK i \in 1..Len(queue) :
        /\ queue[i] = InstResetEvent(p, queue[i].type, resetTime[p])
        /\ \A j \in 1..Len(queue) : queue[j].pair = p => j = i
  BY <1>1 DEF HasOneEvent
<1>3. queue[i].time \in Int /\ queue[i].type \in 1..4
  <2>1. queue[i] \in Events  BY <1>1
  <2> QED  BY <2>1 DEF Events
<1>4. queue[i].time = resetTime[p] - Delay[queue[i].type]  BY <1>2 DEF InstResetEvent
<1> QED  BY <1>2, <1>3, <1>4

\* Update leaves no reset due of a pair that has its event.
THEOREM ResetsAreDone == Spec => UpToDate
<1>1. ASSUME IInv, [Next]_vars
      PROVE  [(pc = "update" /\ pc' = "run")
                => \A p \in Pairs \ lost : resetTime[p] - Minute >= now]_vars
  <2> SUFFICES ASSUME pc = "update", pc' = "run", NEW p \in Pairs \ lost
               PROVE  resetTime[p] - Minute >= now
    OBVIOUS
  <2>1. ~Due
    BY <1>1 DEF Next, vars, LoadInstances, LoadResetTimes, BeginUpdate, EndUpdate, Warn,
       Tick, ExecuteWrite, Restart, Reset, ForceGlobalReset, BindToInstance,
       SetSavedInstanceExtend
  <2>2. PICK i \in 1..Len(queue) :
             /\ queue[i].time \in Int /\ queue[i].type \in 1..4
             /\ queue[i].time = resetTime[p] - Delay[queue[i].type]
    BY <1>1, EventOfPair DEF Serving
  <2>3. queue \in Seq(Events) /\ Sorted(queue) /\ now \in Nat /\ resetTime[p] \in Nat
    BY <1>1 DEF IInv, TypeOK
  <2>4. 1 \in 1..Len(queue) /\ queue # <<>> /\ queue[1].time \in Int
    BY <2>2, <2>3, EventTimes
  <2>5. queue[1].time <= queue[i].time  BY <2>2, <2>3, <2>4 DEF Sorted
  <2>6. ~(queue[1].time < now)  BY <2>1, <2>4 DEF Due
  <2>7. Delay[queue[i].type] \in Nat /\ Minute <= Delay[queue[i].type]
    BY <2>2, DelayType
  <2>8. Minute \in Nat  BY DayIsPositive
  <2> QED  BY <2>2, <2>3, <2>4, <2>5, <2>6, <2>7, <2>8
<1> QED  BY Inductive, <1>1, PTL DEF UpToDate, Spec

\* Update resets no pair that has its own event before a minute before its time.
THEOREM ResetsAreDue == Spec => NeverEarly
<1>1. ASSUME IInv, [Next]_vars
      PROVE  [pc = "update" => \A p \in Pairs \ lost :
                resetTime'[p] # resetTime[p]
                  => resetTime[p] - Minute < now \/ pc' = "boot"]_vars
  <2> SUFFICES ASSUME pc = "update", NEW p \in Pairs \ lost,
                      resetTime'[p] # resetTime[p], pc' # "boot"
               PROVE  resetTime[p] - Minute < now
    OBVIOUS
  <2>1. Reset
    BY <1>1 DEF Next, vars, LoadInstances, LoadResetTimes, BeginUpdate, EndUpdate, Warn,
       Tick, ExecuteWrite, Restart, ForceGlobalReset, BindToInstance,
       SetSavedInstanceExtend
  <2>2. PICK r \in Pairs :
          /\ ResetAll(r, resetTime[r], Expire(bind[r]), Tail(queue))
          /\ r = queue[1].pair
    BY <1>1, <2>1, ResetFacts DEF IInv
  <2>3. r = p
    BY <1>1, <2>2 DEF ResetAll, IInv, TypeOK
  <2>4. PICK i \in 1..Len(queue) :
             /\ queue[i].time = resetTime[p] - Delay[queue[i].type]
             /\ \A j \in 1..Len(queue) : queue[j].pair = p => j = i
    BY <1>1, EventOfPair DEF Serving
  <2>5. queue # <<>> /\ queue[1].time < now /\ queue[1].type = 4
    BY <2>1 DEF Reset, Due
  <2>6. 1 \in 1..Len(queue)  BY <1>1, <2>4, <2>5 DEF IInv, TypeOK
  <2>7. i = 1  BY <2>2, <2>3, <2>4, <2>6
  <2>8. Delay[4] = Minute  BY GlobalResetAssumption DEF GlobalResetAssumption
  <2> QED  BY <2>4, <2>5, <2>7, <2>8
<1> QED  BY Inductive, <1>1, PTL DEF NeverEarly, Spec

=============================================================================
