-------------------------- MODULE InstanceIdsProofs --------------------------
(***************************************************************************)
(* Proofs about InstanceIds, for any block and word sizes and any number   *)
(* of threads: ids are unique except at block boundaries, and with frees   *)
(* that do not overlap the next id is the lowest.                          *)
(***************************************************************************)
EXTENDS InstanceIds, TLAPS

\* The vector holds every id handed out, or ends just before it.
SizeInv ==
    /\ size % Block = 0 /\ capacity % Block = 0 /\ size <= capacity
    /\ next \in 1..size + 1
    /\ held \subseteq 1..size

\* A thread frees an id that no instance has any more; the word it has read
\* has every mark of the existing instances but those that may be missing.
FreeInv ==
    \A t \in Threads :
        /\ pc[t] # "idle" => freeing[t] \in 1..size /\ freeing[t] \notin held
        /\ pc[t] = "writeWord" =>
             \A id \in held :
                id % Block # 0 /\ id \div Word = freeing[t] \div Word => id \in word[t]

IInv == TypeOK /\ SizeInv /\ MarksAreKept /\ NextIsFreeOffBlocks /\ FreeInv

-----------------------------------------------------------------------------
(***************************************************************************)
(* Lemmas about multiples and about RoundUp.                               *)
(***************************************************************************)
\* Division with remainder.
LEMMA DivMod ==
    ASSUME NEW n \in Int, NEW u \in Int, u > 0
    PROVE  n = u * (n \div u) + (n % u)
  BY Z3

\* A multiple has no remainder.
LEMMA Multiples ==
    ASSUME NEW k \in Nat, NEW u \in Nat \ {0}
    PROVE  (u * k) % u = 0
<1>1. (k * u) % u = 0  OBVIOUS
<1>2. k * u = u * k  OBVIOUS
<1> QED  BY <1>1, <1>2

\* A multiple of a multiple of v is a multiple of v.
LEMMA MultipleOfMultiple ==
    ASSUME NEW n \in Nat, NEW u \in Nat \ {0}, NEW v \in Nat \ {0}, n % u = 0, u % v = 0
    PROVE  n % v = 0
<1> DEFINE p == n \div u  q == u \div v
<1>1. p \in Nat /\ q \in Nat  OBVIOUS
<1>2. n = u * p /\ u = v * q  BY DivMod
<1>3. n = v * (q * p)  BY <1>1, <1>2
<1>4. q * p \in Nat  BY <1>1
<1> HIDE DEF p, q
<1> QED  BY <1>3, <1>4, Multiples

\* Two different multiples of v are at least v apart.
LEMMA MultiplesApart ==
    ASSUME NEW n \in Nat, NEW m \in Nat, NEW v \in Nat \ {0}, n % v = 0, m % v = 0, n < m
    PROVE  n + v <= m
<1> DEFINE p == n \div v  q == m \div v
<1>1. p \in Nat /\ q \in Nat  OBVIOUS
<1>2. n = v * p /\ m = v * q  BY DivMod
<1> HIDE DEF p, q
<1>3. p < q  BY <1>1, <1>2
<1>4. v * (p + 1) <= v * q  BY <1>1, <1>3
<1> QED  BY <1>1, <1>2, <1>4

\* RoundUp returns a multiple of the unit, the argument or something above it.
LEMMA RoundUpEffect ==
    ASSUME NEW n \in Nat, NEW u \in Nat \ {0}
    PROVE  /\ RoundUp(n, u) \in Nat
           /\ RoundUp(n, u) >= n
           /\ n % u # 0 => RoundUp(n, u) > n
           /\ RoundUp(n, u) % u = 0
<1> DEFINE p == n \div u
<1>1. p \in Nat /\ n % u \in Nat /\ n % u < u  OBVIOUS
<1>2. n = u * p + (n % u)  BY DivMod
<1>3. RoundUp(n, u) = IF n % u > 0 THEN u * (p + 1) ELSE u * p
  BY <1>1 DEF RoundUp
<1> HIDE DEF p
<1>4. (u * p) % u = 0 /\ (u * (p + 1)) % u = 0  BY <1>1, Multiples
<1>5. u * (p + 1) = u * p + u /\ u * p \in Nat  BY <1>1
<1> QED  BY <1>1, <1>2, <1>3, <1>4, <1>5

\* Blocks and words of the id vector.
LEMMA BlockFacts ==
    /\ Block \in Nat \ {0} /\ Word \in Nat \ {0} /\ Word % Block = 0
    /\ \A n \in Nat : RoundUp(n, Word) \in Nat /\ RoundUp(n, Word) >= n /\ RoundUp(n, Word) % Block = 0
    /\ 0 % Block = 0
<1>1. Block \in Nat \ {0} /\ Word \in Nat \ {0} /\ Word % Block = 0  BY IdsAssumption DEF IdsAssumption
<1>2. \A n \in Nat : RoundUp(n, Word) \in Nat /\ RoundUp(n, Word) >= n /\ RoundUp(n, Word) % Word = 0
  BY <1>1, RoundUpEffect
<1>3. \A n \in Nat : RoundUp(n, Word) % Block = 0
  BY <1>1, <1>2, MultipleOfMultiple
<1>4. 0 % Block = 0  BY <1>1
<1> QED  BY <1>1, <1>2, <1>3, <1>4

-----------------------------------------------------------------------------
(***************************************************************************)
(* The inductive invariant.                                                *)
(***************************************************************************)
\* No instance exists yet.
LEMMA InitHolds == Init => IInv
<1> SUFFICES ASSUME Init PROVE IInv
  OBVIOUS
<1>1. TypeOK  BY DEF Init, TypeOK
<1>2. SizeInv  BY BlockFacts DEF Init, SizeInv
<1> QED  BY <1>1, <1>2 DEF Init, IInv, MarksAreKept, NextIsFreeOffBlocks, FreeInv

\* After a restart only the highest id can be without a mark.
LEMMA RestartStep ==
    ASSUME IInv, NEW db \in SUBSET held, NEW maxId \in db \cup {0}, Restart(db, maxId)
    PROVE  IInv'
<1> USE DEF IInv, TypeOK, SizeInv
<1>1. db \subseteq Nat \ {0} /\ maxId \in Nat  OBVIOUS
<1>2. /\ size' \in Nat /\ size' >= maxId /\ size' % Block = 0
      /\ maxId % Block # 0 => size' > maxId
  BY <1>1, BlockFacts, RoundUpEffect DEF Restart
<1>3. capacity' \in Nat /\ capacity' >= size' /\ capacity' % Block = 0
  BY <1>2, BlockFacts DEF Restart
<1>4. TypeOK'
  <2>1. next' \in 1..maxId + 1 /\ held' = db /\ used' \subseteq db
    BY DEF Restart
  <2>2. UNCHANGED <<pc, freeing, word>> /\ raced' = FALSE  BY DEF Restart, frees
  <2>3. next' \in Nat /\ held' \subseteq Nat /\ used' \subseteq Nat  BY <1>1, <2>1
  <2>4. pc' \in [Threads -> {"idle", "setNext", "readWord", "writeWord"}]
        /\ freeing' \in [Threads -> Nat \cup {NoId}] /\ word' \in [Threads -> SUBSET Nat]
    BY <2>2
  <2> HIDE DEF IInv, SizeInv
  <2> QED  BY <1>2, <1>3, <2>2, <2>3, <2>4
<1>5. SizeInv'  BY <1>1, <1>2, <1>3 DEF Restart
<1>6. MarksAreKept'  BY <1>1, <1>2 DEF Restart, MarksAreKept
<1>7. NextIsFreeOffBlocks'  BY DEF Restart, NextIsFreeOffBlocks
<1>8. FreeInv'  BY DEF Restart, FreeInv, frees, Idle
<1> QED  BY <1>4, <1>5, <1>6, <1>7, <1>8

\* The vector grows enough for every id but a multiple of Block.
LEMMA GenerateStep ==
    ASSUME IInv, GenerateInstanceId
    PROVE  IInv'
<1>0. /\ next \in Nat /\ size \in Nat /\ capacity \in Nat /\ next >= 1 /\ next <= size + 1
      /\ size % Block = 0 /\ capacity % Block = 0 /\ size <= capacity
      /\ used \subseteq Nat /\ held \subseteq 1..size
  BY DEF IInv, TypeOK, SizeInv
<1>1. /\ size' \in Nat /\ size' >= size /\ size' >= next /\ size' % Block = 0
      /\ next % Block # 0 => size' > next
      /\ capacity' \in Nat /\ capacity' >= size' /\ capacity' % Block = 0
  <2>1. CASE next < size /\ UNCHANGED <<size, capacity>>
    BY <1>0, <2>1
  <2>2. CASE next >= size /\ size < capacity /\ Resize(capacity)
    <3>1. size + Block <= capacity  BY <1>0, <2>2, BlockFacts, MultiplesApart
    <3>2. next = size \/ next = size + 1  BY <1>0, <2>2
    <3>3. next = size => next % Block = 0  BY <1>0
    <3>4. Block = 1 => next % Block = 0  BY <1>0
    <3> QED  BY <1>0, <2>2, <3>1, <3>2, <3>3, <3>4, BlockFacts DEF Resize
  <2>3. CASE next >= size /\ size >= capacity /\ Resize(RoundUp(next, Block))
    <3>1. next \in Nat /\ 2 * size \in Nat  BY <1>0
    <3>2. /\ RoundUp(next, Block) \in Nat /\ RoundUp(next, Block) >= next
          /\ RoundUp(next, Block) % Block = 0
          /\ next % Block # 0 => RoundUp(next, Block) > next
      BY <3>1, BlockFacts, RoundUpEffect
    <3> DEFINE n == RoundUp(next, Block)
               m == IF n < 2 * size THEN 2 * size ELSE n
    <3>3. m \in Nat /\ m >= n  BY <3>1, <3>2
    <3>4. RoundUp(m, Word) \in Nat /\ RoundUp(m, Word) >= m /\ RoundUp(m, Word) % Block = 0
      BY <3>3, BlockFacts
    <3>5. size' = n /\ capacity' = (IF n <= capacity THEN capacity ELSE RoundUp(m, Word))
      BY <2>3 DEF Resize
    <3> HIDE DEF n, m
    <3>6. n \in Nat /\ n >= next /\ n % Block = 0 /\ (next % Block # 0 => n > next)
      BY <3>2 DEF n
    <3> QED  BY <1>0, <2>3, <3>3, <3>4, <3>5, <3>6
  <2> QED  BY <2>1, <2>2, <2>3 DEF GenerateInstanceId
<1>2. /\ next' \in next + 1..size + 2
      /\ ~(next' < size /\ next' \in used)
      /\ \A j \in next + 1..next' - 1 : j < size /\ j \in used
  BY DEF GenerateInstanceId, Following
<1>3. PICK n \in Nat, m \in Nat : n = next' /\ m = size'
  BY <1>0, <1>1, <1>2
<1>a. /\ next \in Nat /\ next >= 1 /\ size \in Nat /\ held \subseteq 1..size
      /\ m >= size /\ m >= next
      /\ n \in next + 1..size + 2
      /\ \A j \in next + 1..n - 1 : j < size
  BY <1>0, <1>1, <1>2, <1>3
<1>b. n <= m + 1
  <2>1. CASE n = next + 1  BY <1>a, <2>1
  <2>2. CASE n # next + 1
    <3>1. n - 1 \in next + 1..n - 1  BY <1>a, <2>2
    <3> QED  BY <1>a, <3>1
  <2> QED  BY <2>1, <2>2
<1>4. /\ held' = held \cup {next} /\ UNCHANGED <<frees, raced>>
      /\ used' = IF next < size' THEN used \cup {next} ELSE used
  BY DEF GenerateInstanceId
<1>5. TypeOK'
  <2>1. next' \in Nat /\ used' \subseteq Nat /\ held' \subseteq Nat  BY <1>0, <1>2, <1>4
  <2> QED  BY <1>1, <1>4, <2>1 DEF frees, IInv, TypeOK
<1>6. SizeInv'
  <2>1. n \in 1..m + 1  BY <1>a, <1>b
  <2>2. held \cup {next} \subseteq 1..m  BY <1>a
  <2>3. next' \in 1..size' + 1  BY <1>3, <2>1, Zenon
  <2>4. held' \subseteq 1..size'  BY <1>3, <1>4, <2>2, Zenon
  <2> QED  BY <1>1, <2>3, <2>4 DEF SizeInv
<1>7. MarksAreKept'  BY <1>0, <1>1, <1>4 DEF IInv, MarksAreKept
<1>8. NextIsFreeOffBlocks'
  <2> SUFFICES ASSUME next' \in held' PROVE next' % Block = 0
    BY DEF NextIsFreeOffBlocks
  <2>1. next' \in held  BY <1>0, <1>2, <1>4
  <2>2. CASE next' < size  BY <1>2, <2>1, <2>2 DEF IInv, MarksAreKept
  <2>3. CASE next' >= size
    <3>1. next' = size  BY <1>0, <2>1, <2>3
    <3> QED  BY <1>0, <3>1
  <2> QED  BY <1>0, <1>2, <2>2, <2>3
<1>9. FreeInv'
  BY <1>4 DEF GenerateInstanceId, FreeInv, frees, Idle
<1> QED  BY <1>5, <1>6, <1>7, <1>8, <1>9 DEF IInv

\* Frees that interleave lose clears, never the mark of an existing instance.
LEMMA FreeStep ==
    ASSUME IInv, NEW t \in Threads, FreeInstanceId(t)
    PROVE  IInv'
<1> USE DEF IInv, TypeOK, SizeInv, storage
<1>1. ASSUME NEW id \in held, Compare(t, id) PROVE IInv'
  <2>1. TypeOK' /\ SizeInv' /\ MarksAreKept' /\ NextIsFreeOffBlocks'
    BY <1>1 DEF Compare, MarksAreKept, NextIsFreeOffBlocks
  <2>2. FreeInv'  BY <1>1 DEF Compare, FreeInv
  <2> QED  BY <2>1, <2>2
<1>2. CASE SetNextInstanceId(t)
  BY <1>2 DEF SetNextInstanceId, FreeInv, MarksAreKept, NextIsFreeOffBlocks
<1>3. CASE ReadWord(t)
  <2>1. TypeOK' /\ SizeInv' /\ MarksAreKept' /\ NextIsFreeOffBlocks'
    BY <1>3 DEF ReadWord, WordOf, MarksAreKept, NextIsFreeOffBlocks
  <2>2. FreeInv'  BY <1>3 DEF ReadWord, WordOf, FreeInv, MarksAreKept
  <2> QED  BY <2>1, <2>2
<1>4. CASE WriteWord(t)
  <2>1. TypeOK' /\ SizeInv' /\ NextIsFreeOffBlocks'
    BY <1>4 DEF WriteWord, NextIsFreeOffBlocks
  <2>2. MarksAreKept'  BY <1>4 DEF WriteWord, WordOf, FreeInv, MarksAreKept
  <2>3. FreeInv'  BY <1>4 DEF WriteWord, FreeInv
  <2> QED  BY <2>1, <2>2, <2>3
<1> QED  BY <1>1, <1>2, <1>3, <1>4 DEF FreeInstanceId

\* Every step keeps the invariant.
LEMMA StepHolds == IInv /\ [Next]_vars => IInv'
<1> SUFFICES ASSUME IInv, [Next]_vars PROVE IInv'
  OBVIOUS
<1>1. CASE UNCHANGED vars
  BY <1>1 DEF vars, storage, frees, IInv, TypeOK, SizeInv, MarksAreKept, NextIsFreeOffBlocks, FreeInv
<1> QED  BY <1>1, RestartStep, GenerateStep, FreeStep DEF Next

\* Every variable keeps its type.
THEOREM TypeCorrect == Spec => []TypeOK
<1>1. IInv => TypeOK  BY DEF IInv
<1> QED  BY <1>1, InitHolds, StepHolds, PTL DEF Spec

\* An instance whose id is no multiple of Block keeps its mark, however many
\* threads free the ids of its word together.
THEOREM MarksStay == Spec => []MarksAreKept
<1>1. IInv => MarksAreKept  BY DEF IInv
<1> QED  BY <1>1, InitHolds, StepHolds, PTL DEF Spec

\* So no id but a multiple of Block is ever given to two instances at a time.
THEOREM UniqueOffBlocks == Spec => []NextIsFreeOffBlocks
<1>1. IInv => NextIsFreeOffBlocks  BY DEF IInv
<1> QED  BY <1>1, InitHolds, StepHolds, PTL DEF Spec

-----------------------------------------------------------------------------
(***************************************************************************)
(* As long as no two frees overlap.                                        *)
(***************************************************************************)

\* At most one thread is in FreeInstanceId, and the id it frees is the only one
\* that may be marked without being held, or lie below next without being held.
Serial ==
    /\ \A t, u \in Threads : pc[t] # "idle" /\ pc[u] # "idle" => t = u
    /\ \A i \in used : i \in held \/ \E t \in Threads : pc[t] # "idle" /\ freeing[t] = i
    /\ \A i \in 1..next - 1 : i \in held \/ \E t \in Threads : pc[t] = "setNext" /\ freeing[t] = i
    /\ \A t \in Threads : pc[t] = "setNext" => freeing[t] < next
    /\ \A t \in Threads : pc[t] = "writeWord" => word[t] = WordOf(freeing[t])

SerialInv == ~raced => Serial

\* A restart comes when no id is being freed.
LEMMA SerialRestart ==
    ASSUME IInv, NEW db \in SUBSET held, NEW maxId \in db \cup {0}, Restart(db, maxId)
    PROVE  Serial'
  BY DEF Restart, Idle, IInv, TypeOK, Serial, frees

\* A generated id is followed by the lowest one that is not held.
LEMMA SerialGenerate ==
    ASSUME IInv, IInv', Serial, GenerateInstanceId
    PROVE  Serial'
<1> USE DEF IInv, TypeOK, storage, frees
<1>1. Idle /\ used' \subseteq used \cup {next} /\ held' = held \cup {next} /\ UNCHANGED frees
  BY DEF GenerateInstanceId
<1>2. used \subseteq held /\ \A i \in 1..next - 1 : i \in held
  BY <1>1 DEF Idle, Serial
<1>3. /\ next' \in next + 1..size + 2
      /\ \A j \in next + 1..next' - 1 : j \in used
  BY DEF GenerateInstanceId, Following
<1>4. PICK n \in Nat : n = next'  OBVIOUS
<1>5. \A j \in next + 1..n - 1 : j \in used  BY <1>3, <1>4, Zenon
<1>6. \A i \in 1..n - 1 : i \in held \cup {next}
  <2> SUFFICES ASSUME NEW i \in 1..n - 1 PROVE i \in held \cup {next}
    OBVIOUS
  <2>1. CASE i < next  BY <1>2, <2>1
  <2>2. CASE i > next  BY <1>2, <1>5, <2>2
  <2> QED  BY <2>1, <2>2
<1>7. \A i \in 1..next' - 1 : i \in held'  BY <1>1, <1>4, <1>6, Zenon
<1> QED  BY <1>1, <1>2, <1>7 DEF Idle, Serial

\* A free that begins alone stays the only one.
LEMMA SerialFree ==
    ASSUME IInv, IInv', Serial, ~raced', NEW t \in Threads, FreeInstanceId(t)
    PROVE  Serial'
<1> USE DEF IInv, TypeOK, Serial, storage
<1>1. ASSUME NEW id \in held, Compare(t, id) PROVE Serial'
  <2>1. Idle  BY <1>1 DEF Compare
  <2> QED  BY <1>1, <2>1 DEF Compare, Idle
<1>2. CASE SetNextInstanceId(t)
  <2>1. PICK f \in Nat : f = freeing[t] /\ f = next' /\ f < next
    BY <1>2 DEF SetNextInstanceId, FreeInv, SizeInv
  <2>2. \A i \in 1..f - 1 : i \in held  BY <1>2, <2>1 DEF SetNextInstanceId
  <2>3. \A i \in 1..next' - 1 : i \in held  BY <2>1, <2>2, Zenon
  <2> QED  BY <1>2, <2>3 DEF SetNextInstanceId, WordOf
<1>3. CASE ReadWord(t)  BY <1>3 DEF ReadWord, WordOf
<1>4. CASE WriteWord(t)  BY <1>4 DEF WriteWord, WordOf
<1> QED  BY <1>1, <1>2, <1>3, <1>4 DEF FreeInstanceId

\* A step keeps Serial as long as the frees do not overlap.
LEMMA SerialStep ==
    ASSUME IInv, IInv', SerialInv, [Next]_vars
    PROVE  SerialInv'
<1>1. CASE UNCHANGED vars
  BY <1>1 DEF vars, storage, frees, SerialInv, Serial, WordOf
<1>2. ASSUME NEW db \in SUBSET held, NEW maxId \in db \cup {0}, Restart(db, maxId) PROVE SerialInv'
  BY <1>2, SerialRestart DEF SerialInv
<1>3. CASE GenerateInstanceId
  <2>1. raced' = raced  BY <1>3 DEF GenerateInstanceId
  <2> QED  BY <1>3, <2>1, SerialGenerate DEF SerialInv
<1>4. ASSUME NEW t \in Threads, FreeInstanceId(t) PROVE SerialInv'
  <2>1. ~raced' => ~raced
    BY <1>4 DEF FreeInstanceId, Compare, SetNextInstanceId, ReadWord, WriteWord
  <2> QED  BY <1>4, <2>1, SerialFree DEF SerialInv
<1> QED  BY <1>1, <1>2, <1>3, <1>4 DEF Next

\* Serial holds as long as no two frees have overlapped.
LEMMA SerialHolds == Spec => []SerialInv
<1>1. Init => SerialInv  BY DEF Init, SerialInv, Serial
<1>2. IInv /\ IInv' /\ SerialInv /\ [Next]_vars => SerialInv'  BY SerialStep
<1> QED  BY <1>1, <1>2, InitHolds, StepHolds, PTL DEF Spec

\* Until two frees overlap, the next id is the lowest one.
THEOREM SerialLowest == Spec => []NextIsLowest
<1>1. SerialInv => NextIsLowest
  BY DEF SerialInv, Serial, NextIsLowest, Idle
<1> QED  BY <1>1, SerialHolds, PTL

\* Until two frees overlap, a freed id can be handed out again.
THEOREM FreedAreReusable == Spec => []FreedIsReusable
<1>1. SerialInv => FreedIsReusable
  BY DEF SerialInv, Serial, FreedIsReusable, Idle
<1> QED  BY <1>1, SerialHolds, PTL
=============================================================================
