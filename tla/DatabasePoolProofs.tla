------------------------- MODULE DatabasePoolProofs -------------------------
(***************************************************************************)
(* Proofs about DatabasePool, for any numbers of workers and of direct     *)
(* connections, any rows and operations: types, no operation is lost, the  *)
(* pool implements AtomicStore, and what that says of the order of writes. *)
(***************************************************************************)
EXTENDS DatabasePool, FiniteSetTheorems, TLAPS

Operation == [keys : Seq(Keys), transaction : BOOLEAN, direct : BOOLEAN]
Connection ==
    [op : 0..MaxOps, pc : {"idle", "popped", "run", "wait", "gone"},
     at : Nat, tries : 0..LoopBreaker, tx : BOOLEAN, writes : SUBSET Keys]

\* What the connection c may be at, with the operations o and the struck ones s:
\* without an operation it has no transaction, in MySQL's transaction it has
\* locked the rows of the statements before at, and a transaction without one
\* of MySQL's has lost its connection.
At(c, r, o, s) ==
    /\ r \in Connection
    /\ r.pc \in {"idle", "gone"} => r.op = None
    /\ r.pc \notin {"idle", "gone"} => r.op \in 1..Len(o)
    /\ c \in Directs => r.pc \in {"idle", "run", "gone"}
    /\ r.op # None => (o[r.op].direct <=> c \in Directs)
    /\ ~r.tx => r.writes = {}
    /\ r.tx => /\ r.pc = "run" /\ o[r.op].transaction
               /\ r.writes = {o[r.op].keys[k] : k \in 1..r.at - 1}
    /\ r.pc = "run" => /\ r.at \in 1..Len(o[r.op].keys) + 1
                       /\ o[r.op].transaction \/ r.at = 1
                       /\ o[r.op].transaction /\ ~r.tx => r.op \in s
    /\ r.pc = "wait" => o[r.op].transaction /\ r.at = 1

\* Each connection is at an operation of its own, and behaves.
ConnInv ==
    /\ \A c \in Conns : At(c, conn[c], ops, struck)
    /\ \A c, d \in Conns : conn[c].op = conn[d].op => c = d \/ conn[c].op = None

\* The queue is in the order of submission, and so are the pops.
QueueInv ==
    /\ \A k \in 1..Len(queue) : queue[k] \in 1..Len(ops) /\ ~ops[queue[k]].direct
    /\ \A j, k \in 1..Len(queue) : j < k => queue[j] < queue[k]
    /\ \A w \in Workers : \A k \in 1..Len(queue) : conn[w].op < queue[k]

\* Each lost connection was counted.
CountInv == IsFiniteSet(struck) /\ Cardinality(struck) <= faults

IInv == TypeOK /\ ConnInv /\ QueueInv /\ CountInv /\ OnlyRefusedAreLost

-----------------------------------------------------------------------------
(***************************************************************************)
(* Lemmas about the constants, types and rows.                             *)
(***************************************************************************)
\* The types of the constants.
LEMMA ConstantTypes ==
    /\ IsFiniteSet(Workers) /\ Cardinality(Workers) \in Nat /\ Workers = 1..Cardinality(Workers)
    /\ Workers \subseteq Nat \ {0} /\ Directs \subseteq Nat \ {0} /\ Directs \cap Workers = {}
    /\ Operations \subseteq Operation /\ \A op \in Operations : op.transaction \/ Len(op.keys) <= 1
    /\ LoopBreaker \in Nat \ {0} /\ MaxOps \in Nat /\ MaxFaults \in Nat
    /\ None = 0
<1>1. Cardinality(Workers) \in Nat  BY PoolAssumption, FS_CardinalityType DEF PoolAssumption
<1>2. Workers \subseteq Nat \ {0}  BY <1>1, PoolAssumption DEF PoolAssumption
<1> QED  BY <1>1, <1>2, PoolAssumption DEF PoolAssumption, Operation, None

\* An operation is a record, and only a transaction has several statements.
LEMMA OperationTypes ==
    ASSUME TypeOK
    PROVE  /\ ops \in Seq(Operation) /\ Len(ops) \in 0..MaxOps
           /\ \A n \in 1..Len(ops) :
                /\ ops[n] \in Operation
                /\ ops[n].keys \in Seq(Keys) /\ Len(ops[n].keys) \in Nat
                /\ ops[n].transaction \in BOOLEAN /\ ops[n].direct \in BOOLEAN
                /\ ops[n].transaction \/ Len(ops[n].keys) <= 1
<1>1. ops \in Seq(Operations) /\ Len(ops) \in Nat /\ Len(ops) <= MaxOps  BY DEF TypeOK
<1>2. Operations \subseteq Operation  BY ConstantTypes
<1>3. ops \in Seq(Operation)  BY <1>1, <1>2
<1>4. \A n \in 1..Len(ops) : ops[n] \in Operations  BY <1>1
<1>5. Len(ops) \in 0..MaxOps  BY <1>1, ConstantTypes
<1> SUFFICES ASSUME NEW n \in 1..Len(ops)
             PROVE  /\ ops[n] \in Operation
                    /\ ops[n].keys \in Seq(Keys) /\ Len(ops[n].keys) \in Nat
                    /\ ops[n].transaction \in BOOLEAN /\ ops[n].direct \in BOOLEAN
                    /\ ops[n].transaction \/ Len(ops[n].keys) <= 1
  BY <1>3, <1>5
<1>6. ops[n] \in Operations /\ ops[n] \in Operation  BY <1>2, <1>4
<1>7. ops[n].keys \in Seq(Keys) /\ ops[n].transaction \in BOOLEAN /\ ops[n].direct \in BOOLEAN
  BY <1>6 DEF Operation
<1>8. Len(ops[n].keys) \in Nat  BY <1>7
<1> QED  BY <1>6, <1>7, <1>8, ConstantTypes

\* The rows of a sequence of statements.
LEMMA RangeIsElements ==
    ASSUME NEW S, NEW q \in Seq(S)
    PROVE  Range(q) = {q[k] : k \in 1..Len(q)}
  BY DEF Range

\* Appending to a sequence of numbers adds one to its range.
LEMMA AppendRange ==
    \A q \in Seq(1..MaxOps), e \in 1..MaxOps :
      Append(q, e) \in Seq(1..MaxOps) /\ Range(Append(q, e)) = Range(q) \cup {e}
<1> SUFFICES ASSUME NEW q \in Seq(1..MaxOps), NEW e \in 1..MaxOps
             PROVE  Append(q, e) \in Seq(1..MaxOps) /\ Range(Append(q, e)) = Range(q) \cup {e}
  OBVIOUS
<1>1. /\ Append(q, e) \in Seq(1..MaxOps) /\ Len(q) \in Nat /\ Len(Append(q, e)) = Len(q) + 1
      /\ Append(q, e)[Len(q) + 1] = e
      /\ \A k \in 1..Len(q) : Append(q, e)[k] = q[k]
  OBVIOUS
<1>2. Range(q) = {q[k] : k \in 1..Len(q)}  BY RangeIsElements
<1>3. Range(Append(q, e)) = {Append(q, e)[k] : k \in 1..Len(q) + 1}  BY <1>1, RangeIsElements
<1>4. 1..Len(q) + 1 = 1..Len(q) \cup {Len(q) + 1}  BY <1>1
<1> QED  BY <1>1, <1>2, <1>3, <1>4

\* What Written does to the rows.
LEMMA WrittenEffect ==
    ASSUME TypeOK, NEW keys, NEW n \in 1..MaxOps
    PROVE  /\ Written(keys, n) \in [Keys -> Seq(1..MaxOps)]
           /\ \A k \in Keys : Range(rows[k]) \subseteq Range(Written(keys, n)[k])
           /\ \A k \in Keys \cap keys : n \in Range(Written(keys, n)[k])
<1>1. \A k \in Keys : rows[k] \in Seq(1..MaxOps)  BY DEF TypeOK
<1>2. \A k \in Keys : Written(keys, n)[k] = IF k \in keys THEN Append(rows[k], n) ELSE rows[k]
  BY DEF Written
<1>3. \A k \in Keys : /\ Append(rows[k], n) \in Seq(1..MaxOps)
                      /\ Range(Append(rows[k], n)) = Range(rows[k]) \cup {n}
  BY <1>1, AppendRange
<1>4. \A k \in Keys : Written(keys, n)[k] \in Seq(1..MaxOps)  BY <1>1, <1>2, <1>3
<1>5. Written(keys, n) \in [Keys -> Seq(1..MaxOps)]  BY <1>4 DEF Written
<1> QED  BY <1>2, <1>3, <1>5

\* A connection stays what it may be when operations are added or struck.
LEMMA AtKept ==
    ASSUME NEW c, NEW r, NEW o \in Seq(Operation), NEW s, NEW o2 \in Seq(Operation), NEW s2,
           s \subseteq s2, Len(o) <= Len(o2), \A n \in 1..Len(o) : o2[n] = o[n],
           At(c, r, o, s)
    PROVE  At(c, r, o2, s2)
<1>1. Len(o) \in Nat /\ Len(o2) \in Nat /\ 1..Len(o) \subseteq 1..Len(o2)  OBVIOUS
<1>2. r \in Connection  BY DEF At
<1>3. CASE r.op \in 1..Len(o)
  <2>1. o2[r.op] = o[r.op] /\ r.op \in 1..Len(o2)  BY <1>1, <1>3
  <2> QED  BY <2>1 DEF At
<1>4. CASE r.op \notin 1..Len(o)
  <2>1. r.pc \in {"idle", "gone"} /\ r.op = None /\ ~r.tx  BY <1>4 DEF At
  <2> QED  BY <2>1 DEF At
<1> QED  BY <1>3, <1>4

-----------------------------------------------------------------------------
(***************************************************************************)
(* The step of one connection.                                             *)
(***************************************************************************)
\* The operation leaves the pool with its connection, or stays.
LEMMA PoolEffect ==
    ASSUME IInv, NEW c \in Conns, NEW r, conn' = [conn EXCEPT ![c] = r], UNCHANGED queue,
           r.op \in {None, conn[c].op}
    PROVE  /\ r.op = conn[c].op => InPool' = InPool
           /\ r.op = None => InPool' = InPool \ {conn[c].op}
<1>1. TypeOK /\ ConnInv /\ QueueInv  BY DEF IInv
<1>2. queue \in Seq(1..MaxOps)  BY <1>1 DEF TypeOK
<1>3. Range(queue) = {queue[k] : k \in 1..Len(queue)}  BY <1>2, RangeIsElements
<1>4. /\ conn'[c] = r /\ \A d \in Conns \ {c} : conn'[d] = conn[d]
  BY <1>1 DEF TypeOK
<1>5. CASE r.op = conn[c].op
  <2>1. \A d \in Conns : conn'[d].op = conn[d].op  BY <1>4, <1>5
  <2> QED  BY <1>5, <2>1 DEF InPool
<1>6. CASE r.op = None
  <2>1. ASSUME conn[c].op # None PROVE conn[c].op \notin Range(queue)
    <3>1. CASE c \in Workers
      <4>1. \A k \in 1..Len(queue) : conn[c].op < queue[k]  BY <1>1, <3>1 DEF QueueInv
      <4>2. conn[c].op \in Int  BY <1>1 DEF TypeOK
      <4> QED  BY <1>3, <4>1, <4>2
    <3>2. CASE c \in Directs
      <4>1. ops[conn[c].op].direct  BY <1>1, <2>1, <3>2 DEF ConnInv, At
      <4> QED  BY <1>1, <1>3, <4>1 DEF QueueInv
    <3> QED  BY <3>1, <3>2 DEF Conns
  <2>2. \A d \in Conns \ {c} : conn[d].op # conn[c].op \/ conn[d].op = None
    BY <1>1 DEF ConnInv
  <2>3. InPool' = (Range(queue) \cup {conn'[d].op : d \in Conns}) \ {None}
    BY DEF InPool
  <2>4. ASSUME NEW n \in InPool' PROVE n \in InPool \ {conn[c].op}
    BY <1>4, <1>6, <2>1, <2>2, <2>3, <2>4 DEF InPool
  <2>5. ASSUME NEW n \in InPool, n # conn[c].op PROVE n \in InPool'
    <3>1. CASE n \in Range(queue)  BY <2>3, <3>1, <2>5 DEF InPool
    <3>2. CASE \E d \in Conns \ {c} : n = conn[d].op  BY <1>4, <2>3, <2>5, <3>2 DEF InPool
    <3> QED  BY <2>5, <3>1, <3>2 DEF InPool
  <2> QED  BY <1>6, <2>4, <2>5 DEF InPool
<1> QED  BY <1>5, <1>6

\* What a step of one connection has to show for the invariant.
LEMMA ConnStep ==
    ASSUME IInv, NEW c \in Conns, NEW r, conn' = [conn EXCEPT ![c] = r],
           At(c, r, ops, struck'), r.op \in {None, conn[c].op},
           UNCHANGED <<ops, queue, closed>>,
           deadlockLock' \in Workers \cup {None}, rows' \in [Keys -> Seq(1..MaxOps)],
           \A k \in Keys : Range(rows[k]) \subseteq Range(rows'[k]),
           faults' \in 0..MaxFaults, CountInv',
           struck \subseteq struck', struck' \subseteq 1..MaxOps,
           failed \subseteq failed', failed' \subseteq 1..MaxOps,
           closed = 0 /\ r.op # conn[c].op =>
             \/ conn[c].op \in failed' \cup struck'
             \/ \A k \in Range(ops[conn[c].op].keys) : conn[c].op \in Range(rows'[k])
    PROVE  IInv'
<1>1. TypeOK /\ ConnInv /\ QueueInv /\ OnlyRefusedAreLost  BY DEF IInv
<1>2. r \in Connection  BY DEF At
<1>3. /\ conn'[c] = r /\ \A d \in Conns \ {c} : conn'[d] = conn[d]
      /\ conn' \in [Conns -> Connection]
  BY <1>1, <1>2 DEF TypeOK, Connection
<1>4. TypeOK'  BY <1>1, <1>3 DEF TypeOK, Connection
<1>5. ops \in Seq(Operation) /\ \A n \in 1..Len(ops) : ops[n].keys \in Seq(Keys)
  BY <1>1, OperationTypes
<1>6. \A d \in Conns : At(d, conn'[d], ops, struck')
  <2> SUFFICES ASSUME NEW d \in Conns \ {c} PROVE At(d, conn[d], ops, struck')
    BY <1>3
  <2>1. At(d, conn[d], ops, struck)  BY <1>1 DEF ConnInv
  <2>2. Len(ops) <= Len(ops) /\ struck \subseteq struck'  BY <1>5
  <2> QED  BY <1>5, <2>1, <2>2, AtKept
<1>7. ConnInv'
  <2>1. \A d, e \in Conns : conn'[d].op = conn'[e].op => d = e \/ conn'[d].op = None
    BY <1>1, <1>3 DEF ConnInv
  <2> QED  BY <1>6, <2>1 DEF ConnInv
<1>8. QueueInv'
  <2> SUFFICES ASSUME NEW w \in Workers, NEW k \in 1..Len(queue)
               PROVE  conn'[w].op < queue[k]
    BY <1>1 DEF QueueInv
  <2>1. conn[w].op < queue[k] /\ queue[k] \in Nat \ {0} /\ w \in Conns
    BY <1>1 DEF QueueInv, Conns, TypeOK
  <2>2. conn'[w].op \in {None, conn[w].op}  BY <1>3, <2>1
  <2> QED  BY <2>1, <2>2, ConstantTypes
<1>9. OnlyRefusedAreLost'
  <2> SUFFICES ASSUME closed = 0, NEW n \in DOMAIN ops, n \notin InPool'
               PROVE  \/ \A k \in Range(ops[n].keys) : n \in Range(rows'[k])
                      \/ n \in failed' \cup struck'
    BY DEF OnlyRefusedAreLost, AppliedWhole
  <2>1. n \in 1..Len(ops)  BY <1>5
  <2>2. \A k \in Range(ops[n].keys) : k \in Keys
    <3>1. ops[n].keys \in Seq(Keys)  BY <1>5, <2>1
    <3>2. \A j \in 1..Len(ops[n].keys) : ops[n].keys[j] \in Keys  BY <3>1
    <3>3. Range(ops[n].keys) = {ops[n].keys[j] : j \in 1..Len(ops[n].keys)}
      BY <3>1, RangeIsElements
    <3> QED  BY <3>2, <3>3
  <2>3. CASE n \notin InPool
    <3>1. AppliedWhole(n) \/ n \in failed \cup struck  BY <1>1, <2>3 DEF OnlyRefusedAreLost
    <3> QED  BY <2>2, <3>1 DEF AppliedWhole
  <2>4. CASE n \in InPool
    <3>1. n = conn[c].op /\ r.op # conn[c].op
      <4>1. /\ r.op = conn[c].op => InPool' = InPool
            /\ r.op = None => InPool' = InPool \ {conn[c].op}
        BY PoolEffect
      <4> QED  BY <2>4, <4>1
    <3> QED  BY <3>1
  <2> QED  BY <2>3, <2>4
<1> QED  BY <1>4, <1>7, <1>8, <1>9 DEF IInv

\* The fields of a connection, and its operation.
LEMMA ConnFacts ==
    ASSUME IInv, NEW c \in Conns
    PROVE  /\ conn[c] \in Connection /\ At(c, conn[c], ops, struck)
           /\ conn[c].op \in 0..MaxOps /\ conn[c].at \in Nat /\ conn[c].tries \in 0..LoopBreaker
           /\ conn[c].tx \in BOOLEAN /\ conn[c].writes \subseteq Keys
           /\ conn[c].pc \notin {"idle", "gone"} =>
                /\ conn[c].op \in 1..Len(ops) /\ conn[c].op \in 1..MaxOps /\ conn[c].op # None
                /\ Job(c) = ops[conn[c].op] /\ Job(c) \in Operation
                /\ Job(c).keys \in Seq(Keys) /\ Len(Job(c).keys) \in Nat
                /\ Job(c).transaction \in BOOLEAN
                /\ (conn[c].tx => Job(c).transaction)
                /\ (Job(c).direct <=> c \in Directs)
                /\ Job(c).transaction \/ Len(Job(c).keys) <= 1
<1>1. At(c, conn[c], ops, struck)  BY DEF IInv, ConnInv
<1>2. conn[c] \in Connection  BY <1>1 DEF At
<1>3. /\ conn[c].op \in 0..MaxOps /\ conn[c].at \in Nat /\ conn[c].tries \in 0..LoopBreaker
      /\ conn[c].tx \in BOOLEAN /\ conn[c].writes \subseteq Keys
  BY <1>2 DEF Connection
<1>4. ASSUME conn[c].pc \notin {"idle", "gone"}
      PROVE  /\ conn[c].op \in 1..Len(ops) /\ conn[c].op \in 1..MaxOps /\ conn[c].op # None
             /\ Job(c) = ops[conn[c].op] /\ Job(c) \in Operation
             /\ Job(c).keys \in Seq(Keys) /\ Len(Job(c).keys) \in Nat
             /\ Job(c).transaction \in BOOLEAN
             /\ (conn[c].tx => Job(c).transaction)
             /\ (Job(c).direct <=> c \in Directs)
             /\ Job(c).transaction \/ Len(Job(c).keys) <= 1
  <2>1. conn[c].op \in 1..Len(ops)  BY <1>1, <1>4 DEF At
  <2>2. Len(ops) \in 0..MaxOps  BY OperationTypes DEF IInv
  <2>3. conn[c].op \in 1..MaxOps /\ conn[c].op # None  BY <2>1, <2>2, ConstantTypes
  <2>4. ops[conn[c].op].direct <=> c \in Directs  BY <1>1, <2>3 DEF At
  <2>5. conn[c].tx => ops[conn[c].op].transaction  BY <1>1 DEF At
  <2> QED  BY <2>1, <2>3, <2>4, <2>5, OperationTypes DEF IInv, Job
<1> QED  BY <1>1, <1>2, <1>3, <1>4

\* A connection without an operation may be idle, or gone.
LEMMA IdleIsRight ==
    ASSUME NEW c, NEW s
    PROVE  At(c, Idle, ops, s) /\ At(c, Gone, ops, s) /\ Idle.op = None /\ Gone.op = None
<1>1. /\ Idle.op = None /\ Idle.pc = "idle" /\ Idle.tx = FALSE /\ Idle.writes = {}
      /\ Gone.op = None /\ Gone.pc = "gone" /\ Gone.tx = FALSE /\ Gone.writes = {}
  BY DEF Idle, Gone
<1>2. None \in 0..MaxOps /\ 0 \in 0..LoopBreaker  BY ConstantTypes
<1>3. Idle \in Connection  BY <1>2 DEF Idle, Connection
<1>4. Gone \in Connection  BY <1>2 DEF Gone, Idle, Connection
<1> QED  BY <1>1, <1>3, <1>4 DEF At

\* So may it be at the first statement of an operation.
LEMMA StartedIsRight ==
    ASSUME TypeOK
    PROVE  \A c \in Conns, n \in 1..Len(ops), tries \in 0..LoopBreaker : \A s :
             (ops[n].direct <=> c \in Directs) =>
               /\ At(c, Started(n, ops[n], tries), ops, s)
               /\ Started(n, ops[n], tries).op = n
               /\ At(c, [Started(n, ops[n], tries) EXCEPT !.at = 1], ops, s)
               /\ [Started(n, ops[n], tries) EXCEPT !.at = 1].op = n
<1> SUFFICES ASSUME NEW c \in Conns, NEW n \in 1..Len(ops), NEW tries \in 0..LoopBreaker, NEW s,
                    ops[n].direct <=> c \in Directs
             PROVE  /\ At(c, Started(n, ops[n], tries), ops, s)
                    /\ Started(n, ops[n], tries).op = n
                    /\ At(c, [Started(n, ops[n], tries) EXCEPT !.at = 1], ops, s)
                    /\ [Started(n, ops[n], tries) EXCEPT !.at = 1].op = n
  OBVIOUS
<1>1. n \in 0..MaxOps /\ ops[n].transaction \in BOOLEAN /\ Len(ops[n].keys) \in Nat
  <2>1. Len(ops) \in 0..MaxOps  BY OperationTypes
  <2> QED  BY <2>1, OperationTypes, ConstantTypes
<1>2. ASSUME NEW r, r \in Connection, r.op = n, r.pc = "run", r.at = 1, r.tx = ops[n].transaction,
             r.writes = {}
      PROVE  At(c, r, ops, s)
  <2>1. {ops[n].keys[k] : k \in 1..r.at - 1} = {}  BY <1>2
  <2>2. r.at \in 1..Len(ops[n].keys) + 1  BY <1>1, <1>2
  <2> QED  BY <1>2, <2>1, <2>2 DEF At
<1> DEFINE r == Started(n, ops[n], tries)
           r2 == [r EXCEPT !.at = 1]
<1>3. r = [op |-> n, pc |-> "run", at |-> 1, tries |-> tries, tx |-> ops[n].transaction,
           writes |-> {}]
  BY DEF Started
<1>4. /\ r.op = n /\ r.pc = "run" /\ r.at = 1 /\ r.tx = ops[n].transaction /\ r.writes = {}
      /\ r \in Connection
  BY <1>1, <1>3 DEF Connection
<1> HIDE DEF r
<1>5. /\ r2.op = n /\ r2.pc = "run" /\ r2.at = 1 /\ r2.tx = ops[n].transaction /\ r2.writes = {}
      /\ r2 \in Connection
  BY <1>4 DEF Connection
<1> HIDE DEF r2
<1>6. At(c, r, ops, s) /\ At(c, r2, ops, s)  BY <1>2, <1>4, <1>5
<1> QED  BY <1>4, <1>5, <1>6 DEF r, r2

\* Call starts what a worker has popped, or lets it go once Close has begun.
LEMMA CallStep ==
    ASSUME IInv, NEW w \in Workers, Call(w)
    PROVE  IInv'
<1> DEFINE r == IF Told(w) THEN Gone ELSE Started(conn[w].op, Job(w), 0)
<1>1. w \in Conns  BY DEF Conns
<1>2. /\ conn' = [conn EXCEPT ![w] = r] /\ conn[w].pc = "popped"
      /\ UNCHANGED <<ops, queue, deadlockLock, rows, closed, faults, struck, failed>>
  BY DEF Call
<1>3. At(w, r, ops, struck) /\ r.op \in {None, conn[w].op}
      /\ (closed = 0 => r.op = conn[w].op)
  <2>1. CASE Told(w)
    <3>1. closed # 0  BY <2>1, ConstantTypes DEF Told
    <3> QED  BY <2>1, <3>1, IdleIsRight
  <2>2. CASE ~Told(w)
    <3>1. /\ conn[w].op \in 1..Len(ops) /\ Job(w) = ops[conn[w].op]
          /\ (ops[conn[w].op].direct <=> w \in Directs)
          /\ 0 \in 0..LoopBreaker
      BY <1>1, <1>2, ConnFacts, ConstantTypes
    <3>2. r = Started(conn[w].op, ops[conn[w].op], 0)  BY <2>2, <3>1
    <3>3. TypeOK  BY DEF IInv
    <3>4. /\ At(w, Started(conn[w].op, ops[conn[w].op], 0), ops, struck)
          /\ Started(conn[w].op, ops[conn[w].op], 0).op = conn[w].op
      <4> HIDE DEF r
      <4>1. w \in Conns /\ conn[w].op \in 1..Len(ops) /\ 0 \in 0..LoopBreaker
            /\ (ops[conn[w].op].direct <=> w \in Directs)
        BY <1>1, <3>1
      <4> QED  BY <4>1, <3>3, StartedIsRight
    <3> QED  BY <3>2, <3>4
  <2> QED  BY <2>1, <2>2
<1> HIDE DEF r
<1> QED  BY <1>1, <1>2, <1>3, ConnStep DEF IInv, TypeOK, CountInv

\* Leave: the queue of the pool is cancelled.
LEMMA LeaveStep ==
    ASSUME IInv, NEW w \in Workers, Leave(w)
    PROVE  IInv'
<1>1. w \in Conns  BY DEF Conns
<1>2. /\ conn' = [conn EXCEPT ![w] = Gone] /\ closed > 0
      /\ UNCHANGED <<ops, queue, deadlockLock, rows, closed, faults, struck, failed>>
  BY DEF Leave
<1>3. closed # 0  BY <1>2
<1>4. At(w, Gone, ops, struck) /\ Gone.op = None  BY IdleIsRight
<1> QED  BY <1>1, <1>2, <1>3, <1>4, ConnStep DEF IInv, TypeOK, CountInv

\* Retry: with the lock, the transaction starts from its first statement.
LEMMA RetryStep ==
    ASSUME IInv, NEW w \in Workers, Retry(w)
    PROVE  IInv'
<1> DEFINE r == [Started(conn[w].op, Job(w), 1) EXCEPT !.at = conn[w].at]
<1>1. w \in Conns /\ TypeOK  BY DEF Conns, IInv
<1>2. /\ conn' = [conn EXCEPT ![w] = r]
      /\ conn[w].pc = "wait" /\ deadlockLock' = w
      /\ UNCHANGED <<ops, queue, rows, closed, faults, struck, failed>>
  BY DEF Retry
<1>3. /\ conn[w].op \in 1..Len(ops) /\ Job(w) = ops[conn[w].op]
      /\ (ops[conn[w].op].direct <=> w \in Directs)
      /\ 1 \in 0..LoopBreaker
  BY <1>1, <1>2, ConnFacts, ConstantTypes
<1>4. conn[w].at = 1  BY <1>1, <1>2, ConnFacts DEF At
<1>5. r = [Started(conn[w].op, ops[conn[w].op], 1) EXCEPT !.at = 1]  BY <1>3, <1>4
<1> HIDE DEF r
<1>6. At(w, r, ops, struck) /\ r.op = conn[w].op
  BY <1>1, <1>3, <1>5, StartedIsRight
<1> QED  BY <1>1, <1>2, <1>6, ConnStep DEF IInv, TypeOK, CountInv

\* A position in a sequence of at most one statement.
LEMMA OnlyOne == \A l \in Nat : \A a \in 1..l : l <= 1 => l = 1 /\ a = 1
  OBVIOUS

\* The statement that a connection is at writes one of the operation's rows.
LEMMA KeyFacts ==
    ASSUME IInv, NEW c \in Conns, AtKey(c)
    PROVE  /\ conn[c].pc = "run" /\ conn[c].at \in 1..Len(Job(c).keys)
           /\ Key(c) = Job(c).keys[conn[c].at] /\ Key(c) \in Keys
<1>1. conn[c].pc = "run" /\ conn[c].at <= Len(Job(c).keys)  BY DEF AtKey, Running
<1>2. conn[c].at \in 1..Len(Job(c).keys) + 1  BY <1>1, ConnFacts DEF At
<1>3. Job(c).keys \in Seq(Keys) /\ Len(Job(c).keys) \in Nat  BY <1>1, ConnFacts
<1>4. conn[c].at \in 1..Len(Job(c).keys)  BY <1>1, <1>2, <1>3
<1> QED  BY <1>1, <1>3, <1>4 DEF Key

\* Statement: the next row is locked, or written by a statement of its own.
LEMMA StatementStep ==
    ASSUME IInv, NEW c \in Conns, Statement(c)
    PROVE  IInv'
<1> DEFINE n == conn[c].op
           next == [conn[c] EXCEPT !.at = conn[c].at + 1,
                      !.writes = IF conn[c].tx THEN conn[c].writes \cup {Key(c)} ELSE conn[c].writes]
           r == IF Job(c).transaction THEN next ELSE Idle
<1>1. /\ conn' = [conn EXCEPT ![c] = r] /\ AtKey(c)
      /\ rows' = IF conn[c].tx THEN rows ELSE Written({Key(c)}, n)
      /\ UNCHANGED <<ops, queue, deadlockLock, closed, faults, struck, failed>>
  BY DEF Statement
<1>2. conn[c].pc = "run" /\ conn[c].at \in 1..Len(Job(c).keys)
      /\ Key(c) = Job(c).keys[conn[c].at] /\ Key(c) \in Keys
  BY <1>1, KeyFacts
<1>3. /\ conn[c] \in Connection /\ At(c, conn[c], ops, struck)
      /\ n \in 1..Len(ops) /\ n \in 1..MaxOps
      /\ Job(c) = ops[n] /\ Job(c).keys \in Seq(Keys) /\ Len(Job(c).keys) \in Nat
      /\ Job(c).transaction \in BOOLEAN
      /\ Job(c).transaction \/ Len(Job(c).keys) <= 1
      /\ conn[c].tx \in BOOLEAN /\ conn[c].writes \subseteq Keys
  BY <1>2, ConnFacts
<1>4. rows' \in [Keys -> Seq(1..MaxOps)]
      /\ \A k \in Keys : Range(rows[k]) \subseteq Range(rows'[k])
  BY <1>1, <1>3, WrittenEffect DEF IInv, TypeOK
<1>5. CASE Job(c).transaction
  <2>1. /\ next.op = n /\ next.pc = "run" /\ next.at = conn[c].at + 1
        /\ next.tries = conn[c].tries /\ next.tx = conn[c].tx
        /\ next.writes = IF conn[c].tx THEN conn[c].writes \cup {Key(c)} ELSE conn[c].writes
        /\ next \in Connection
    <3> DEFINE ws == IF conn[c].tx THEN conn[c].writes \cup {Key(c)} ELSE conn[c].writes
    <3>1. ws \in SUBSET Keys /\ conn[c].at + 1 \in Nat /\ conn[c] \in Connection
      BY <1>2, <1>3
    <3>2. next = [conn[c] EXCEPT !.at = conn[c].at + 1, !.writes = ws]  OBVIOUS
    <3> HIDE DEF ws, next
    <3>3. /\ next.op = n /\ next.pc = conn[c].pc /\ next.at = conn[c].at + 1
          /\ next.tries = conn[c].tries /\ next.tx = conn[c].tx
          /\ next.writes = ws /\ next \in Connection
      BY <3>1, <3>2 DEF Connection
    <3> QED  BY <1>2, <3>3 DEF ws
  <2>2. next.tx => next.writes = {ops[n].keys[k] : k \in 1..next.at - 1}
    <3>1. conn[c].tx => conn[c].writes = {ops[n].keys[k] : k \in 1..conn[c].at - 1}
      BY <1>3 DEF At
    <3>2. 1..next.at - 1 = 1..conn[c].at - 1 \cup {conn[c].at}  BY <1>2, <1>3, <2>1
    <3> QED  BY <1>2, <1>3, <2>1, <3>1, <3>2
  <2>3. next.at \in 1..Len(ops[n].keys) + 1  BY <1>2, <1>3, <2>1
  <2> HIDE DEF next
  <2>4. At(c, next, ops, struck)  BY <1>3, <1>5, <2>1, <2>2, <2>3, <1>2 DEF At
  <2>5. conn' = [conn EXCEPT ![c] = next] /\ next.op = conn[c].op  BY <1>1, <1>5, <2>1
  <2> QED  BY <1>1, <1>4, <2>4, <2>5, ConnStep DEF IInv, TypeOK, CountInv
<1>6. CASE ~Job(c).transaction
  <2>1. At(c, Idle, ops, struck) /\ Idle.op = None /\ conn' = [conn EXCEPT ![c] = Idle]
    BY <1>1, <1>6, IdleIsRight
  <2> HIDE DEF next, r
  <2>2. ~conn[c].tx  BY <1>2, <1>6, ConnFacts
  <2>3. \A k \in Range(ops[n].keys) : k = Key(c)
    <3>1. Len(ops[n].keys) = 1 /\ conn[c].at = 1
      <4>1. Len(Job(c).keys) \in Nat /\ Len(Job(c).keys) <= 1  BY <1>3, <1>6
      <4>2. Len(Job(c).keys) = 1 /\ conn[c].at = 1
        <5>1. conn[c].at \in 1..Len(Job(c).keys)  BY <1>2
        <5> QED  BY <4>1, <5>1, OnlyOne, Zenon
      <4> QED  BY <1>3, <4>2
    <3>2. Range(ops[n].keys) = {ops[n].keys[k] : k \in 1..Len(ops[n].keys)}
      BY <1>3, RangeIsElements
    <3> QED  BY <1>2, <1>3, <3>1, <3>2
  <2>4. n \in Range(rows'[Key(c)])  BY <1>1, <1>2, <1>3, <2>2, WrittenEffect DEF IInv
  <2>5. \A k \in Range(ops[conn[c].op].keys) : conn[c].op \in Range(rows'[k])
    BY <2>3, <2>4
  <2> QED  BY <1>1, <1>4, <2>1, <2>5, ConnStep DEF IInv, TypeOK, CountInv
<1> QED  BY <1>3, <1>5, <1>6

\* The transaction has written all its rows when it commits.
LEMMA CommitWritesAll ==
    ASSUME IInv, NEW c \in Conns, Running(c), ~AtKey(c)
    PROVE  /\ conn[c].tx => conn[c].writes = Range(Job(c).keys)
           /\ ~conn[c].tx => conn[c].writes = {}
           /\ conn[c].tx \/ conn[c].op \in struck \/ Range(Job(c).keys) = {}
<1> DEFINE keys == Job(c).keys
<1>1. /\ conn[c].pc = "run" /\ conn[c].at \in Nat
      /\ At(c, conn[c], ops, struck) /\ Job(c) = ops[conn[c].op]
      /\ keys \in Seq(Keys) /\ Len(keys) \in Nat /\ Job(c).transaction \in BOOLEAN
  BY ConnFacts DEF Running
<1>2. conn[c].at \in 1..Len(keys) + 1  BY <1>1 DEF At
<1>3. conn[c].at = Len(keys) + 1  BY <1>1, <1>2 DEF AtKey, Running
<1>4. Range(keys) = {keys[k] : k \in 1..Len(keys)}  BY <1>1, RangeIsElements
<1>5. conn[c].tx => conn[c].writes = {keys[k] : k \in 1..conn[c].at - 1}  BY <1>1 DEF At
<1>6. conn[c].at - 1 = Len(keys)  BY <1>1, <1>3
<1>7. conn[c].tx => conn[c].writes = Range(keys)  BY <1>4, <1>5, <1>6
<1>8. ~conn[c].tx => conn[c].writes = {}  BY <1>1 DEF At
<1>9. ASSUME ~conn[c].tx, conn[c].op \notin struck PROVE Range(keys) = {}
  <2>1. ~Job(c).transaction /\ conn[c].at = 1  BY <1>1, <1>9 DEF At
  <2>2. Len(keys) = 0  BY <1>1, <1>3, <2>1
  <2> QED  BY <1>4, <2>2
<1> QED  BY <1>7, <1>8, <1>9

\* Finish: COMMIT.
LEMMA FinishStep ==
    ASSUME IInv, NEW c \in Conns, Finish(c)
    PROVE  IInv'
<1> DEFINE n == conn[c].op
<1>1. /\ conn' = [conn EXCEPT ![c] = Idle] /\ Running(c) /\ ~AtKey(c)
      /\ rows' = Written(conn[c].writes, n) /\ deadlockLock' = Unlocked(c)
      /\ UNCHANGED <<ops, queue, closed, faults, struck, failed>>
  BY DEF Finish
<1>2. /\ n \in 1..MaxOps /\ conn[c].writes \subseteq Keys /\ Job(c) = ops[n]
  BY <1>1, ConnFacts DEF Running
<1>3. /\ rows' \in [Keys -> Seq(1..MaxOps)]
      /\ \A k \in Keys : Range(rows[k]) \subseteq Range(rows'[k])
      /\ \A k \in conn[c].writes : n \in Range(rows'[k])
  BY <1>1, <1>2, WrittenEffect DEF IInv
<1>4. n \in failed' \cup struck' \/ \A k \in Range(ops[n].keys) : n \in Range(rows'[k])
  BY <1>1, <1>2, <1>3, CommitWritesAll
<1>5. deadlockLock' \in Workers \cup {None}  BY <1>1 DEF Unlocked, IInv, TypeOK
<1>6. At(c, Idle, ops, struck) /\ Idle.op = None  BY IdleIsRight
<1> QED  BY <1>1, <1>3, <1>4, <1>5, <1>6, ConnStep DEF IInv, TypeOK, CountInv

\* Failed, after an error: the transaction starts again, or is given up.
LEMMA FailedStep ==
    ASSUME IInv, NEW c \in Conns, NEW deadlock \in BOOLEAN, Running(c), Failed(c, deadlock),
           UNCHANGED <<ops, queue, rows, closed, struck>>, faults' \in 0..MaxFaults, faults <= faults'
    PROVE  IInv'
<1> DEFINE n == conn[c].op
           waiting == [conn[c] EXCEPT !.pc = "wait", !.tx = FALSE, !.writes = {}, !.at = RestartAt(c)]
           started == [Started(conn[c].op, Job(c), conn[c].tries + 1) EXCEPT !.at = RestartAt(c)]
<1>1. /\ conn[c] \in Connection /\ At(c, conn[c], ops, struck)
      /\ n \in 1..Len(ops) /\ n \in 1..MaxOps /\ n # None /\ Job(c) = ops[n]
      /\ conn[c].tries \in 0..LoopBreaker
      /\ (ops[n].direct <=> c \in Directs)
  BY ConnFacts DEF Running
<1>2. TypeOK /\ CountInv /\ CountInv'
  BY ConstantTypes, FS_CardinalityType DEF IInv, CountInv, TypeOK
<1>3. CASE Again(c, deadlock) /\ c \in Workers /\ conn[c].tries = 0
  <2>1. conn' = [conn EXCEPT ![c] = waiting] /\ UNCHANGED <<deadlockLock, failed>>
    BY <1>3 DEF Failed
  <2>2. /\ waiting.op = n /\ waiting.pc = "wait" /\ waiting.at = 1 /\ ~waiting.tx
        /\ waiting.writes = {} /\ waiting \in Connection
    BY <1>1 DEF Connection, RestartAt
  <2>3. Job(c).transaction /\ c \notin Directs  BY <1>3, ConstantTypes DEF Again
  <2> HIDE DEF waiting
  <2>4. At(c, waiting, ops, struck)  BY <1>1, <2>2, <2>3 DEF At
  <2> QED  BY <1>2, <2>1, <2>2, <2>4, ConnStep DEF TypeOK
<1>4. CASE Again(c, deadlock) /\ ~(c \in Workers /\ conn[c].tries = 0)
  <2>1. conn' = [conn EXCEPT ![c] = started] /\ UNCHANGED <<deadlockLock, failed>>
    BY <1>4 DEF Failed
  <2>2. conn[c].tries + 1 \in 0..LoopBreaker
    BY <1>1, <1>4, ConstantTypes DEF Again
  <2>3. At(c, started, ops, struck) /\ started.op = n
    <3>1. started = [Started(n, ops[n], conn[c].tries + 1) EXCEPT !.at = 1]
      BY <1>1 DEF RestartAt
    <3> HIDE DEF started
    <3> QED  BY <1>1, <1>2, <2>2, <3>1, StartedIsRight
  <2> HIDE DEF started
  <2> QED  BY <1>2, <2>1, <2>3, ConnStep DEF TypeOK
<1>5. CASE ~Again(c, deadlock)
  <2>1. /\ conn' = [conn EXCEPT ![c] = Idle] /\ deadlockLock' = Unlocked(c)
        /\ failed' = failed \cup {n}
    BY <1>5 DEF Failed
  <2>2. deadlockLock' \in Workers \cup {None}  BY <1>2, <2>1 DEF Unlocked, TypeOK
  <2>3. At(c, Idle, ops, struck) /\ Idle.op = None  BY IdleIsRight
  <2>4. failed' \subseteq 1..MaxOps  BY <1>1, <1>2, <2>1 DEF TypeOK
  <2> QED  BY <1>1, <1>2, <2>1, <2>2, <2>3, <2>4, ConnStep DEF TypeOK
<1> QED  BY <1>3, <1>4, <1>5

\* Strike, after a loss: the transaction is gone, the operation goes on.
LEMMA StrikeStep ==
    ASSUME IInv, NEW c \in Conns, Running(c), Strike(c),
           rows' \in [Keys -> Seq(1..MaxOps)], \A k \in Keys : Range(rows[k]) \subseteq Range(rows'[k])
    PROVE  IInv'
<1> DEFINE n == conn[c].op
           r == [conn[c] EXCEPT !.tx = FALSE, !.writes = {}]
<1>1. /\ faults < MaxFaults /\ faults' = faults + 1 /\ struck' = struck \cup {n}
      /\ conn' = [conn EXCEPT ![c].tx = FALSE, ![c].writes = {}]
      /\ UNCHANGED <<ops, queue, deadlockLock, closed, failed>>
  BY DEF Strike
<1>2. /\ conn[c] \in Connection /\ At(c, conn[c], ops, struck)
      /\ n \in 1..MaxOps /\ conn[c].pc = "run"
  BY ConnFacts DEF Running
<1>3. TypeOK /\ CountInv  BY DEF IInv
<1>4. conn' = [conn EXCEPT ![c] = r]  BY <1>1, <1>3 DEF TypeOK
<1>5. /\ r.op = n /\ r.pc = "run" /\ r.at = conn[c].at /\ ~r.tx /\ r.writes = {} /\ r \in Connection
  BY <1>2 DEF Connection
<1> HIDE DEF r
<1>6. At(c, r, ops, struck')  BY <1>1, <1>2, <1>5 DEF At
<1>7. CountInv'
  <2>1. IsFiniteSet(struck) /\ Cardinality(struck) <= faults /\ faults \in Nat
    BY <1>3 DEF CountInv, TypeOK
  <2>2. IsFiniteSet(struck \cup {n})
        /\ Cardinality(struck \cup {n}) \in {Cardinality(struck), Cardinality(struck) + 1}
    BY <2>1, FS_AddElement
  <2>3. Cardinality(struck) \in Nat  BY <2>1, FS_CardinalityType
  <2> QED  BY <1>1, <2>1, <2>2, <2>3 DEF CountInv
<1>8. faults' \in 0..MaxFaults /\ struck' \subseteq 1..MaxOps
  BY <1>1, <1>2, <1>3, ConstantTypes DEF TypeOK
<1> QED  BY <1>1, <1>3, <1>4, <1>5, <1>6, <1>7, <1>8, ConnStep DEF TypeOK

\* Lose and LoseReply.
LEMMA LossStep ==
    ASSUME IInv, NEW c \in Conns, Lose(c) \/ LoseReply(c)
    PROVE  IInv'
<1>1. TypeOK  BY DEF IInv
<1>2. CASE Lose(c)
  <2>1. Running(c)  BY <1>2, ConnFacts DEF Lose, Running, At
  <2>2. Strike(c) /\ rows' = rows  BY <1>2 DEF Lose
  <2> QED  BY <1>1, <2>1, <2>2, StrikeStep DEF TypeOK
<1>3. CASE LoseReply(c)
  <2>1. Running(c) /\ Strike(c)  BY <1>3 DEF LoseReply, AtKey
  <2>2. conn[c].op \in 1..MaxOps  BY <2>1, ConnFacts DEF Running
  <2>3. \E keys : rows' = Written(keys, conn[c].op)  BY <1>3 DEF LoseReply
  <2> QED  BY <1>1, <2>1, <2>2, <2>3, WrittenEffect, StrikeStep
<1> QED  BY <1>2, <1>3

\* A victim of a deadlock, or of another error, is at a statement.
LEMMA ErrorStep ==
    ASSUME IInv, NEW c \in Conns, Deadlock(c) \/ Error(c)
    PROVE  IInv'
<1>1. faults \in 0..MaxFaults  BY DEF IInv, TypeOK
<1>2. CASE Deadlock(c)
  <2>1. Running(c)  BY <1>2 DEF Deadlock, WaitsFor, AtKey
  <2>2. /\ Failed(c, TRUE) /\ faults' = faults
        /\ UNCHANGED <<ops, queue, rows, closed, struck>>
    BY <1>2 DEF Deadlock
  <2>3. faults <= faults'  BY <1>1, <2>2, ConstantTypes
  <2> QED  BY <1>1, <2>1, <2>2, <2>3, FailedStep
<1>3. CASE Error(c)
  <2>1. Running(c)  BY <1>3 DEF Error, AtKey
  <2>2. /\ Failed(c, FALSE) /\ faults' = faults + 1 /\ faults < MaxFaults
        /\ UNCHANGED <<ops, queue, rows, closed, struck>>
    BY <1>3 DEF Error
  <2>3. faults <= faults' /\ faults' \in 0..MaxFaults  BY <1>1, <2>2, ConstantTypes
  <2> QED  BY <2>1, <2>2, <2>3, FailedStep
<1> QED  BY <1>2, <1>3

-----------------------------------------------------------------------------
(***************************************************************************)
(* The steps that submit, pop and close.                                   *)
(***************************************************************************)
\* A submission gives the operation the next number.
LEMMA AppendOps ==
    ASSUME TypeOK, Len(ops) < MaxOps, NEW op \in Operations
    PROVE  /\ Append(ops, op) \in Seq(Operations) /\ Append(ops, op) \in Seq(Operation)
           /\ Len(Append(ops, op)) = Len(ops) + 1
           /\ Len(ops) \in Nat /\ Len(ops) + 1 \in 1..MaxOps
           /\ \A n \in 1..Len(ops) : Append(ops, op)[n] = ops[n]
           /\ Append(ops, op)[Len(ops) + 1] = op
<1>1. ops \in Seq(Operations) /\ op \in Operation  BY ConstantTypes DEF TypeOK
<1>2. ops \in Seq(Operation)  BY OperationTypes
<1> QED  BY <1>1, <1>2, ConstantTypes

\* What was submitted before is as it was.
LEMMA ConnsKept ==
    ASSUME IInv, Len(ops) < MaxOps, NEW op \in Operations
    PROVE  /\ \A c \in Conns : At(c, conn[c], Append(ops, op), struck)
           /\ \A c \in Conns : conn[c].op \in 0..Len(ops)
<1>1. TypeOK  BY DEF IInv
<1>2. ops \in Seq(Operation)  BY <1>1, OperationTypes
<1>3. \A c \in Conns : At(c, conn[c], ops, struck)  BY DEF IInv, ConnInv
<1>4. ASSUME NEW c \in Conns PROVE At(c, conn[c], Append(ops, op), struck)
  <2>1. At(c, conn[c], ops, struck)  BY <1>3
  <2>2. Append(ops, op) \in Seq(Operation) /\ Len(ops) <= Len(Append(ops, op))
        /\ \A n \in 1..Len(ops) : Append(ops, op)[n] = ops[n]
    BY <1>1, AppendOps
  <2> QED  BY <1>2, <2>1, <2>2, AtKept
<1>5. ASSUME NEW c \in Conns PROVE conn[c].op \in 0..Len(ops)
  <2>1. Len(ops) \in Nat  BY <1>2
  <2>2. conn[c].op \in 1..Len(ops) \/ conn[c].op = None  BY <1>3 DEF At
  <2> QED  BY <2>1, <2>2, ConstantTypes
<1> QED  BY <1>4, <1>5

\* Enqueue.
LEMMA EnqueueStep ==
    ASSUME IInv, NEW op \in Operations, Enqueue(op)
    PROVE  IInv'
<1> DEFINE n == Len(ops) + 1
<1>1. /\ Len(ops) < MaxOps /\ ~op.direct
      /\ ops' = Append(ops, op) /\ queue' = Append(queue, n)
      /\ UNCHANGED <<conn, deadlockLock, rows, closed, faults, struck, failed>>
  BY DEF Enqueue
<1>2. TypeOK /\ ConnInv /\ QueueInv /\ CountInv /\ OnlyRefusedAreLost  BY DEF IInv
<1>3. /\ ops' \in Seq(Operations) /\ Len(ops') = n /\ Len(ops) \in Nat /\ n \in 1..MaxOps
      /\ \A k \in 1..Len(ops) : ops'[k] = ops[k]
      /\ ops'[n] = op
  BY <1>1, <1>2, AppendOps
<1>4. queue \in Seq(1..MaxOps)  BY <1>2 DEF TypeOK
<1>5. /\ queue' \in Seq(1..MaxOps) /\ Len(queue) \in Nat /\ Len(queue') = Len(queue) + 1
      /\ queue'[Len(queue) + 1] = n
      /\ \A k \in 1..Len(queue) : queue'[k] = queue[k]
  BY <1>1, <1>3, <1>4
<1>6. Range(queue') = Range(queue) \cup {n}  BY <1>1, <1>3, <1>4, AppendRange
<1> HIDE DEF n
<1>7. TypeOK'
  <2>1. Len(ops') <= MaxOps  BY <1>3, ConstantTypes
  <2> QED  BY <1>1, <1>2, <1>3, <1>5, <2>1 DEF TypeOK
<1>8. \A c \in Conns : At(c, conn[c], Append(ops, op), struck) /\ conn[c].op \in 0..Len(ops)
  BY <1>1, ConnsKept
<1>9. ConnInv'  BY <1>1, <1>2, <1>8 DEF ConnInv
<1>10. QueueInv'
  <2>1. \A k \in 1..Len(queue) : queue[k] \in 1..Len(ops) /\ ~ops[queue[k]].direct
    BY <1>2 DEF QueueInv
  <2>2. \A k \in 1..Len(queue') : queue'[k] \in 1..Len(ops') /\ ~ops'[queue'[k]].direct
    <3> SUFFICES ASSUME NEW k \in 1..Len(queue')
                 PROVE  queue'[k] \in 1..Len(ops') /\ ~ops'[queue'[k]].direct
      OBVIOUS
    <3>1. CASE k \in 1..Len(queue)
      <4>1. queue'[k] = queue[k] /\ queue[k] \in 1..Len(ops)  BY <1>5, <2>1, <3>1
      <4>2. ops'[queue[k]] = ops[queue[k]]  BY <1>3, <4>1
      <4>3. queue[k] \in 1..Len(ops')  BY <1>3, <4>1 DEF n
      <4> QED  BY <2>1, <3>1, <4>1, <4>2, <4>3
    <3>2. CASE k = Len(queue) + 1  BY <1>1, <1>3, <1>5, <3>2
    <3> QED  BY <1>5, <3>1, <3>2
  <2>3. \A j, k \in 1..Len(queue') : j < k => queue'[j] < queue'[k]
    <3> SUFFICES ASSUME NEW j \in 1..Len(queue'), NEW k \in 1..Len(queue'), j < k
                 PROVE  queue'[j] < queue'[k]
      OBVIOUS
    <3>1. j \in 1..Len(queue) /\ queue'[j] = queue[j] /\ queue[j] \in 1..Len(ops)
      BY <1>5, <2>1
    <3>2. CASE k \in 1..Len(queue)  BY <1>2, <1>5, <3>1, <3>2 DEF QueueInv
    <3>3. CASE k = Len(queue) + 1  BY <1>3, <1>5, <3>1, <3>3 DEF n
    <3> QED  BY <1>5, <3>2, <3>3
  <2>4. \A w \in Workers : \A k \in 1..Len(queue') : conn'[w].op < queue'[k]
    <3> SUFFICES ASSUME NEW w \in Workers, NEW k \in 1..Len(queue')
                 PROVE  conn[w].op < queue'[k]
      BY <1>1
    <3>1. conn[w].op \in 0..Len(ops)  BY <1>8 DEF Conns
    <3>2. CASE k \in 1..Len(queue)  BY <1>2, <1>5, <3>2 DEF QueueInv
    <3>3. CASE k = Len(queue) + 1  BY <1>3, <1>5, <3>1, <3>3 DEF n
    <3> QED  BY <1>5, <3>2, <3>3
  <2> QED  BY <2>2, <2>3, <2>4 DEF QueueInv
<1>11. OnlyRefusedAreLost'
  <2> SUFFICES ASSUME closed = 0, NEW m \in DOMAIN ops', m \notin InPool'
               PROVE  \/ \A k \in Range(ops'[m].keys) : m \in Range(rows[k])
                      \/ m \in failed \cup struck
    BY <1>1 DEF OnlyRefusedAreLost, AppliedWhole
  <2>1. n \in InPool'  BY <1>3, <1>6, ConstantTypes DEF InPool
  <2>2. m \in 1..Len(ops)  BY <1>3, <2>1 DEF n
  <2>3. m \notin InPool  BY <1>1, <1>6 DEF InPool
  <2>4. m \in DOMAIN ops /\ ops'[m] = ops[m]
    <3>1. DOMAIN ops = 1..Len(ops)  BY <1>2 DEF TypeOK
    <3> QED  BY <1>3, <2>2, <3>1
  <2> QED  BY <1>2, <2>3, <2>4 DEF OnlyRefusedAreLost, AppliedWhole
<1>12. CountInv'  BY <1>1, <1>2 DEF CountInv
<1> QED  BY <1>7, <1>9, <1>10, <1>11, <1>12 DEF IInv

\* Direct: a caller has locked an idle connection.
LEMMA DirectStep ==
    ASSUME IInv, NEW c \in Directs, NEW op \in Operations, Direct(c, op)
    PROVE  IInv'
<1> DEFINE n == Len(ops) + 1
           r == Started(n, op, 0)
<1>1. /\ Len(ops) < MaxOps /\ op.direct /\ conn[c].pc = "idle"
      /\ ops' = Append(ops, op) /\ conn' = [conn EXCEPT ![c] = r]
      /\ UNCHANGED <<queue, deadlockLock, rows, closed, faults, struck, failed>>
  BY DEF Direct
<1>2. TypeOK /\ ConnInv /\ QueueInv /\ CountInv /\ OnlyRefusedAreLost  BY DEF IInv
<1>3. /\ ops' \in Seq(Operations) /\ Len(ops') = n /\ Len(ops) \in Nat /\ n \in 1..MaxOps
      /\ \A k \in 1..Len(ops) : ops'[k] = ops[k]
      /\ ops'[n] = op
  BY <1>1, <1>2, AppendOps
<1>4. c \in Conns /\ c \notin Workers  BY ConstantTypes DEF Conns
<1>5. r.op = n /\ r \in Connection
  <2>1. n \in 0..MaxOps /\ 0 \in 0..LoopBreaker /\ op.transaction \in BOOLEAN
    BY <1>3, ConstantTypes DEF Operation
  <2> HIDE DEF n
  <2> QED  BY <2>1 DEF Started, Connection
<1>6. At(c, r, ops', struck)
  <2>1. op \in Operation /\ Len(op.keys) \in Nat  BY ConstantTypes DEF Operation
  <2>2. /\ r.pc = "run" /\ r.at = 1 /\ r.tx = op.transaction /\ r.writes = {}
    BY DEF Started
  <2>3. n \in 1..Len(ops')  BY <1>3
  <2> HIDE DEF n, r
  <2>4. {ops'[r.op].keys[k] : k \in 1..r.at - 1} = {}  BY <2>2
  <2>5. r.at \in 1..Len(op.keys) + 1  BY <2>1, <2>2
  <2> QED  BY <1>1, <1>3, <1>4, <1>5, <2>2, <2>3, <2>4, <2>5 DEF At
<1> HIDE DEF r
<1>7. \A d \in Conns : At(d, conn[d], ops', struck) /\ conn[d].op \in 0..Len(ops)
  BY <1>1, ConnsKept
<1>8. /\ conn'[c] = r /\ \A d \in Conns \ {c} : conn'[d] = conn[d]
      /\ conn' \in [Conns -> Connection]
  BY <1>1, <1>2, <1>4, <1>5 DEF TypeOK, Connection
<1>9. TypeOK'
  <2>1. Len(ops') <= MaxOps  BY <1>3, ConstantTypes
  <2> QED  BY <1>1, <1>2, <1>3, <1>8, <2>1 DEF TypeOK, Connection
<1>10. ConnInv'
  <2>1. \A d \in Conns : At(d, conn'[d], ops', struck')  BY <1>1, <1>6, <1>7, <1>8
  <2>2. \A d \in Conns \ {c} : conn'[d].op # n  BY <1>3, <1>7, <1>8
  <2>3. \A d, e \in Conns : conn'[d].op = conn'[e].op => d = e \/ conn'[d].op = None
    BY <1>2, <1>5, <1>8, <2>2 DEF ConnInv
  <2> QED  BY <2>1, <2>3 DEF ConnInv
<1>11. QueueInv'
  <2>1. ASSUME NEW k \in 1..Len(queue) PROVE queue[k] \in 1..Len(ops') /\ ~ops'[queue[k]].direct
    <3>1. queue[k] \in 1..Len(ops) /\ ~ops[queue[k]].direct  BY <1>2 DEF QueueInv
    <3>2. ops'[queue[k]] = ops[queue[k]]  BY <1>3, <3>1
    <3>3. queue[k] \in 1..Len(ops')  BY <1>3, <3>1
    <3> QED  BY <3>1, <3>2, <3>3
  <2>2. \A w \in Workers : conn'[w] = conn[w]  BY <1>4, <1>8 DEF Conns
  <2> QED  BY <1>1, <1>2, <2>1, <2>2 DEF QueueInv
<1>12. OnlyRefusedAreLost'
  <2> SUFFICES ASSUME closed = 0, NEW m \in DOMAIN ops', m \notin InPool'
               PROVE  \/ \A k \in Range(ops'[m].keys) : m \in Range(rows[k])
                      \/ m \in failed \cup struck
    BY <1>1 DEF OnlyRefusedAreLost, AppliedWhole
  <2>1. n \in InPool'  BY <1>3, <1>4, <1>5, <1>8, ConstantTypes DEF InPool
  <2>2. m \in 1..Len(ops)  BY <1>3, <2>1
  <2>3. conn[c].op = None  BY <1>1, <1>4, <1>7 DEF At
  <2>4. m \notin InPool  BY <1>1, <1>8, <2>3 DEF InPool
  <2>5. m \in DOMAIN ops /\ ops'[m] = ops[m]
    <3>1. DOMAIN ops = 1..Len(ops)  BY <1>2 DEF TypeOK
    <3> QED  BY <1>3, <2>2, <3>1
  <2> QED  BY <1>2, <2>4, <2>5 DEF OnlyRefusedAreLost, AppliedWhole
<1>13. CountInv'  BY <1>1, <1>2 DEF CountInv
<1> QED  BY <1>9, <1>10, <1>11, <1>12, <1>13 DEF IInv

\* The elements of a sequence.
LEMMA ElementsOfSeq ==
    ASSUME NEW S, NEW q \in Seq(S)
    PROVE  \A k \in 1..Len(q) : q[k] \in S
  OBVIOUS

\* The head and the tail of a sequence of numbers.
LEMMA PopQueue ==
    \A q \in Seq(1..MaxOps) :
      q # <<>> =>
        /\ Head(q) = q[1] /\ Head(q) \in 1..MaxOps /\ 1 \in 1..Len(q)
        /\ Tail(q) \in Seq(1..MaxOps) /\ Len(q) \in Nat /\ Len(Tail(q)) = Len(q) - 1
        /\ \A k \in 1..Len(q) - 1 : Tail(q)[k] = q[k + 1] /\ k + 1 \in 1..Len(q)
        /\ Range(q) = Range(Tail(q)) \cup {Head(q)}
<1> SUFFICES ASSUME NEW q \in Seq(1..MaxOps), q # <<>>
             PROVE  /\ Head(q) = q[1] /\ Head(q) \in 1..MaxOps /\ 1 \in 1..Len(q)
                    /\ Tail(q) \in Seq(1..MaxOps) /\ Len(q) \in Nat /\ Len(Tail(q)) = Len(q) - 1
                    /\ \A k \in 1..Len(q) - 1 : Tail(q)[k] = q[k + 1] /\ k + 1 \in 1..Len(q)
                    /\ Range(q) = Range(Tail(q)) \cup {Head(q)}
  OBVIOUS
<1>1. Len(q) \in Nat \ {0}  OBVIOUS
<1>2. Head(q) = q[1] /\ q[1] \in 1..MaxOps
  <2>1. 1 \in 1..Len(q)  BY <1>1
  <2>2. \A k \in 1..Len(q) : q[k] \in 1..MaxOps  BY ElementsOfSeq
  <2>3. Head(q) = q[1]  BY <1>1
  <2> QED  BY <2>1, <2>2, <2>3
<1>3. /\ Tail(q) \in Seq(1..MaxOps) /\ Len(Tail(q)) = Len(q) - 1
      /\ \A k \in 1..Len(q) - 1 : Tail(q)[k] = q[k + 1]
  BY <1>1
<1>4. 1 \in 1..Len(q) /\ \A k \in 1..Len(q) - 1 : k + 1 \in 1..Len(q)  BY <1>1
<1>5. Range(q) = {q[k] : k \in 1..Len(q)} /\ Range(Tail(q)) = {Tail(q)[k] : k \in 1..Len(q) - 1}
  BY <1>3, RangeIsElements
<1>6. Range(q) = Range(Tail(q)) \cup {Head(q)}
  <2>1. ASSUME NEW k \in 1..Len(q) PROVE q[k] \in Range(Tail(q)) \cup {Head(q)}
    <3>1. CASE k = 1  BY <1>2, <3>1
    <3>2. CASE k # 1
      <4>1. k - 1 \in 1..Len(q) - 1 /\ (k - 1) + 1 = k  BY <1>1, <3>2
      <4>2. Tail(q)[k - 1] = q[k]  BY <1>3, <4>1
      <4> QED  BY <1>5, <4>1, <4>2
    <3> QED  BY <3>1, <3>2
  <2>2. ASSUME NEW k \in 1..Len(q) - 1 PROVE Tail(q)[k] \in Range(q)
    <3>1. Tail(q)[k] = q[k + 1] /\ k + 1 \in 1..Len(q)  BY <1>3, <1>4
    <3> QED  BY <1>5, <3>1
  <2>3. Head(q) \in Range(q)  BY <1>2, <1>4, <1>5
  <2> QED  BY <1>5, <2>1, <2>2, <2>3
<1> QED  BY <1>1, <1>2, <1>3, <1>4, <1>6

\* Pop: the operation goes from the head of the queue to the worker.
LEMMA PopStep ==
    ASSUME IInv, NEW w \in Workers, Pop(w)
    PROVE  IInv' /\ InPool' = InPool
<1> DEFINE n == Head(queue)
           r == [conn[w] EXCEPT !.pc = "popped", !.op = n]
<1>1. /\ conn[w].pc = "idle" /\ queue # <<>> /\ queue' = Tail(queue)
      /\ conn' = [conn EXCEPT ![w].pc = "popped", ![w].op = Head(queue)]
      /\ UNCHANGED <<ops, deadlockLock, rows, closed, faults, struck, failed>>
  BY DEF Pop
<1>2. TypeOK /\ ConnInv /\ QueueInv /\ CountInv /\ OnlyRefusedAreLost  BY DEF IInv
<1>3. /\ w \in Conns /\ w \notin Directs /\ conn[w] \in Connection
      /\ conn[w].op = None /\ ~conn[w].tx /\ conn[w].writes = {}
  <2>1. w \in Conns /\ w \notin Directs  BY ConstantTypes DEF Conns
  <2>2. At(w, conn[w], ops, struck)  BY <1>2, <2>1 DEF ConnInv
  <2> QED  BY <1>1, <2>1, <2>2 DEF At
<1>4. /\ n = queue[1] /\ n \in 1..MaxOps /\ 1 \in 1..Len(queue)
      /\ queue' \in Seq(1..MaxOps) /\ Len(queue) \in Nat /\ Len(queue') = Len(queue) - 1
      /\ \A k \in 1..Len(queue') : queue'[k] = queue[k + 1] /\ k + 1 \in 1..Len(queue)
      /\ Range(queue) = Range(queue') \cup {n}
  BY <1>1, <1>2, PopQueue DEF TypeOK
<1>5. conn' = [conn EXCEPT ![w] = r]  BY <1>1, <1>2, <1>3 DEF TypeOK
<1>6. r.op = n /\ r.pc = "popped" /\ ~r.tx /\ r.writes = {} /\ r \in Connection
  <2>1. n \in 0..MaxOps  BY <1>4
  <2> HIDE DEF n
  <2> QED  BY <1>3, <2>1 DEF Connection
<1> HIDE DEF n, r
<1>7. /\ conn'[w] = r /\ \A d \in Conns \ {w} : conn'[d] = conn[d]
      /\ conn' \in [Conns -> Connection]
  BY <1>2, <1>3, <1>5, <1>6 DEF TypeOK, Connection
<1>8. n \in 1..Len(ops) /\ ~ops[n].direct /\ n # None
  BY <1>2, <1>4, ConstantTypes DEF QueueInv
<1>9. \A d \in Conns : conn[d].op # n
  <2> SUFFICES ASSUME NEW d \in Conns, conn[d].op = n PROVE FALSE  OBVIOUS
  <2>1. CASE d \in Workers
    <3>1. conn[d].op < queue[1]  BY <1>2, <1>4, <2>1 DEF QueueInv
    <3> QED  BY <1>4, <3>1
  <2>2. CASE d \in Directs
    <3>1. At(d, conn[d], ops, struck)  BY <1>2 DEF ConnInv
    <3> QED  BY <1>8, <2>2, <3>1 DEF At
  <2> QED  BY <2>1, <2>2 DEF Conns
<1>10. InPool' = InPool
  <2>1. {conn'[d].op : d \in Conns} = {n} \cup {conn[d].op : d \in Conns \ {w}}
    BY <1>3, <1>6, <1>7
  <2>2. {conn[d].op : d \in Conns} = {None} \cup {conn[d].op : d \in Conns \ {w}}
    BY <1>3
  <2> QED  BY <1>4, <2>1, <2>2 DEF InPool
<1>11. TypeOK'  BY <1>1, <1>2, <1>4, <1>7 DEF TypeOK, Connection
<1>12. ConnInv'
  <2>1. At(w, r, ops, struck)  BY <1>3, <1>6, <1>8 DEF At
  <2>2. \A d \in Conns : At(d, conn'[d], ops', struck')
    BY <1>1, <1>2, <1>7, <2>1 DEF ConnInv
  <2>3. \A d, e \in Conns : conn'[d].op = conn'[e].op => d = e \/ conn'[d].op = None
    BY <1>2, <1>6, <1>7, <1>9 DEF ConnInv
  <2> QED  BY <2>2, <2>3 DEF ConnInv
<1>13. QueueInv'
  <2>1. \A k \in 1..Len(queue') : queue'[k] \in 1..Len(ops') /\ ~ops'[queue'[k]].direct
    BY <1>1, <1>2, <1>4 DEF QueueInv
  <2>2. \A j, k \in 1..Len(queue') : j < k => queue'[j] < queue'[k]
    <3> SUFFICES ASSUME NEW j \in 1..Len(queue'), NEW k \in 1..Len(queue'), j < k
                 PROVE  queue'[j] < queue'[k]
      OBVIOUS
    <3>1. j + 1 \in 1..Len(queue) /\ k + 1 \in 1..Len(queue) /\ j + 1 < k + 1  BY <1>4
    <3>2. queue[j + 1] < queue[k + 1]  BY <1>2, <3>1 DEF QueueInv
    <3> QED  BY <1>4, <3>2
  <2>3. \A v \in Workers : \A k \in 1..Len(queue') : conn'[v].op < queue'[k]
    <3> SUFFICES ASSUME NEW v \in Workers, NEW k \in 1..Len(queue')
                 PROVE  conn'[v].op < queue[k + 1]
      BY <1>4
    <3>1. k + 1 \in 1..Len(queue) /\ 1 < k + 1  BY <1>4
    <3>2. conn[v].op < queue[k + 1] /\ queue[1] < queue[k + 1]
      BY <1>2, <1>4, <3>1 DEF QueueInv
    <3> QED  BY <1>4, <1>6, <1>7, <3>2 DEF Conns
  <2> QED  BY <2>1, <2>2, <2>3 DEF QueueInv
<1>14. OnlyRefusedAreLost' /\ CountInv'
  BY <1>1, <1>2, <1>10 DEF OnlyRefusedAreLost, AppliedWhole, CountInv
<1> QED  BY <1>10, <1>11, <1>12, <1>13, <1>14 DEF IInv

\* Close: what is queued is dropped.
LEMMA CloseStep ==
    ASSUME IInv, Close
    PROVE  IInv' /\ InPool' \subseteq InPool
<1>1. /\ closed < Cardinality(Workers) /\ closed' = closed + 1 /\ queue' = <<>>
      /\ UNCHANGED <<ops, conn, deadlockLock, rows, faults, struck, failed>>
  BY DEF Close
<1>2. TypeOK /\ ConnInv /\ QueueInv /\ CountInv  BY DEF IInv
<1>3. closed \in 0..Cardinality(Workers) /\ closed' \in 0..Cardinality(Workers) /\ closed' # 0
  BY <1>1, <1>2, ConstantTypes DEF TypeOK
<1>4. queue' \in Seq(1..MaxOps) /\ Len(queue') = 0 /\ Range(queue') = {}
  <2>1. queue' \in Seq(1..MaxOps) /\ Len(queue') = 0  BY <1>1
  <2>2. Range(queue') = {queue'[k] : k \in 1..Len(queue')}  BY <2>1, RangeIsElements
  <2>3. 1..Len(queue') = {}  BY <2>1
  <2> QED  BY <2>1, <2>2, <2>3
<1>5. TypeOK'  BY <1>1, <1>2, <1>3, <1>4 DEF TypeOK
<1>6. ConnInv'  BY <1>1, <1>2 DEF ConnInv
<1>7. QueueInv' /\ CountInv' /\ OnlyRefusedAreLost'
  BY <1>1, <1>2, <1>3, <1>4 DEF QueueInv, CountInv, OnlyRefusedAreLost
<1>8. InPool' \subseteq InPool  BY <1>1, <1>4 DEF InPool
<1> QED  BY <1>5, <1>6, <1>7, <1>8 DEF IInv

-----------------------------------------------------------------------------
(***************************************************************************)
(* The invariant, and what it says.                                        *)
(***************************************************************************)
\* Nothing has been submitted yet.
LEMMA InitHolds == Init => IInv
<1> SUFFICES ASSUME Init PROVE IInv  OBVIOUS
<1>1. /\ ops = <<>> /\ queue = <<>> /\ conn = [c \in Conns |-> Idle]
      /\ deadlockLock = None /\ rows = [k \in Keys |-> <<>>]
      /\ closed = 0 /\ faults = 0 /\ struck = {} /\ failed = {}
  BY DEF Init
<1>2. Idle \in Connection
  <2>1. None \in 0..MaxOps /\ 0 \in 0..LoopBreaker  BY ConstantTypes
  <2> QED  BY <2>1 DEF Idle, Connection
<1>3. TypeOK
  <2>1. /\ ops \in Seq(Operations) /\ Len(ops) = 0
        /\ queue \in Seq(1..MaxOps) /\ \A k \in Keys : rows[k] \in Seq(1..MaxOps)
    BY <1>1
  <2>2. conn \in [Conns -> Connection]  BY <1>1, <1>2
  <2>3. 0 <= MaxOps /\ 0 \in 0..MaxFaults /\ 0 \in 0..Cardinality(Workers)  BY ConstantTypes
  <2>4. rows \in [Keys -> Seq(1..MaxOps)]  BY <1>1, <2>1
  <2> QED  BY <1>1, <2>1, <2>2, <2>3, <2>4 DEF TypeOK, Connection
<1>4. \A c \in Conns : At(c, conn[c], ops, struck) /\ conn[c].op = None
  BY <1>1, IdleIsRight
<1>5. ConnInv  BY <1>4 DEF ConnInv
<1>6. 1..Len(queue) = {} /\ DOMAIN ops = {}  BY <1>1
<1>7. QueueInv /\ OnlyRefusedAreLost  BY <1>6 DEF QueueInv, OnlyRefusedAreLost
<1>8. CountInv
  <2>1. IsFiniteSet(struck) /\ Cardinality(struck) = 0  BY <1>1, FS_EmptySet
  <2> QED  BY <1>1, <2>1 DEF CountInv
<1> QED  BY <1>3, <1>5, <1>7, <1>8 DEF IInv

\* Every step keeps the invariant.
LEMMA StepHolds == IInv /\ [Next]_vars => IInv'
<1> SUFFICES ASSUME IInv, [Next]_vars PROVE IInv'  OBVIOUS
<1>1. CASE UNCHANGED vars
  <2>1. InPool' = InPool  BY <1>1 DEF vars, InPool
  <2> QED
    BY <1>1, <2>1 DEF vars, IInv, TypeOK, ConnInv, QueueInv, CountInv, OnlyRefusedAreLost, AppliedWhole
<1>2. ASSUME NEW op \in Operations, Enqueue(op) PROVE IInv'  BY <1>2, EnqueueStep
<1>3. ASSUME NEW op \in Operations, NEW c \in Directs, Direct(c, op) PROVE IInv'
  BY <1>3, DirectStep
<1>4. ASSUME NEW w \in Workers, Work(w) PROVE IInv'
  BY <1>4, PopStep, CallStep, LeaveStep, RetryStep DEF Work
<1>5. ASSUME NEW c \in Conns, Serve(c) PROVE IInv'
  BY <1>5, StatementStep, FinishStep DEF Serve
<1>6. ASSUME NEW c \in Conns, Error(c) \/ Deadlock(c) PROVE IInv'  BY <1>6, ErrorStep
<1>7. ASSUME NEW c \in Conns, Lose(c) \/ LoseReply(c) PROVE IInv'  BY <1>7, LossStep
<1>8. CASE Close  BY <1>8, CloseStep
<1> QED  BY <1>1, <1>2, <1>3, <1>4, <1>5, <1>6, <1>7, <1>8 DEF Next, Victim

\* The invariant holds in every state.
LEMMA Invariance == Spec => []IInv
  BY InitHolds, StepHolds, PTL DEF Spec

\* The operations, the queue, the connections and the rows have their types.
THEOREM TypesAreKept == Spec => []TypeOK
<1>1. IInv => TypeOK  BY DEF IInv
<1> QED  BY <1>1, Invariance, PTL

\* Before the pool is closed, whatever is neither waiting nor applied was refused
\* by MySQL, or its connection was lost: retries and their lock lose nothing.
THEOREM NothingIsLost == Spec => []OnlyRefusedAreLost
<1>1. IInv => OnlyRefusedAreLost  BY DEF IInv
<1> QED  BY <1>1, Invariance, PTL

-----------------------------------------------------------------------------
(***************************************************************************)
(* Every step of the pool is a step of AtomicStore, or none.               *)
(***************************************************************************)
\* The store counts and ranges as the pool does.
LEMMA SameOperators ==
    /\ \A S : Store!Cardinality(S) = Cardinality(S)
    /\ \A f : Store!Range(f) = Range(f)
<1>1. \A S : Store!Cardinality(S) = Cardinality(S)
  BY DEF Store!Cardinality, Cardinality, Store!IsFiniteSet, IsFiniteSet
<1>2. \A f : Store!Range(f) = Range(f)  BY DEF Store!Range, Range
<1> QED  BY <1>1, <1>2

\* An operation that a worker is at is overtaken by what other workers are at only:
\* the queue holds later ones.
LEMMA TurnOfConnection ==
    ASSUME IInv, NEW c \in Conns, Running(c)
    PROVE  conn[c].op \in InPool /\ Store!InTurn(conn[c].op)
<1> DEFINE n == conn[c].op
           others == Workers \ {c}
           older == Store!Older(n)
<1>1. TypeOK /\ ConnInv /\ QueueInv  BY DEF IInv
<1>2. n \in 1..MaxOps /\ n # None /\ (ops[n].direct <=> c \in Directs)
  BY ConnFacts DEF Running
<1>3. n \in InPool  BY <1>2 DEF InPool
<1>4. CASE c \in Directs  BY <1>2, <1>3, <1>4 DEF Store!InTurn
<1>5. CASE c \in Workers
  <2>1. ASSUME NEW m \in older PROVE \E v \in others : m = conn[v].op
    <3>1. m \in InPool /\ m < n /\ ~ops[m].direct  BY <2>1 DEF Store!Older
    <3>2. m \notin Range(queue)
      <4>1. queue \in Seq(1..MaxOps)  BY <1>1 DEF TypeOK
      <4>2. Range(queue) = {queue[k] : k \in 1..Len(queue)}  BY <4>1, RangeIsElements
      <4>3. \A k \in 1..Len(queue) : queue[k] \in 1..MaxOps  BY <4>1, ElementsOfSeq
      <4>4. \A k \in 1..Len(queue) : n < queue[k]  BY <1>1, <1>5 DEF QueueInv
      <4>5. \A k \in 1..Len(queue) : ~(queue[k] < n)  BY <1>2, <4>3, <4>4
      <4> QED  BY <3>1, <4>2, <4>5
    <3>3. PICK d \in Conns : m = conn[d].op  BY <3>1, <3>2 DEF InPool
    <3>4. d # c  BY <1>2, <3>1, <3>3
    <3>5. m # None  BY <3>1 DEF InPool
    <3>6. At(d, conn[d], ops, struck)  BY <1>1 DEF ConnInv
    <3>7. d \notin Directs  BY <3>1, <3>3, <3>5, <3>6 DEF At
    <3> QED  BY <3>3, <3>4, <3>7 DEF Conns
  <2> HIDE DEF older
  <2>2. IsFiniteSet(others) /\ Cardinality(others) < Cardinality(Workers)
    <3>1. /\ IsFiniteSet(others) /\ Cardinality(others) = Cardinality(Workers) - 1
          /\ Cardinality(Workers) \in Nat
      BY <1>5, ConstantTypes, FS_RemoveElement
    <3> QED  BY <3>1
  <2> DEFINE f == [v \in others |-> conn[v].op]
             image == {conn[v].op : v \in others}
  <2>3. f \in Surjection(others, image)  BY DEF Surjection
  <2> HIDE DEF f, others
  <2>4. IsFiniteSet(image) /\ Cardinality(image) <= Cardinality(others)
    BY <2>2, <2>3, FS_Surjection
  <2>5. older \in SUBSET image  BY <2>1 DEF others
  <2> HIDE DEF image
  <2>6. Cardinality(older) <= Cardinality(image) /\ IsFiniteSet(older)
    BY <2>4, <2>5, FS_Subset
  <2>7. /\ Cardinality(older) \in Nat /\ Cardinality(image) \in Nat
        /\ Cardinality(others) \in Nat /\ Cardinality(Workers) \in Nat
    BY <2>2, <2>4, <2>6, ConstantTypes, FS_CardinalityType
  <2>8. Cardinality(older) < Cardinality(Workers)  BY <2>2, <2>4, <2>6, <2>7
  <2> QED  BY <2>8, <1>3, SameOperators DEF Store!InTurn, older
<1> QED  BY <1>3, <1>4, <1>5 DEF Conns

\* A step that only takes operations out of the pool drops them.
LEMMA DropIsAllowed ==
    ASSUME InPool' \subseteq InPool, UNCHANGED <<ops, rows, struck>>
    PROVE  Store!Drop
<1> DEFINE lost == InPool \ InPool'
<1>1. lost \in SUBSET InPool /\ InPool' = InPool \ lost  OBVIOUS
<1> QED  BY <1>1 DEF Store!Drop

\* Enqueue and Direct submit.
LEMMA SubmitStep ==
    ASSUME IInv, NEW op \in Operations,
           Enqueue(op) \/ \E c \in Directs : Direct(c, op)
    PROVE  Store!Submit
<1> DEFINE n == Len(ops) + 1
<1>1. TypeOK /\ Len(ops) < MaxOps  BY DEF IInv, Enqueue, Direct
<1>2. n \in 1..MaxOps /\ n # None  BY <1>1, AppendOps, ConstantTypes
<1>3. CASE Enqueue(op)
  <2>1. /\ queue' = Append(queue, n) /\ ops' = Append(ops, op)
        /\ UNCHANGED <<conn, rows, struck>>
    BY <1>3 DEF Enqueue
  <2>2. queue \in Seq(1..MaxOps)  BY <1>1 DEF TypeOK
  <2> HIDE DEF n
  <2>3. Range(queue') = Range(queue) \cup {n}  BY <1>2, <2>1, <2>2, AppendRange
  <2>4. InPool' = InPool \cup {n}  BY <1>2, <2>1, <2>3 DEF InPool
  <2> QED  BY <2>1, <2>4 DEF n, Store!Submit
<1>4. ASSUME NEW c \in Directs, Direct(c, op) PROVE Store!Submit
  <2> DEFINE r == Started(n, op, 0)
  <2>1. /\ conn' = [conn EXCEPT ![c] = r] /\ ops' = Append(ops, op)
        /\ conn[c].pc = "idle" /\ UNCHANGED <<queue, rows, struck>>
    BY <1>4 DEF Direct
  <2>2. c \in Conns /\ conn[c].op = None
    <3>1. c \in Conns  BY DEF Conns
    <3> QED  BY <2>1, <3>1, ConnFacts DEF At
  <2>3. r.op = n  BY DEF Started
  <2> HIDE DEF r
  <2>4. conn'[c] = r /\ \A d \in Conns \ {c} : conn'[d] = conn[d]
    BY <1>1, <2>1, <2>2 DEF TypeOK
  <2> HIDE DEF n
  <2>5. {conn'[d].op : d \in Conns} = {n} \cup {conn[d].op : d \in Conns \ {c}}
    BY <2>2, <2>3, <2>4
  <2>6. {conn[d].op : d \in Conns} = {None} \cup {conn[d].op : d \in Conns \ {c}}
    BY <2>2
  <2>7. InPool' = InPool \cup {n}  BY <1>2, <2>1, <2>5, <2>6 DEF InPool
  <2> QED  BY <2>1, <2>7 DEF n, Store!Submit
<1> QED  BY <1>3, <1>4

\* A step of a connection that keeps its operation, the rows and the struck
\* operations changes nothing in the store; one that ends it drops it.
LEMMA ConnOnly ==
    ASSUME IInv, NEW c \in Conns, NEW r, conn' = [conn EXCEPT ![c] = r],
           r.op \in {None, conn[c].op}, UNCHANGED <<ops, queue, rows, struck>>
    PROVE  [Store!Next]_(Store!vars)
<1>1. /\ r.op = conn[c].op => InPool' = InPool
      /\ r.op = None => InPool' = InPool \ {conn[c].op}
  BY PoolEffect
<1>2. CASE r.op = conn[c].op  BY <1>1, <1>2 DEF Store!vars
<1>3. CASE r.op = None
  <2>1. InPool' \subseteq InPool  BY <1>1, <1>3
  <2> QED  BY <2>1, DropIsAllowed DEF Store!Next
<1> QED  BY <1>2, <1>3

\* Call, Leave and Retry.
LEMMA WorkStep ==
    ASSUME IInv, NEW w \in Workers, Call(w) \/ Leave(w) \/ Retry(w)
    PROVE  [Store!Next]_(Store!vars)
<1>1. w \in Conns  BY DEF Conns
<1>2. CASE Call(w)
  <2> DEFINE r == IF Told(w) THEN Gone ELSE Started(conn[w].op, Job(w), 0)
  <2>1. conn' = [conn EXCEPT ![w] = r] /\ UNCHANGED <<ops, queue, rows, struck>>
    BY <1>2 DEF Call
  <2>2. r.op \in {None, conn[w].op}  BY IdleIsRight DEF Started
  <2> HIDE DEF r
  <2> QED  BY <1>1, <2>1, <2>2, ConnOnly
<1>3. CASE Leave(w)
  <2>1. conn' = [conn EXCEPT ![w] = Gone] /\ UNCHANGED <<ops, queue, rows, struck>>
    BY <1>3 DEF Leave
  <2>2. Gone.op \in {None, conn[w].op}  BY IdleIsRight
  <2> QED  BY <1>1, <2>1, <2>2, ConnOnly
<1>4. CASE Retry(w)
  <2> DEFINE r == [Started(conn[w].op, Job(w), 1) EXCEPT !.at = conn[w].at]
  <2>1. conn' = [conn EXCEPT ![w] = r] /\ UNCHANGED <<ops, queue, rows, struck>>
    BY <1>4 DEF Retry
  <2>2. r.op \in {None, conn[w].op}  BY DEF Started
  <2> HIDE DEF r
  <2> QED  BY <1>1, <2>1, <2>2, ConnOnly
<1> QED  BY <1>2, <1>3, <1>4

\* A transaction that starts again stays; one that is given up is dropped.
LEMMA FailedMaps ==
    ASSUME IInv, NEW c \in Conns, NEW deadlock \in BOOLEAN, Running(c), Failed(c, deadlock),
           UNCHANGED <<ops, queue, rows, struck>>
    PROVE  [Store!Next]_(Store!vars)
<1> DEFINE waiting == [conn[c] EXCEPT !.pc = "wait", !.tx = FALSE, !.writes = {}, !.at = RestartAt(c)]
           started == [Started(conn[c].op, Job(c), conn[c].tries + 1) EXCEPT !.at = RestartAt(c)]
<1>1. waiting.op = conn[c].op
  <2>1. conn[c] \in Connection  BY ConnFacts
  <2> QED  BY <2>1 DEF Connection
<1>2. started.op = conn[c].op  BY DEF Started
<1>3. \/ conn' = [conn EXCEPT ![c] = waiting]
      \/ conn' = [conn EXCEPT ![c] = started]
      \/ conn' = [conn EXCEPT ![c] = Idle]
  BY DEF Failed
<1> HIDE DEF waiting, started
<1> QED  BY <1>1, <1>2, <1>3, IdleIsRight, ConnOnly

\* Some of the rows of an operation whose connection was lost are written.
LEMMA TearIsAllowed ==
    ASSUME IInv, IInv', NEW c \in Conns, Running(c), NEW keys \in SUBSET Range(Job(c).keys),
           rows' = Written(keys, conn[c].op), struck' = struck \cup {conn[c].op},
           InPool' = InPool, UNCHANGED ops
    PROVE  Store!Next
<1> DEFINE n == conn[c].op
<1>1. n \in InPool /\ Store!InTurn(n)  BY TurnOfConnection
<1>2. Job(c) = ops[n]  BY DEF Job
<1>3. Store!Write(n, keys)  BY DEF Store!Write, Written
<1>4. Cardinality(struck') <= MaxFaults
  <2>1. IsFiniteSet(struck') /\ Cardinality(struck') <= faults' /\ faults' \in 0..MaxFaults
    BY DEF IInv, CountInv, TypeOK
  <2>2. Cardinality(struck') \in Nat  BY <2>1, FS_CardinalityType
  <2> QED  BY <2>1, <2>2, ConstantTypes
<1>5. Store!Tear(n)  BY <1>1, <1>2, <1>3, <1>4, SameOperators DEF Store!Tear
<1> QED  BY <1>1, <1>5 DEF Store!Next

\* All the rows of an operation are written, and it is done.
LEMMA ApplyIsAllowed ==
    ASSUME IInv, NEW c \in Conns, Running(c),
           rows' = Written(Range(Job(c).keys), conn[c].op),
           InPool' = InPool \ {conn[c].op}, UNCHANGED <<ops, struck>>
    PROVE  Store!Next
<1> DEFINE n == conn[c].op
<1>1. n \in InPool /\ Store!InTurn(n)  BY TurnOfConnection
<1>2. Job(c) = ops[n]  BY DEF Job
<1>3. Store!Write(n, Range(ops[n].keys))  BY <1>2 DEF Store!Write, Written
<1>4. Store!Apply(n)  BY <1>1, <1>3, SameOperators DEF Store!Apply
<1> QED  BY <1>1, <1>4 DEF Store!Next

\* No row is written.
LEMMA NothingWritten ==
    ASSUME TypeOK, NEW n
    PROVE  Written({}, n) = rows
<1>1. rows \in [Keys -> Seq(1..MaxOps)]  BY DEF TypeOK
<1>2. Written({}, n) = [k \in Keys |-> rows[k]]  BY DEF Written
<1> QED  BY <1>1, <1>2

\* Statement: a statement of its own is applied; one in a transaction of MySQL
\* changes no row yet; one of a transaction that lost its own writes its row.
LEMMA StatementMaps ==
    ASSUME IInv, IInv', NEW c \in Conns, Statement(c)
    PROVE  [Store!Next]_(Store!vars)
<1> DEFINE n == conn[c].op
           next == [conn[c] EXCEPT !.at = conn[c].at + 1,
                      !.writes = IF conn[c].tx THEN conn[c].writes \cup {Key(c)} ELSE conn[c].writes]
           r == IF Job(c).transaction THEN next ELSE Idle
<1>1. /\ conn' = [conn EXCEPT ![c] = r] /\ AtKey(c)
      /\ rows' = IF conn[c].tx THEN rows ELSE Written({Key(c)}, n)
      /\ UNCHANGED <<ops, queue, deadlockLock, closed, faults, struck, failed>>
  BY DEF Statement
<1>2. conn[c].pc = "run" /\ conn[c].at \in 1..Len(Job(c).keys)
      /\ Key(c) = Job(c).keys[conn[c].at] /\ Key(c) \in Keys
  BY <1>1, KeyFacts
<1>3. /\ conn[c] \in Connection /\ At(c, conn[c], ops, struck)
      /\ n # None /\ Job(c) = ops[n] /\ Job(c).keys \in Seq(Keys) /\ Len(Job(c).keys) \in Nat
      /\ Job(c).transaction \in BOOLEAN /\ (conn[c].tx => Job(c).transaction)
      /\ Job(c).transaction \/ Len(Job(c).keys) <= 1
  BY <1>2, ConnFacts
<1>4. Running(c)  BY <1>2 DEF Running
<1>5. next.op = n
  <2> DEFINE ws == IF conn[c].tx THEN conn[c].writes \cup {Key(c)} ELSE conn[c].writes
  <2>1. next = [conn[c] EXCEPT !.at = conn[c].at + 1, !.writes = ws]  OBVIOUS
  <2> HIDE DEF ws, next
  <2> QED  BY <1>3, <2>1 DEF Connection
<1>6. Range(Job(c).keys) = {Job(c).keys[k] : k \in 1..Len(Job(c).keys)}  BY <1>3, RangeIsElements
<1>7. Key(c) \in Range(Job(c).keys)  BY <1>2, <1>6
<1> HIDE DEF next
<1>8. CASE Job(c).transaction
  <2>1. conn' = [conn EXCEPT ![c] = next]  BY <1>1, <1>8
  <2> HIDE DEF r
  <2>2. CASE conn[c].tx
    <3>1. rows' = rows  BY <1>1, <2>2
    <3> QED  BY <1>1, <1>5, <2>1, <3>1, ConnOnly
  <2>3. CASE ~conn[c].tx
    <3>1. struck' = struck \cup {n} /\ rows' = Written({Key(c)}, n)
      BY <1>1, <1>2, <1>3, <1>8, <2>3 DEF At
    <3>2. InPool' = InPool  BY <1>1, <1>5, <2>1, PoolEffect
    <3>3. {Key(c)} \in SUBSET Range(Job(c).keys)  BY <1>7
    <3> QED  BY <1>1, <1>4, <3>1, <3>2, <3>3, TearIsAllowed
  <2> QED  BY <2>2, <2>3
<1>9. CASE ~Job(c).transaction
  <2>1. conn' = [conn EXCEPT ![c] = Idle]  BY <1>1, <1>9
  <2> HIDE DEF r
  <2>2. rows' = Written({Key(c)}, n)  BY <1>1, <1>3, <1>9
  <2>3. InPool' = InPool \ {n}  BY <1>1, <2>1, IdleIsRight, PoolEffect
  <2>4. Range(Job(c).keys) = {Key(c)}
    <3>1. Len(Job(c).keys) = 1 /\ conn[c].at = 1  BY <1>2, <1>3, <1>9, OnlyOne, Zenon
    <3> QED  BY <1>2, <1>6, <3>1
  <2>5. UNCHANGED <<ops, struck>>  BY <1>1
  <2> QED  BY <1>4, <2>2, <2>3, <2>4, <2>5, ApplyIsAllowed
<1> QED  BY <1>3, <1>8, <1>9

\* Finish applies the operation, or drops one that lost its transaction.
LEMMA FinishMaps ==
    ASSUME IInv, NEW c \in Conns, Finish(c)
    PROVE  [Store!Next]_(Store!vars)
<1>1. /\ conn' = [conn EXCEPT ![c] = Idle] /\ Running(c) /\ ~AtKey(c)
      /\ rows' = Written(conn[c].writes, conn[c].op)
      /\ UNCHANGED <<ops, queue, struck>>
  BY DEF Finish
<1>2. InPool' = InPool \ {conn[c].op}  BY <1>1, IdleIsRight, PoolEffect
<1>3. CASE conn[c].tx
  <2>1. rows' = Written(Range(Job(c).keys), conn[c].op)  BY <1>1, <1>3, CommitWritesAll
  <2> QED  BY <1>1, <1>2, <2>1, ApplyIsAllowed
<1>4. CASE ~conn[c].tx
  <2>1. rows' = rows  BY <1>1, <1>4, CommitWritesAll, NothingWritten DEF IInv
  <2> QED  BY <1>1, <2>1, IdleIsRight, ConnOnly
<1> QED  BY <1>3, <1>4, ConnFacts

\* A lost connection writes nothing, one statement, or all that is committed.
LEMMA LossMaps ==
    ASSUME IInv, IInv', NEW c \in Conns, Lose(c) \/ LoseReply(c)
    PROVE  Store!Next
<1> DEFINE r == [conn[c] EXCEPT !.tx = FALSE, !.writes = {}]
<1>1. /\ struck' = struck \cup {conn[c].op} /\ UNCHANGED <<ops, queue>>
      /\ conn' = [conn EXCEPT ![c].tx = FALSE, ![c].writes = {}]
  BY DEF Lose, LoseReply, Strike
<1>2. TypeOK /\ conn[c] \in Connection  BY ConnFacts DEF IInv
<1>3. conn' = [conn EXCEPT ![c] = r] /\ r.op = conn[c].op
  BY <1>1, <1>2 DEF TypeOK, Connection
<1> HIDE DEF r
<1>4. InPool' = InPool  BY <1>1, <1>3, PoolEffect
<1>5. Running(c)
  BY ConnFacts DEF Lose, LoseReply, AtKey, Running, At
<1>6. \E keys \in SUBSET Range(Job(c).keys) : rows' = Written(keys, conn[c].op)
  <2>1. CASE Lose(c)
    <3>1. rows' = Written({}, conn[c].op)  BY <1>2, <2>1, NothingWritten DEF Lose
    <3>2. {} \in SUBSET Range(Job(c).keys)  OBVIOUS
    <3> QED  BY <3>1, <3>2
  <2>2. CASE AtKey(c) /\ rows' = Written({Key(c)}, conn[c].op)
    <3>1. conn[c].at \in 1..Len(Job(c).keys) /\ Key(c) = Job(c).keys[conn[c].at]
      BY <2>2, KeyFacts
    <3>2. Job(c).keys \in Seq(Keys)  BY <1>5, ConnFacts DEF Running
    <3>3. Range(Job(c).keys) = {Job(c).keys[k] : k \in 1..Len(Job(c).keys)}
      BY <3>2, RangeIsElements
    <3>4. {Key(c)} \in SUBSET Range(Job(c).keys)  BY <3>1, <3>3
    <3> QED  BY <2>2, <3>4
  <2>3. CASE ~AtKey(c) /\ conn[c].tx /\ rows' = Written(conn[c].writes, conn[c].op)
    <3>1. conn[c].writes \in SUBSET Range(Job(c).keys)  BY <1>5, <2>3, CommitWritesAll
    <3> QED  BY <2>3, <3>1
  <2> QED  BY <2>1, <2>2, <2>3 DEF LoseReply
<1> QED  BY <1>1, <1>4, <1>5, <1>6, TearIsAllowed

\* The step simulation.
LEMMA StoreStep == IInv /\ IInv' /\ [Next]_vars => [Store!Next]_(Store!vars)
<1> SUFFICES ASSUME IInv, IInv', [Next]_vars PROVE [Store!Next]_(Store!vars)  OBVIOUS
<1>1. CASE UNCHANGED vars  BY <1>1 DEF vars, InPool, Store!vars
<1>2. ASSUME NEW op \in Operations, Enqueue(op) \/ \E c \in Directs : Direct(c, op)
      PROVE  Store!Next
  BY <1>2, SubmitStep DEF Store!Next
<1>3. ASSUME NEW w \in Workers, Work(w) PROVE [Store!Next]_(Store!vars)
  <2>1. CASE Pop(w)
    <3>1. InPool' = InPool /\ UNCHANGED <<ops, rows, struck>>  BY <2>1, PopStep DEF Pop
    <3> QED  BY <3>1 DEF Store!vars
  <2> QED  BY <1>3, <2>1, WorkStep DEF Work
<1>4. ASSUME NEW c \in Conns, Serve(c) PROVE [Store!Next]_(Store!vars)
  BY <1>4, StatementMaps, FinishMaps DEF Serve
<1>5. ASSUME NEW c \in Conns, Error(c) PROVE [Store!Next]_(Store!vars)
  BY <1>5, FailedMaps DEF Error, AtKey
<1>6. ASSUME NEW c \in Conns, Deadlock(c) PROVE [Store!Next]_(Store!vars)
  BY <1>6, FailedMaps DEF Deadlock, WaitsFor, AtKey
<1>7. ASSUME NEW c \in Conns, Lose(c) \/ LoseReply(c) PROVE Store!Next  BY <1>7, LossMaps
<1>8. CASE Close
  <2>1. InPool' \subseteq InPool /\ UNCHANGED <<ops, rows, struck>>
    BY <1>8, CloseStep DEF Close
  <2> QED  BY <2>1, DropIsAllowed DEF Store!Next
<1> QED  BY <1>1, <1>2, <1>3, <1>4, <1>5, <1>6, <1>7, <1>8 DEF Next, Victim

\* Whatever the threads, deadlocks, retries, errors and losses of connections,
\* the pool implements AtomicStore: an operation is applied once and whole or
\* not at all, and only as many overtake it as there are other workers.
THEOREM Refinement == Spec => ImplementsStore
<1>1. Init => Store!Init
  <2> SUFFICES ASSUME Init PROVE Store!Init  OBVIOUS
  <2>1. /\ ops = <<>> /\ queue = <<>> /\ rows = [k \in Keys |-> <<>>] /\ struck = {}
        /\ \A c \in Conns : conn[c].op = None
    BY IdleIsRight DEF Init
  <2>2. Range(queue) = {}  BY <2>1 DEF Range
  <2>3. InPool = {}  BY <2>1, <2>2 DEF InPool
  <2> QED  BY <2>1, <2>3 DEF Store!Init
<1>2. IInv /\ IInv' /\ [Next]_vars => [Store!Next]_(Store!vars)  BY StoreStep
<1> QED  BY <1>1, <1>2, Invariance, PTL DEF Spec, ImplementsStore, Store!Spec
-----------------------------------------------------------------------------
(***************************************************************************)
(* What the store's order is worth to those who queue operations.          *)
(***************************************************************************)
\* The queued operations older than the i-th write of row k that came after it,
\* or may still come.
Late(k, i) ==
    {m \in 1..rows[k][i] - 1 :
       /\ ~ops[m].direct
       /\ m \in InPool \/ \E j \in i + 1..Len(rows[k]) : rows[k][j] = m}

\* What is written is done with, unless its connection was lost; and what may
\* still come counts as overtaken already.
InOrder(k, i) ==
    LET n == rows[k][i] IN
    /\ n \in 1..Len(ops)
    /\ n \notin struck => n \notin InPool /\ \A j \in i + 1..Len(rows[k]) : rows[k][j] # n
    /\ ops[n].direct \/ Cardinality(Late(k, i)) < Cardinality(Workers)

OrderInv == \A k \in Keys : \A i \in 1..Len(rows[k]) : InOrder(k, i)

\* A set below a number is finite, and a part of it no larger.
LEMMA SmallerSet ==
    ASSUME NEW n \in Nat, NEW S, S \subseteq 1..n - 1, NEW T, T \subseteq S
    PROVE  /\ IsFiniteSet(S) /\ IsFiniteSet(T)
           /\ Cardinality(S) \in Nat /\ Cardinality(T) \in Nat
           /\ Cardinality(T) <= Cardinality(S)
<1>1. IsFiniteSet(1..n - 1)  BY FS_Interval
<1>2. IsFiniteSet(S)  BY <1>1, FS_Subset
<1>3. IsFiniteSet(T) /\ Cardinality(T) <= Cardinality(S)  BY <1>2, FS_Subset
<1> QED  BY <1>2, <1>3, FS_CardinalityType

\* A write that stays where it is stays in order if no more may come after it.
LEMMA OrderKept ==
    ASSUME TypeOK, NEW k \in Keys, NEW i \in 1..Len(rows[k]), InOrder(k, i),
           i \in 1..Len(rows'[k]), rows'[k][i] = rows[k][i],
           Len(ops) <= Len(ops'), Len(ops') \in Nat, \A m \in 1..Len(ops) : ops'[m] = ops[m],
           struck \subseteq struck',
           \A m \in 1..Len(ops) : m \in InPool' => m \in InPool,
           \A j \in i + 1..Len(rows'[k]) :
             \/ rows'[k][j] \in InPool
             \/ \E l \in i + 1..Len(rows[k]) : rows[k][l] = rows'[k][j]
    PROVE  InOrder(k, i)'
<1> DEFINE n == rows[k][i]
<1>1. n \in 1..Len(ops) /\ Len(ops) \in Nat  BY OperationTypes DEF InOrder
<1>2. n \in 1..Len(ops') /\ ops'[n].direct = ops[n].direct  BY <1>1
<1>3. ASSUME n \notin struck'
      PROVE  n \notin InPool' /\ \A j \in i + 1..Len(rows'[k]) : rows'[k][j] # n
  <2>1. n \notin InPool /\ \A j \in i + 1..Len(rows[k]) : rows[k][j] # n  BY <1>3 DEF InOrder
  <2> QED  BY <1>1, <2>1
<1>4. Late(k, i)' \subseteq Late(k, i)
  <2> SUFFICES ASSUME NEW m \in 1..n - 1, ~ops'[m].direct,
                      m \in InPool' \/ \E j \in i + 1..Len(rows'[k]) : rows'[k][j] = m
               PROVE  m \in Late(k, i)
    BY DEF Late
  <2>1. m \in 1..Len(ops) /\ ~ops[m].direct  BY <1>1
  <2>2. m \in InPool \/ \E j \in i + 1..Len(rows[k]) : rows[k][j] = m  BY <2>1
  <2> QED  BY <2>1, <2>2 DEF Late
<1>5. Late(k, i) \subseteq 1..n - 1 /\ n \in Nat  BY <1>1 DEF Late
<1>6. /\ Cardinality(Late(k, i)') <= Cardinality(Late(k, i))
      /\ Cardinality(Late(k, i)) \in Nat /\ Cardinality(Late(k, i)') \in Nat
  BY <1>4, <1>5, SmallerSet
<1>7. Cardinality(Workers) \in Nat  BY ConstantTypes
<1>8. ops[n].direct \/ Cardinality(Late(k, i)') < Cardinality(Workers)
  BY <1>6, <1>7 DEF InOrder
<1> QED  BY <1>2, <1>3, <1>8 DEF InOrder

\* What is in the pool has been submitted.
LEMMA PoolNumbers ==
    ASSUME IInv
    PROVE  InPool \subseteq 1..Len(ops)
<1> SUFFICES ASSUME NEW n \in InPool PROVE n \in 1..Len(ops)  OBVIOUS
<1>1. TypeOK /\ ConnInv /\ QueueInv  BY DEF IInv
<1>2. CASE n \in Range(queue)
  <2>1. Range(queue) = {queue[k] : k \in 1..Len(queue)}  BY <1>1, RangeIsElements DEF TypeOK
  <2> QED  BY <1>1, <1>2, <2>1 DEF QueueInv
<1>3. ASSUME NEW c \in Conns, n = conn[c].op, n # None PROVE n \in 1..Len(ops)
  BY <1>1, <1>3 DEF ConnInv, At
<1> QED  BY <1>2, <1>3 DEF InPool

\* An operation in turn that is applied, or torn, is written in order.
LEMMA WriteKeepsOrder ==
    ASSUME IInv, IInv', OrderInv, NEW n \in InPool, n \in 1..Len(ops), Store!InTurn(n), NEW keys,
           rows' = Written(keys, n), ops' = ops,
           struck \subseteq struck', InPool' \subseteq InPool, n \notin InPool' \/ n \in struck'
    PROVE  OrderInv'
<1>0. TypeOK /\ TypeOK'  BY DEF IInv
<1>1. Len(ops) \in Nat /\ n \in Nat /\ n \in 1..MaxOps
  BY <1>0, OperationTypes, ConstantTypes
<1> SUFFICES ASSUME NEW k \in Keys, NEW i \in 1..Len(rows'[k]) PROVE InOrder(k, i)'
  BY DEF OrderInv
<1>2. rows[k] \in Seq(1..MaxOps) /\ rows'[k] \in Seq(1..MaxOps)  BY <1>0 DEF TypeOK
<1>3. rows'[k] = IF k \in keys THEN Append(rows[k], n) ELSE rows[k]  BY DEF Written
<1>4. /\ Len(rows[k]) \in Nat /\ Len(rows'[k]) \in Nat
      /\ \A j \in 1..Len(rows'[k]) : \/ j \in 1..Len(rows[k]) /\ rows'[k][j] = rows[k][j]
                                     \/ j = Len(rows[k]) + 1 /\ rows'[k][j] = n
  BY <1>1, <1>2, <1>3
<1>5. Len(rows'[k]) <= Len(rows[k]) + 1  BY <1>2, <1>3
<1>6. CASE i \in 1..Len(rows[k])
  <2>1. rows'[k][i] = rows[k][i]  BY <1>4, <1>6
  <2>2. InOrder(k, i)  BY <1>6 DEF OrderInv
  <2>3. ASSUME NEW j \in i + 1..Len(rows'[k])
        PROVE  \/ rows'[k][j] \in InPool
               \/ \E l \in i + 1..Len(rows[k]) : rows[k][l] = rows'[k][j]
    <3>1. j \in 1..Len(rows'[k])  BY <1>4
    <3>2. CASE j = Len(rows[k]) + 1 /\ rows'[k][j] = n  BY <3>2
    <3>3. CASE j \in 1..Len(rows[k]) /\ rows'[k][j] = rows[k][j]
      <4>1. j \in i + 1..Len(rows[k])  BY <1>4, <3>3
      <4> QED  BY <3>3, <4>1
    <3> QED  BY <1>4, <3>1, <3>2, <3>3
  <2> QED  BY <1>0, <1>1, <1>6, <2>1, <2>2, <2>3, OrderKept
<1>7. CASE i = Len(rows[k]) + 1 /\ rows'[k][i] = n
  <2>1. i + 1..Len(rows'[k]) = {}  BY <1>4, <1>5, <1>7
  <2>2. Late(k, i)' = {m \in 1..n - 1 : ~ops[m].direct /\ m \in InPool'}
    BY <1>7, <2>1 DEF Late
  <2>3. Late(k, i)' \subseteq Store!Older(n) \cap 1..n - 1
    BY <1>1, <2>2 DEF Store!Older
  <2>4. Store!Older(n) \subseteq 1..n - 1
    <3>1. InPool \subseteq 1..Len(ops)  BY PoolNumbers
    <3> SUFFICES ASSUME NEW m \in Store!Older(n) PROVE m \in 1..n - 1  OBVIOUS
    <3>2. m \in 1..Len(ops) /\ m < n  BY <3>1 DEF Store!Older
    <3> QED  BY <1>1, <3>2
  <2>5. /\ Cardinality(Late(k, i)') <= Cardinality(Store!Older(n))
        /\ Cardinality(Late(k, i)') \in Nat /\ Cardinality(Store!Older(n)) \in Nat
    BY <1>1, <2>3, <2>4, SmallerSet
  <2>6. ops[n].direct \/ Cardinality(Store!Older(n)) < Cardinality(Workers)
    BY SameOperators DEF Store!InTurn
  <2>7. Cardinality(Workers) \in Nat  BY ConstantTypes
  <2>8. ops[n].direct \/ Cardinality(Late(k, i)') < Cardinality(Workers)  BY <2>5, <2>6, <2>7
  <2> QED  BY <1>7, <2>1, <2>8 DEF InOrder
<1> QED  BY <1>4, <1>6, <1>7

\* Every step of the store keeps the order.
LEMMA OrderStep == IInv /\ IInv' /\ OrderInv /\ [Store!Next]_(Store!vars) => OrderInv'
<1> SUFFICES ASSUME IInv, IInv', OrderInv, [Store!Next]_(Store!vars) PROVE OrderInv'  OBVIOUS
<1>1. TypeOK /\ TypeOK' /\ Len(ops) \in Nat /\ Len(ops') \in Nat /\ InPool \subseteq 1..Len(ops)
  BY OperationTypes, PoolNumbers DEF IInv, TypeOK
<1>2. ASSUME UNCHANGED rows, Len(ops) <= Len(ops'), \A m \in 1..Len(ops) : ops'[m] = ops[m],
             struck \subseteq struck', \A m \in 1..Len(ops) : m \in InPool' => m \in InPool
      PROVE  OrderInv'
  <2> SUFFICES ASSUME NEW k \in Keys, NEW i \in 1..Len(rows'[k]) PROVE InOrder(k, i)'
    BY DEF OrderInv
  <2>1. i \in 1..Len(rows[k]) /\ InOrder(k, i)  BY <1>2 DEF OrderInv
  <2> QED  BY <1>1, <1>2, <2>1, OrderKept
<1>3. CASE UNCHANGED Store!vars
  <2>1. UNCHANGED <<ops, InPool, rows, struck>>  BY <1>3 DEF Store!vars
  <2> QED  BY <1>1, <1>2, <2>1
<1>4. CASE Store!Submit
  <2>1. PICK op \in Operations : ops' = Append(ops, op)  BY <1>4 DEF Store!Submit
  <2>2. UNCHANGED <<rows, struck>> /\ InPool' = InPool \cup {Len(ops) + 1}
    BY <1>4 DEF Store!Submit
  <2>3. Len(ops) <= Len(ops') /\ \A m \in 1..Len(ops) : ops'[m] = ops[m]
    BY <1>1, <2>1, AppendOps
  <2>4. \A m \in 1..Len(ops) : m \in InPool' => m \in InPool  BY <1>1, <2>2
  <2> QED  BY <1>2, <2>2, <2>3, <2>4
<1>5. CASE Store!Drop
  <2>1. UNCHANGED <<ops, rows, struck>> /\ InPool' \subseteq InPool  BY <1>5 DEF Store!Drop
  <2> QED  BY <1>1, <1>2, <2>1
<1>6. ASSUME NEW n \in InPool, Store!Apply(n) PROVE OrderInv'
  <2>1. /\ Store!InTurn(n) /\ ops' = ops /\ struck' = struck /\ InPool' = InPool \ {n}
        /\ rows' = Written(Store!Range(ops[n].keys), n)
    BY <1>6 DEF Store!Apply, Store!Write, Written
  <2> QED  BY <1>1, <2>1, WriteKeepsOrder
<1>7. ASSUME NEW n \in InPool, Store!Tear(n) PROVE OrderInv'
  <2>1. /\ Store!InTurn(n) /\ ops' = ops /\ struck' = struck \cup {n} /\ InPool' \subseteq InPool
        /\ \E keys : rows' = Written(keys, n)
    BY <1>7 DEF Store!Tear, Store!Write, Written
  <2>2. PICK keys : rows' = Written(keys, n)  BY <2>1
  <2> QED  BY <1>1, <2>1, <2>2, WriteKeepsOrder
<1> QED  BY <1>3, <1>4, <1>5, <1>6, <1>7 DEF Store!Next

\* The order holds in every state.
LEMMA OrderInvariance == Spec => []OrderInv
<1>1. Init => OrderInv
  <2> SUFFICES ASSUME Init PROVE OrderInv  OBVIOUS
  <2>1. \A k \in Keys : 1..Len(rows[k]) = {}  BY DEF Init
  <2> QED  BY <2>1 DEF OrderInv
<1>2. IInv /\ IInv' /\ [Next]_vars /\ OrderInv => OrderInv'  BY StoreStep, OrderStep
<1> QED  BY <1>1, <1>2, Invariance, PTL DEF Spec

\* The older operations that follow a write are among the late ones.
LEMMA LaterIsLate ==
    ASSUME TypeOK, NEW k \in Keys, NEW i \in 1..Len(rows[k]), InOrder(k, i)
    PROVE  LET n == rows[k][i]
               passed == {m \in Store!Later(k, i) : m < n /\ ~ops[m].direct} IN
           /\ IsFiniteSet(passed) /\ Cardinality(passed) \in Nat
           /\ ops[n].direct \/ Cardinality(passed) < Cardinality(Workers)
<1> DEFINE n == rows[k][i]
           passed == {m \in Store!Later(k, i) : m < n /\ ~ops[m].direct}
<1>1. rows[k] \in Seq(1..MaxOps) /\ Len(rows[k]) \in Nat  BY DEF TypeOK
<1>2. n \in 1..MaxOps /\ \A j \in 1..Len(rows[k]) : rows[k][j] \in 1..MaxOps
  BY <1>1, ElementsOfSeq
<1>3. MaxOps \in Nat /\ Cardinality(Workers) \in Nat  BY ConstantTypes
<1>4. passed \subseteq Late(k, i)
  <2> SUFFICES ASSUME NEW j \in i + 1..Len(rows[k]), rows[k][j] < n, ~ops[rows[k][j]].direct
               PROVE  rows[k][j] \in Late(k, i)
    BY DEF Store!Later
  <2>1. j \in 1..Len(rows[k])  BY <1>1
  <2>2. rows[k][j] \in 1..n - 1  BY <1>2, <1>3, <2>1
  <2> QED  BY <2>2 DEF Late
<1>5. Late(k, i) \subseteq 1..n - 1 /\ n \in Nat  BY <1>2, <1>3 DEF Late
<1> HIDE DEF passed
<1>6. /\ IsFiniteSet(passed) /\ Cardinality(passed) \in Nat /\ Cardinality(Late(k, i)) \in Nat
      /\ Cardinality(passed) <= Cardinality(Late(k, i))
  BY <1>4, <1>5, SmallerSet
<1>7. ops[n].direct \/ Cardinality(passed) < Cardinality(Workers)
  BY <1>3, <1>6 DEF InOrder
<1> QED  BY <1>6, <1>7 DEF passed

\* For any number of workers, no operation is written twice to a row unless its
\* connection was lost, and a write is followed by fewer operations that were
\* queued before it than there are workers.
THEOREM WritesAreInOrder == Spec => []OnceAndInOrder
<1>1. ASSUME IInv, OrderInv PROVE OnceAndInOrder
  <2> SUFFICES ASSUME NEW k \in Keys, NEW i \in DOMAIN rows[k]
               PROVE  LET n == rows[k][i] IN
                      /\ n \in Store!Later(k, i) => n \in struck
                      /\ \/ ops[n].direct
                         \/ Store!Cardinality({m \in Store!Later(k, i) : m < n /\ ~ops[m].direct})
                              < Cardinality(Workers)
    BY DEF OnceAndInOrder, Store!OnceAndInOrder
  <2>1. TypeOK /\ rows[k] \in Seq(1..MaxOps)  BY <1>1 DEF IInv, TypeOK
  <2>2. i \in 1..Len(rows[k])  BY <2>1
  <2>3. InOrder(k, i)  BY <1>1, <2>2 DEF OrderInv
  <2>4. rows[k][i] \in Store!Later(k, i) => rows[k][i] \in struck
    BY <2>3 DEF InOrder, Store!Later
  <2> QED  BY <2>1, <2>2, <2>3, <2>4, LaterIsLate, SameOperators
<1> QED  BY <1>1, Invariance, OrderInvariance, PTL

\* Of two queued operations that wrote the same row, the later wrote later.
RowsInOrder ==
    \A k \in Keys : \A i, j \in DOMAIN rows[k] :
      LET m == rows[k][i]
          n == rows[k][j]
      IN  i < j /\ ~ops[m].direct /\ ~ops[n].direct => m < n \/ (m = n /\ m \in struck)

\* With one worker, the default for every database, the writes of a row are in
\* the order in which they were queued, whatever is tried again, fails or is lost
\* (DatabaseLoader.cpp:44): the order that sessions, resets and mails count on.
THEOREM OneWorkerKeepsOrder ==
    ASSUME Cardinality(Workers) = 1
    PROVE  Spec => []RowsInOrder
<1>1. ASSUME IInv, OrderInv PROVE RowsInOrder
  <2> SUFFICES ASSUME NEW k \in Keys, NEW i \in DOMAIN rows[k], NEW j \in DOMAIN rows[k],
                      i < j, ~ops[rows[k][i]].direct, ~ops[rows[k][j]].direct
               PROVE  \/ rows[k][i] < rows[k][j]
                      \/ rows[k][i] = rows[k][j] /\ rows[k][i] \in struck
    BY DEF RowsInOrder
  <2> DEFINE m == rows[k][i]
             n == rows[k][j]
             passed == {l \in Store!Later(k, i) : l < m /\ ~ops[l].direct}
  <2>1. TypeOK /\ rows[k] \in Seq(1..MaxOps)  BY <1>1 DEF IInv, TypeOK
  <2>2. i \in 1..Len(rows[k]) /\ j \in i + 1..Len(rows[k])  BY <2>1
  <2>3. InOrder(k, i)  BY <1>1, <2>2 DEF OrderInv
  <2>4. m \in 1..MaxOps /\ n \in 1..MaxOps /\ MaxOps \in Nat  BY <2>1, ElementsOfSeq, ConstantTypes
  <2>5. n \in Store!Later(k, i)  BY <2>2 DEF Store!Later
  <2>6. m = n => m \in struck  BY <2>2, <2>3 DEF InOrder
  <2>7. ~(n < m)
    <3> SUFFICES ASSUME n < m PROVE FALSE  OBVIOUS
    <3>1. n \in passed  BY <2>5
    <3>2. IsFiniteSet(passed) /\ Cardinality(passed) \in Nat /\ Cardinality(passed) < 1
      BY <2>1, <2>2, <2>3, LaterIsLate
    <3> HIDE DEF passed
    <3>3. Cardinality(passed) = 0  BY <3>2
    <3>4. passed = {}  BY <3>2, <3>3, FS_EmptySet
    <3> QED  BY <3>1, <3>4
  <2> QED  BY <2>4, <2>6, <2>7
<1> QED  BY <1>1, Invariance, OrderInvariance, PTL

-----------------------------------------------------------------------------
\* What AllOrNothing should say: a transaction that has written a row has
\* written all of its own, unless its connection was lost.
Whole(n) == (\E k \in Keys : n \in Range(rows[k])) => AppliedWhole(n)
WholeUnlessStruck == \A n \in 1..Len(ops) \ struck : Whole(n)

\* A row gets what Written appends, and nothing else.
LEMMA WrittenRanges ==
    ASSUME TypeOK, NEW keys, NEW n \in 1..MaxOps, NEW k \in Keys
    PROVE  /\ k \in keys => Range(Written(keys, n)[k]) = Range(rows[k]) \cup {n}
           /\ k \notin keys => Range(Written(keys, n)[k]) = Range(rows[k])
<1>1. rows[k] \in Seq(1..MaxOps)  BY DEF TypeOK
<1>2. Written(keys, n)[k] = IF k \in keys THEN Append(rows[k], n) ELSE rows[k]  BY DEF Written
<1> QED  BY <1>1, <1>2, AppendRange

\* Only an operation of a lost connection is ever written in part.
LEMMA WholeStep ==
    IInv /\ IInv' /\ OrderInv /\ WholeUnlessStruck /\ [Store!Next]_(Store!vars) => WholeUnlessStruck'
<1> SUFFICES ASSUME IInv, IInv', OrderInv, WholeUnlessStruck, [Store!Next]_(Store!vars),
                    NEW n \in 1..Len(ops') \ struck'
             PROVE  Whole(n)'
  BY DEF WholeUnlessStruck
<1>1. /\ TypeOK /\ TypeOK' /\ Len(ops) \in Nat /\ Len(ops) <= MaxOps /\ MaxOps \in Nat
      /\ InPool \subseteq 1..Len(ops)
  <2>1. TypeOK /\ TypeOK' /\ InPool \subseteq 1..Len(ops)  BY PoolNumbers DEF IInv
  <2>2. Len(ops) \in 0..MaxOps /\ MaxOps \in Nat  BY <2>1, OperationTypes, ConstantTypes
  <2> QED  BY <2>1, <2>2
<1>2. ASSUME UNCHANGED <<ops, rows>>, struck \subseteq struck' PROVE Whole(n)'
  <2>1. Whole(n)  BY <1>2 DEF WholeUnlessStruck
  <2> QED  BY <1>2, <2>1 DEF Whole, AppliedWhole
<1>3. CASE UNCHANGED Store!vars  BY <1>2, <1>3 DEF Store!vars
<1>4. CASE Store!Drop  BY <1>2, <1>4 DEF Store!Drop
<1>5. CASE Store!Submit
  <2>1. PICK op \in Operations : ops' = Append(ops, op)  BY <1>5 DEF Store!Submit
  <2>2. UNCHANGED <<rows, struck>>  BY <1>5 DEF Store!Submit
  <2>3. Len(ops') = Len(ops) + 1 /\ \A m \in 1..Len(ops) : ops'[m] = ops[m]
    BY <1>1, <2>1, AppendOps
  <2>4. CASE n \in 1..Len(ops)
    <3>1. Whole(n)  BY <2>2, <2>4 DEF WholeUnlessStruck
    <3> QED  BY <2>2, <2>3, <2>4, <3>1 DEF Whole, AppliedWhole
  <2>5. CASE n = Len(ops) + 1
    <3>1. ASSUME NEW k \in Keys PROVE n \notin Range(rows[k])
      <4>1. rows[k] \in Seq(1..MaxOps)  BY <1>1 DEF TypeOK
      <4>2. Range(rows[k]) = {rows[k][i] : i \in 1..Len(rows[k])}  BY <4>1, RangeIsElements
      <4>3. \A i \in 1..Len(rows[k]) : rows[k][i] \in 1..Len(ops)  BY DEF OrderInv, InOrder
      <4> QED  BY <1>1, <2>5, <4>2, <4>3
    <3> QED  BY <2>2, <3>1 DEF Whole
  <2> QED  BY <1>1, <2>3, <2>4, <2>5
<1>6. ASSUME NEW m \in InPool, NEW keys, rows' = Written(keys, m), ops' = ops, struck \subseteq struck',
             m \in struck' \/ Range(ops[m].keys) \subseteq keys
      PROVE  Whole(n)'
  <2>1. m \in 1..MaxOps /\ m \in 1..Len(ops) /\ n \in 1..Len(ops)  BY <1>1, <1>6
  <2>2. ASSUME NEW k \in Keys
        PROVE  /\ k \in keys => Range(rows'[k]) = Range(rows[k]) \cup {m}
               /\ k \notin keys => Range(rows'[k]) = Range(rows[k])
    <3>1. TypeOK /\ m \in 1..MaxOps  BY <1>1, <2>1
    <3>2. /\ k \in keys => Range(Written(keys, m)[k]) = Range(rows[k]) \cup {m}
          /\ k \notin keys => Range(Written(keys, m)[k]) = Range(rows[k])
      BY <3>1, WrittenRanges
    <3> QED  BY <1>6, <3>2
  <2>3. Range(ops[n].keys) \subseteq Keys
    <3>1. ops[n].keys \in Seq(Keys)  BY <1>1, <2>1, OperationTypes
    <3>2. Range(ops[n].keys) = {ops[n].keys[k] : k \in 1..Len(ops[n].keys)}
      BY <3>1, RangeIsElements
    <3> QED  BY <3>1, <3>2, ElementsOfSeq
  <2>4. CASE n = m  BY <1>6, <2>2, <2>3, <2>4 DEF Whole, AppliedWhole
  <2>5. CASE n # m
    <3>1. Whole(n)  BY <1>6, <2>1 DEF WholeUnlessStruck
    <3>2. \A k \in Keys : n \in Range(rows'[k]) <=> n \in Range(rows[k])  BY <2>2, <2>5
    <3> QED  BY <1>6, <2>3, <3>1, <3>2 DEF Whole, AppliedWhole
  <2> QED  BY <2>4, <2>5
<1>7. ASSUME NEW m \in InPool, Store!Apply(m) PROVE Whole(n)'
  <2>1. ops' = ops /\ struck' = struck /\ rows' = Written(Range(ops[m].keys), m)
    BY <1>7, SameOperators DEF Store!Apply, Store!Write, Written
  <2> QED  BY <1>6, <2>1
<1>8. ASSUME NEW m \in InPool, Store!Tear(m) PROVE Whole(n)'
  <2>1. /\ ops' = ops /\ struck' = struck \cup {m}
        /\ \E keys : rows' = Written(keys, m)
    BY <1>8 DEF Store!Tear, Store!Write, Written
  <2>2. PICK keys : rows' = Written(keys, m)  BY <2>1
  <2> QED  BY <1>6, <2>1, <2>2
<1> QED  BY <1>3, <1>4, <1>5, <1>7, <1>8 DEF Store!Next

\* The reach of the lost connections: whatever deadlocks, retries, errors and the
\* closing of the pool do, no operation but those whose own connection was lost
\* is ever applied in part (TransactionTask::Execute, MySQLConnection::ExecuteTransaction).
THEOREM OnlyStruckAreTorn == Spec => []WholeUnlessStruck
<1>1. Init => WholeUnlessStruck
  <2> SUFFICES ASSUME Init PROVE WholeUnlessStruck  OBVIOUS
  <2>1. 1..Len(ops) = {}  BY DEF Init
  <2> QED  BY <2>1 DEF WholeUnlessStruck
<1>2. IInv /\ IInv' /\ OrderInv /\ [Next]_vars /\ WholeUnlessStruck => WholeUnlessStruck'
  BY StoreStep, WholeStep
<1> QED  BY <1>1, <1>2, Invariance, OrderInvariance, PTL DEF Spec
=============================================================================
