----------------------------- MODULE DatabasePool -----------------------------
(***************************************************************************)
(* A pool of connections to MySQL (DatabaseWorkerPool.h, DatabaseWorker,   *)
(* Transaction, MySQLConnection): worker threads take operations off one   *)
(* queue, callers run others on connections they lock for themselves.      *)
(*                                                                         *)
(* Of MySQL there is what the pool has to deal with: the rows a            *)
(* transaction has written are locked until it ends, a cycle of waiting    *)
(* transactions costs one of them its life, statements fail, connections   *)
(* are lost.  A query, or a ping, is a statement that writes no row.       *)
(***************************************************************************)
EXTENDS Integers, Sequences, FiniteSets, Functions

CONSTANTS
    Workers,       \* connections with a thread (WorkerThreads)
    Directs,       \* connections that callers lock (SynchThreads)
    Keys, Operations,
    LoopBreaker,   \* how often a transaction that met a deadlock is tried again
    MaxOps,        \* bounds: on operations,
    MaxFaults      \* on statements that fail and connections that are lost

\* Connections are numbered, the workers first; a transaction is a sequence of
\* statements, anything else is one statement, or a query that writes no row.
ASSUME PoolAssumption ==
    /\ IsFiniteSet(Workers) /\ Workers = 1..Cardinality(Workers)
    /\ Directs \subseteq Nat \ {0} /\ Directs \cap Workers = {}
    /\ Operations \subseteq [keys : Seq(Keys), transaction : BOOLEAN, direct : BOOLEAN]
    /\ \A op \in Operations : op.transaction \/ Len(op.keys) <= 1
    /\ LoopBreaker \in Nat \ {0} /\ MaxOps \in Nat /\ MaxFaults \in Nat

VARIABLES
    ops,           \* the operations so far
    queue,         \* _queue: their numbers
    conn,          \* what each connection is at, and its transaction in MySQL
    deadlockLock,  \* owner of TransactionTask::_deadlockLock
    rows,          \* for each row, the operations that wrote it
    closed,        \* how many of the workers Close has told to stop
    faults,        \* how many so far
    struck,        \* history: operations during which the connection was lost
    failed         \* history: operations that MySQL refused

vars == <<ops, queue, conn, deadlockLock, rows, closed, faults, struck, failed>>

Conns == Workers \cup Directs
None == 0

Idle == [op |-> None, pc |-> "idle", at |-> 1, tries |-> 0, tx |-> FALSE, writes |-> {}]
Gone == [Idle EXCEPT !.pc = "gone"]

TypeOK ==
    /\ ops \in Seq(Operations) /\ Len(ops) <= MaxOps
    /\ queue \in Seq(1..MaxOps)
    /\ conn \in [Conns -> [op : 0..MaxOps, pc : {"idle", "popped", "run", "wait", "gone"},
                           at : Nat, tries : 0..LoopBreaker, tx : BOOLEAN, writes : SUBSET Keys]]
    /\ deadlockLock \in Workers \cup {None}
    /\ rows \in [Keys -> Seq(1..MaxOps)]
    /\ closed \in 0..Cardinality(Workers)
    /\ faults \in 0..MaxFaults
    /\ struck \subseteq 1..MaxOps /\ failed \subseteq 1..MaxOps

Init ==
    /\ ops = <<>> /\ queue = <<>>
    /\ conn = [c \in Conns |-> Idle]
    /\ deadlockLock = None
    /\ rows = [k \in Keys |-> <<>>]
    /\ closed = 0
    /\ faults = 0 /\ struck = {} /\ failed = {}

Job(c) == ops[conn[c].op]

\* ExecuteTransaction: START TRANSACTION, and the first statement is next.
Started(n, op, tries) ==
    [op |-> n, pc |-> "run", at |-> 1, tries |-> tries, tx |-> op.transaction, writes |-> {}]

-----------------------------------------------------------------------------
\* Execute, AsyncQuery, CommitTransaction, DelayQueryHolder, KeepAlive.
Enqueue(op) ==
    /\ closed = 0 /\ Len(ops) < MaxOps
    /\ ~op.direct
    /\ ops' = Append(ops, op)
    /\ queue' = Append(queue, Len(ops) + 1)
    /\ UNCHANGED <<conn, deadlockLock, rows, closed, faults, struck, failed>>

\* DirectExecute, DirectCommitTransaction, Query: GetFreeConnection has found one.
Direct(c, op) ==
    /\ closed = 0 /\ Len(ops) < MaxOps
    /\ op.direct
    /\ conn[c].pc = "idle"
    /\ ops' = Append(ops, op)
    /\ conn' = [conn EXCEPT ![c] = Started(Len(ops) + 1, op, 0)]
    /\ UNCHANGED <<queue, deadlockLock, rows, closed, faults, struck, failed>>

\* Mutant: the queue is a stack.
PopLast(w) ==
    /\ conn[w].pc = "idle" /\ queue # <<>>
    /\ conn' = [conn EXCEPT ![w].pc = "popped", ![w].op = queue[Len(queue)]]
    /\ queue' = SubSeq(queue, 1, Len(queue) - 1)
    /\ UNCHANGED <<ops, deadlockLock, rows, closed, faults, struck, failed>>

\* WaitAndPop.
Pop(w) ==
    /\ conn[w].pc = "idle" /\ queue # <<>>
    /\ conn' = [conn EXCEPT ![w].pc = "popped", ![w].op = Head(queue)]
    /\ queue' = Tail(queue)
    /\ UNCHANGED <<ops, deadlockLock, rows, closed, faults, struck, failed>>

Told(w) == w <= closed

\* The worker looks at its token and calls the operation.
Call(w) ==
    /\ conn[w].pc = "popped"
    /\ conn' = [conn EXCEPT ![w] = IF Told(w) THEN Gone ELSE Started(@.op, Job(w), 0)]
    /\ UNCHANGED <<ops, queue, deadlockLock, rows, closed, faults, struck, failed>>

\* Mutant: WaitAndPop waits for an operation, whether the queue is shut down or not.
LeaveServed(w) ==
    /\ conn[w].pc = "idle" /\ closed > 0 /\ queue # <<>>
    /\ conn' = [conn EXCEPT ![w] = Gone]
    /\ UNCHANGED <<ops, queue, deadlockLock, rows, closed, faults, struck, failed>>

\* The queue has been cancelled: WaitAndPop returns nothing.
Leave(w) ==
    /\ conn[w].pc = "idle" /\ closed > 0
    /\ conn' = [conn EXCEPT ![w] = Gone]
    /\ UNCHANGED <<ops, queue, deadlockLock, rows, closed, faults, struck, failed>>

-----------------------------------------------------------------------------
Running(c) == conn[c].pc = "run"
Key(c) == Job(c).keys[conn[c].at]
AtKey(c) == Running(c) /\ conn[c].at <= Len(Job(c).keys)

\* The connection whose transaction c waits for has locked the row.
WaitsFor(c, d) == c # d /\ AtKey(c) /\ Key(c) \in conn[d].writes
Blocked(c) == \E d \in Conns : WaitsFor(c, d)

Written(keys, n) == [k \in Keys |-> IF k \in keys THEN Append(rows[k], n) ELSE rows[k]]

(***************************************************************************)
(* Execute: in a transaction of MySQL the row is locked, and written when  *)
(* it commits; otherwise at once.  A statement of its own is done with it. *)
(***************************************************************************)
Statement(c) ==
    LET next == [conn[c] EXCEPT !.at = @ + 1,
                                !.writes = IF conn[c].tx THEN @ \cup {Key(c)} ELSE @]
    IN
    /\ AtKey(c) /\ ~Blocked(c)
    /\ conn' = [conn EXCEPT ![c] = IF Job(c).transaction THEN next ELSE Idle]
    /\ rows' = IF conn[c].tx THEN rows ELSE Written({Key(c)}, conn[c].op)
    /\ UNCHANGED <<ops, queue, deadlockLock, closed, faults, struck, failed>>

\* Mutant: the retry returns with the lock.
Kept(c) == deadlockLock

\* The operation ends, and the retry with it: TransactionTask::Execute unlocks.
Unlocked(c) == IF deadlockLock = c THEN None ELSE deadlockLock

\* COMMIT, which writes nothing if the transaction is gone; or the end of a query.
Finish(c) ==
    /\ Running(c) /\ ~AtKey(c)
    /\ conn' = [conn EXCEPT ![c] = Idle]
    /\ rows' = Written(conn[c].writes, conn[c].op)
    /\ deadlockLock' = Unlocked(c)
    /\ UNCHANGED <<ops, queue, closed, faults, struck, failed>>

\* Mutant: nothing breaks the loop.
AgainAlways(c, deadlock) ==
    Job(c).transaction /\ (deadlock \/ conn[c].tries > 0)

(***************************************************************************)
(* ExecuteTransaction returns an error: the transaction is rolled back.    *)
(* TransactionTask::Execute and DirectCommitTransaction try it again after *)
(* a deadlock, and then after any error, until LoopBreaker; a worker needs *)
(* the lock for it.  A statement of its own is not tried again.            *)
(***************************************************************************)
Again(c, deadlock) ==
    /\ Job(c).transaction
    /\ deadlock \/ conn[c].tries > 0
    /\ conn[c].tries < LoopBreaker

\* Mutant: a transaction that is tried again starts where it failed.
ResumeAt(c) == conn[c].at

RestartAt(c) == 1

Failed(c, deadlock) ==
    IF Again(c, deadlock)
    THEN /\ conn' = [conn EXCEPT ![c] =
              IF c \in Workers /\ @.tries = 0
              THEN [@ EXCEPT !.pc = "wait", !.tx = FALSE, !.writes = {}, !.at = RestartAt(c)]
              ELSE [Started(@.op, Job(c), @.tries + 1) EXCEPT !.at = RestartAt(c)]]
         /\ UNCHANGED <<deadlockLock, failed>>
    ELSE /\ conn' = [conn EXCEPT ![c] = Idle]
         /\ deadlockLock' = Unlocked(c)
         /\ failed' = failed \cup {conn[c].op}

\* TransactionTask::Execute has _deadlockLock.
Retry(w) ==
    /\ conn[w].pc = "wait" /\ deadlockLock = None
    /\ deadlockLock' = w
    /\ conn' = [conn EXCEPT ![w] = [Started(@.op, Job(w), 1) EXCEPT !.at = conn[w].at]]
    /\ UNCHANGED <<ops, queue, rows, closed, faults, struck, failed>>

-----------------------------------------------------------------------------
\* InnoDB: one of the transactions that wait for each other is the victim.
Deadlock(c) ==
    /\ \E cycle \in SUBSET Conns :
         /\ c \in cycle
         /\ \A d \in cycle : (\E e \in cycle : WaitsFor(d, e)) /\ (\E e \in cycle : WaitsFor(e, d))
    /\ Failed(c, TRUE)
    /\ UNCHANGED <<ops, queue, rows, closed, faults, struck>>

\* A statement fails for another reason.
Error(c) ==
    /\ AtKey(c) /\ ~Blocked(c)
    /\ faults < MaxFaults /\ faults' = faults + 1
    /\ Failed(c, FALSE)
    /\ UNCHANGED <<ops, queue, rows, closed, struck>>

Strike(c) ==
    /\ faults < MaxFaults /\ faults' = faults + 1
    /\ struck' = struck \cup {conn[c].op}
    /\ conn' = [conn EXCEPT ![c].tx = FALSE, ![c].writes = {}]
    /\ UNCHANGED <<ops, queue, deadlockLock, closed, failed>>

(***************************************************************************)
(* The connection is lost: MySQL rolls the transaction back.  The next     *)
(* statement, or COMMIT, meets the error; _HandleMySQLErrno connects again *)
(* and it is sent once more, in a session that commits every statement.    *)
(***************************************************************************)
Lose(c) ==
    /\ conn[c].tx
    /\ Strike(c)
    /\ UNCHANGED rows

\* It is lost after a statement of its own, or COMMIT, and before the reply.
LoseReply(c) ==
    /\ ~Blocked(c)
    /\ \/ AtKey(c) /\ ~conn[c].tx /\ rows' = Written({Key(c)}, conn[c].op)
       \/ Running(c) /\ ~AtKey(c) /\ conn[c].tx /\ rows' = Written(conn[c].writes, conn[c].op)
    /\ Strike(c)

-----------------------------------------------------------------------------
(***************************************************************************)
(* Close deletes one connection after the other: ~DatabaseWorker sets the  *)
(* token, cancels the queue and joins its thread.  Nobody uses the pool    *)
(* any more.                                                               *)
(***************************************************************************)
Close ==
    /\ closed < Cardinality(Workers)
    /\ \A w \in 1..closed : conn[w].pc = "gone"
    /\ \A c \in Directs : conn[c].pc = "idle"
    /\ closed' = closed + 1
    /\ queue' = <<>>
    /\ UNCHANGED <<ops, conn, deadlockLock, rows, faults, struck, failed>>

Serve(c) == Statement(c) \/ Finish(c)
Victim == \E c \in Conns : Deadlock(c)
Work(w) == Pop(w) \/ Call(w) \/ Leave(w) \/ Retry(w)

Next ==
    \/ \E op \in Operations : Enqueue(op) \/ \E c \in Directs : Direct(c, op)
    \/ \E w \in Workers : Work(w)
    \/ \E c \in Conns : Serve(c) \/ Error(c) \/ Lose(c) \/ LoseReply(c)
    \/ Victim
    \/ Close

\* Threads run, MySQL answers and finds deadlocks; Close goes on once it has begun.
Fairness ==
    /\ \A w \in Workers : WF_vars(Work(w))
    /\ \A c \in Conns : WF_vars(Serve(c))
    /\ WF_vars(Victim)
    /\ WF_vars(closed > 0 /\ Close)

Spec == Init /\ [][Next]_vars /\ Fairness

-----------------------------------------------------------------------------
InPool == (Range(queue) \cup {conn[c].op : c \in Conns}) \ {None}

(***************************************************************************)
(* Whatever the threads, deadlocks, retries and errors do, every operation *)
(* is applied once and whole or not at all, and only operations of other   *)
(* workers overtake it (Transaction.cpp, DatabaseWorker.cpp).  A lost      *)
(* connection spoils this for the operation that it was at, and no other.  *)
(***************************************************************************)
Store == INSTANCE AtomicStore WITH waiting <- InPool, torn <- struck,
                                  Threads <- Cardinality(Workers), MaxTorn <- MaxFaults
ImplementsStore == Store!Spec

(***************************************************************************)
(* So no thread writes an operation twice, and the writes of a row are in  *)
(* the order of the queue but for one operation per other worker: with one *)
(* (WorkerThreads = 1, the default), whatever was queued later comes later *)
(* (DatabaseWorker.cpp, DatabaseWorkerPool.h).                             *)
(***************************************************************************)
OnceAndInOrder == Store!OnceAndInOrder

AppliedWhole(n) == \A k \in Range(ops[n].keys) : n \in Range(rows[k])

(***************************************************************************)
(* Before the pool is closed, an operation that is neither waiting nor     *)
(* applied is one that MySQL has refused, or whose connection was lost:    *)
(* the retries and their lock lose none.                                   *)
(***************************************************************************)
OnlyRefusedAreLost ==
    closed = 0 => \A n \in DOMAIN ops \ InPool : AppliedWhole(n) \/ n \in failed \cup struck

(***************************************************************************)
(* Every operation comes to an end: no worker waits for the retry lock, or *)
(* for a row, for ever.                                                    *)
(***************************************************************************)
EveryOperationEnds == \A n \in 1..MaxOps : n \in InPool ~> n \notin InPool

\* Close, once begun, joins every worker, those in the middle of a retry too.
CloseCompletes == closed > 0 ~> \A w \in Workers : conn[w].pc = "gone"

(***************************************************************************)
(* DatabaseWorkerPool.h:349, BeginTransaction: "automatically rollback if  *)
(* not commited": no part of a transaction is ever applied without the     *)
(* rest.                                                                   *)
(***************************************************************************)
AllOrNothing ==
    \A n \in DOMAIN ops \ InPool :
      ops[n].transaction /\ (\E k \in Keys : n \in Range(rows[k])) => AppliedWhole(n)

=============================================================================
