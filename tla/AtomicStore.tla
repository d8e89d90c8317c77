----------------------------- MODULE AtomicStore -----------------------------
(***************************************************************************)
(* What the database pool promises: operations are applied whole or not at *)
(* all, once, and, but for those that callers run themselves, nearly in    *)
(* the order in which they were queued: fewer than Threads are overtaken.  *)
(* An operation whose connection is lost may be torn, or applied twice.    *)
(***************************************************************************)
EXTENDS Integers, Sequences, FiniteSets, Functions

CONSTANTS
    Keys,          \* rows that operations write
    Threads,       \* number of asynchronous connections
    Operations,    \* what is submitted: [keys, transaction, direct]
    MaxTorn        \* how many connections are lost

VARIABLES
    ops,           \* the operations so far, numbered as they were submitted
    waiting,       \* those that may still be applied
    rows,          \* for each row, the operations that wrote it
    torn           \* operations whose connection was lost

vars == <<ops, waiting, rows, torn>>

Init == ops = <<>> /\ waiting = {} /\ rows = [k \in Keys |-> <<>>] /\ torn = {}

Submit ==
    /\ \E op \in Operations : ops' = Append(ops, op)
    /\ waiting' = waiting \cup {Len(ops) + 1}
    /\ UNCHANGED <<rows, torn>>

Older(n) == {m \in waiting : m < n /\ ~ops[m].direct}
InTurn(n) == ops[n].direct \/ Cardinality(Older(n)) < Threads

Write(n, keys) == rows' = [k \in Keys |-> IF k \in keys THEN Append(rows[k], n) ELSE rows[k]]

Apply(n) ==
    /\ InTurn(n)
    /\ waiting' = waiting \ {n}
    /\ Write(n, Range(ops[n].keys))
    /\ UNCHANGED <<ops, torn>>

Tear(n) ==
    /\ InTurn(n)
    /\ torn' = torn \cup {n} /\ Cardinality(torn') <= MaxTorn
    /\ \E keys \in SUBSET Range(ops[n].keys) : Write(n, keys)
    /\ waiting' \in {waiting, waiting \ {n}}
    /\ UNCHANGED ops

Drop ==
    /\ \E lost \in SUBSET waiting : waiting' = waiting \ lost
    /\ UNCHANGED <<ops, rows, torn>>

Next == Submit \/ (\E n \in waiting : Apply(n) \/ Tear(n)) \/ Drop

Spec == Init /\ [][Next]_vars

-----------------------------------------------------------------------------
Later(k, i) == {rows[k][j] : j \in i + 1..Len(rows[k])}

(***************************************************************************)
(* What the order of a row's writes is worth to those who queue them: an   *)
(* operation is written once, unless its connection was lost, and behind   *)
(* it come fewer than Threads that were queued before it.                  *)
(***************************************************************************)
OnceAndInOrder ==
    \A k \in Keys : \A i \in DOMAIN rows[k] :
      LET n == rows[k][i] IN
      /\ n \in Later(k, i) => n \in torn
      /\ ops[n].direct \/ Cardinality({m \in Later(k, i) : m < n /\ ~ops[m].direct}) < Threads

=============================================================================
