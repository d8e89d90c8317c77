---------------------------- MODULE MCDatabasePool ----------------------------
EXTENDS DatabasePool

CONSTANTS k1, k2

Op(keys, transaction, direct) == [keys |-> keys, transaction |-> transaction, direct |-> direct]

\* Transactions that write the rows in either order, and a statement.
MCOperations ==
    {Op(<<k1, k2>>, TRUE, FALSE), Op(<<k2, k1>>, TRUE, FALSE), Op(<<k1>>, FALSE, FALSE),
     Op(<<k2, k1>>, TRUE, TRUE)}

\* The callers submit an operation once: a second copy of a transaction locks
\* its rows in the same order as the first and meets no other deadlock.
Once == \A m, n \in DOMAIN ops : ops[m] = ops[n] => m = n
=============================================================================
