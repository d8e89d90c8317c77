------------------------------ MODULE MCEconomy ------------------------------
EXTENDS Economy, TLC

Symmetry == Permutations(Players)

One == {[p \in Players |-> 1]}

\* A bidder needs three to raise a bid of one by one.
Rich == {f \in [Players -> {1, 3}] : Cardinality({p \in Players : f[p] = 3}) = 1}

\* Money or a price of one: a mail that carries neither is what remains of these.
Small == {<<0, 1>>, <<1, 0>>}

\* Money or a price of two, or both, or neither.
Large == {<<0, 0>>, <<0, 2>>, <<2, 0>>, <<2, 2>>}
=============================================================================
