--------------------------- MODULE MCDungeonReset ---------------------------
EXTENDS DungeonReset, TLC

Symmetry == Permutations(Players)

=============================================================================
