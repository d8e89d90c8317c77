---------------------------- MODULE MCInstanceIds ----------------------------
(***************************************************************************)
(* Instances of InstanceIds for TLC, with words of 4 bits and blocks of 2. *)
(***************************************************************************)
EXTENDS InstanceIds, TLC

Symmetry == Permutations(Threads)
=============================================================================
