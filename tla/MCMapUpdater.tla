---------------------------- MODULE MCMapUpdater ----------------------------
(***************************************************************************)
(* Instances of MapUpdater for TLC.                                        *)
(***************************************************************************)
EXTENDS MapUpdater

CONSTANTS continent, dungeon, i1, i2

\* One continent, and one instanced dungeon with two instances.
MCBaseMaps  == {continent, dungeon}
MCInstanced == {dungeon}
MCInstances == {i1, i2}
MCParentOf  == [i \in MCInstances |-> dungeon]
=============================================================================
