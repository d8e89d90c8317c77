----------------------------- MODULE TickBarrier -----------------------------
(***************************************************************************)
(* What one tick of the map manager promises the rest of the world server. *)
(*                                                                         *)
(* The world thread alternates between a "world" phase, where it alone     *)
(* touches the maps (it may create some), an "update" phase, where every   *)
(* live map is updated once, by any thread and in any order, and a         *)
(* "delayed" phase, where the world thread again has the maps to itself.   *)
(* An instance may disappear during the update phase (its unload timer ran *)
(* out) or be passed over (it should be unloaded but still holds players). *)
(*                                                                         *)
(* MapUpdater is the detailed specification: threads, a request queue, two *)
(* mutexes and two condition variables.  It implements this one.           *)
(***************************************************************************)
CONSTANTS Maps,       \* every map that may exist, base maps and instances
          Instances   \* those of them that are instances

VARIABLES phase,      \* "world", "update", "delayed" or "stopped"
          live,       \* the maps that exist
          done,       \* maps updated since the tick began
          skipped     \* instances passed over since the tick began

bvars == <<phase, live, done, skipped>>

Init ==
    /\ phase = "world"
    /\ live = {}
    /\ done = {}
    /\ skipped = {}

\* The world thread creates a map.
Create(m) ==
    /\ phase = "world"
    /\ m \notin live
    /\ live' = live \cup {m}
    /\ UNCHANGED <<phase, done, skipped>>

Begin ==
    /\ phase = "world"
    /\ phase' = "update"
    /\ done' = {}
    /\ skipped' = {}
    /\ UNCHANGED live

\* Some of the live maps not reached in this tick are updated, some of the
\* instances among them are unloaded (gone) or passed over.
Progress(upd, gone, over) ==
    /\ phase = "update"
    /\ upd \cup gone \cup over \subseteq live \ (done \cup skipped)
    /\ gone \cup over \subseteq Instances
    /\ upd \cap (gone \cup over) = {}
    /\ live' = live \ gone
    /\ done' = done \cup upd
    /\ skipped' = skipped \cup over
    /\ UNCHANGED phase

\* The barrier: the update phase ends only when no map is left.
Join ==
    /\ phase = "update"
    /\ live \subseteq done \cup skipped
    /\ phase' = "delayed"
    /\ UNCHANGED <<live, done, skipped>>

Delayed ==
    /\ phase = "delayed"
    /\ phase' = "world"
    /\ UNCHANGED <<live, done, skipped>>

Stop ==
    /\ phase = "world"
    /\ phase' = "stopped"
    /\ live' = {}
    /\ UNCHANGED <<done, skipped>>

Next ==
    \/ \E m \in Maps : Create(m)
    \/ \E upd, gone, over \in SUBSET Maps : Progress(upd, gone, over)
    \/ Begin \/ Join \/ Delayed \/ Stop

Spec == Init /\ [][Next]_bvars
==============================================================================
