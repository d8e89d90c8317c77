---------------------------- MODULE DungeonReset ----------------------------
(***************************************************************************)
(* The life of the instances of one normal five-player dungeon, for solo   *)
(* players: InstanceMap, MapInstanced, InstanceSave and the type 0 events  *)
(* of InstanceSaveManager.  Whatever happens in a tick before the resets is *)
(* one phase: the sessions' packets, and the maps' updates, which unload   *)
(* maps and in which creatures die.                                        *)
(* Time is counted in hours; a group, a game master and a permanent bind   *)
(* (raid and heroic instances: GlobalReset) do not occur.                  *)
(***************************************************************************)
EXTENDS Naturals, Sequences, FiniteSetsExt, SequencesExt, ResetQueue

CONSTANTS
  Players,
  MaxId,     \* bound of the instance ids
  Delay,     \* the 2 HOUR after which an instance nobody fought in resets
  Respawn,   \* the respawn delay of a creature
  MaxTime,   \* bound of the clock
  MaxEvents  \* bound of the length of the queue of events

ASSUME DungeonAssumption ==
  /\ MaxId \in Nat /\ Delay \in Nat \ {0} /\ Respawn \in Nat
  /\ MaxTime \in Nat \ {0} /\ MaxEvents \in Nat

Ids == 1..MaxId

VARIABLES
  now, phase,
  player,   \* of each Player: see PlayerType
  save,     \* m_instanceSaveById: see SaveType
  queue,    \* m_resetTimeQueue (the events of type 0)
  map,      \* m_InstancedMaps: see MapType
  used,     \* the instance ids that are marked in MapManager
  row,      \* table instance: the reset time of each row, 0 without a row
  respawn,  \* the ids with rows in table creature_respawn
  missed    \* (for a property) the rows whose time was the last start's

vars == <<now, phase, player, save, queue, map, used, row, respawn, missed>>

PlayerType ==
  [conn : {"offline", "online", "transit"},  \* transit: IsBeingTeleportedFar
   at : {0} \cup Ids,     \* the instance map m_mapRef is linked to
   valid : BOOLEAN,       \* m_InstanceValid
   bind : {0} \cup Ids,   \* m_boundInstances
   stored : {0} \cup Ids, \* table character_instance
   last : {0} \cup Ids]   \* characters.instance_id
SaveType == [live : BOOLEAN, reset : Nat, players : SUBSET Players]
MapType ==
  [loaded : BOOLEAN, timer : {"off", "delay", "min"},  \* m_unloadTimer
   whenEmpty : BOOLEAN,   \* m_unloadWhenEmpty
   after : BOOLEAN]       \* m_resetAfterUnload

NoSave == [live |-> FALSE, reset |-> 0, players |-> {}]
NoMap == [loaded |-> FALSE, timer |-> "off", whenEmpty |-> FALSE, after |-> FALSE]

\* m_mapRefManager of the instance map i: whoever is linked to it.
Linked(ps, i) == {p \in Players : ps[p].at = i}

\* Mutant: the event does not carry its instance id.
EventUntagged(i, time) == [time |-> time, inst |-> 0]

Event(i, time) == [time |-> time, inst |-> i]

-----------------------------------------------------------------------------
(***************************************************************************)
(* InstanceSave::UnloadIfEmpty, and the delete by its caller: a save that  *)
(* nobody is bound to goes, unless somebody is linked to the map.          *)
(***************************************************************************)
UnloadIfEmpty(s, i, here) ==
  IF s[i].live /\ s[i].players = {} /\ here = {}
  THEN [s EXCEPT ![i] = NoSave] ELSE s

\* RemoveInstanceSave stores the reset time of the save in its row, if any.
StoreTimes(s) ==
  row' = [i \in Ids |-> IF save[i].live /\ ~s[i].live /\ row[i] # 0
                        THEN save[i].reset ELSE row[i]]

\* Mutant: the reset of a new save is not scheduled.
AddInstanceSaveUnscheduled(s, i) ==
  IF s[i].live
  THEN [save |-> s, queue |-> queue, row |-> row]
  ELSE [save |-> [s EXCEPT ![i] =
                    [live |-> TRUE, reset |-> now + Delay, players |-> {}]],
        queue |-> queue,
        row |-> [row EXCEPT ![i] = now + Delay]]

\* AddInstanceSave without a reset time: a new save gets one, and an event.
AddInstanceSave(s, i) ==
  IF s[i].live
  THEN [save |-> s, queue |-> queue, row |-> row]
  ELSE [save |-> [s EXCEPT ![i] =
                    [live |-> TRUE, reset |-> now + Delay, players |-> {}]],
        queue |-> Schedule(queue, Event(i, now + Delay)),
        row |-> [row EXCEPT ![i] = now + Delay]]

(***************************************************************************)
(* SetResetSchedule on the queue q: nothing while the map HavePlayers.     *)
(***************************************************************************)
SetResetSchedule(on, q, s, i, here) ==
  IF here # {} \/ ~s[i].live THEN q
  ELSE IF on THEN Schedule(q, Event(i, s[i].reset))
  ELSE Cancel(q, s[i].reset, i)

\* Mutant: a player who enters does not call off the reset of the map.
EnteredStillReset(i) == [map[i] EXCEPT !.loaded = TRUE, !.timer = "off"]

\* The map i, created if need be, once a player has entered it.
Entered(i) == [NoMap EXCEPT !.loaded = TRUE]

(***************************************************************************)
(* SetMap and AddPlayerToMap of p, coming online or teleported, into the   *)
(* instance map i: SetMap links the player first.  CheckInstanceValidity   *)
(* comes last, but at login before the player is bound here.  b is the     *)
(* player's bind, s the saves.                                             *)
(***************************************************************************)
AddPlayerToMap(p, i, b, s) ==
  LET added == AddInstanceSave(s, i)
      here == Linked(player, i) \cup {p}
      bound == player[p].conn = "offline" => b = i
  IN
  /\ player' = [player EXCEPT ![p] =
       [conn |-> "online", at |-> i, valid |-> here = {p} /\ bound, bind |-> i,
        stored |-> i, last |-> 0]]
  /\ save' = [added.save EXCEPT ![i].players = @ \cup {p}]
  /\ queue' = SetResetSchedule(FALSE, added.queue, added.save, i, here)
  /\ row' = added.row
  /\ map' = [map EXCEPT ![i] = Entered(i)]
  /\ b \in {0, i}   \* ASSERT(playerBind->save == mapSave)

\* GenerateInstanceId (module InstanceIds): the lowest id that is not marked.
FreeIds == Ids \ used
NextId == Min(FreeIds)

\* CreateInstanceForPlayer for a player without a bind: a new instance.
CreateInstance(p) ==
  /\ FreeIds # {}
  /\ AddPlayerToMap(p, NextId, 0, save)
  /\ used' = used \cup {NextId}

-----------------------------------------------------------------------------
Init ==
  /\ now = 1 /\ phase = "sessions"
  /\ player = [p \in Players |->
       [conn |-> "offline", at |-> 0, valid |-> TRUE, bind |-> 0, stored |-> 0,
        last |-> 0]]
  /\ save = [i \in Ids |-> NoSave] /\ map = [i \in Ids |-> NoMap]
  /\ queue = <<>> /\ used = {} /\ row = [i \in Ids |-> 0] /\ respawn = {}
  /\ missed = {}

\* HandleMoveWorldportAckOpcode of a player who walked into the portal.
Enter(p) ==
  /\ phase = "sessions" /\ player[p].conn = "online" /\ player[p].at = 0
  /\ LET b == player[p].bind IN
       IF b = 0 THEN CreateInstance(p)
       ELSE AddPlayerToMap(p, b, b, save) /\ UNCHANGED used
  /\ UNCHANGED <<now, phase, respawn, missed>>

(***************************************************************************)
(* Unit::Kill of a creature: its respawn time is stored, and the reset     *)
(* time of the save is put off.                                            *)
(***************************************************************************)
Kill(p) ==
  LET i == player[p].at
      time == now + Respawn + Delay
  IN
  /\ phase = "sessions" /\ player[p].conn = "online" /\ i # 0
  /\ respawn' = respawn \cup {i}
  /\ save' = IF save[i].live /\ save[i].reset < time
             THEN [save EXCEPT ![i].reset = time] ELSE save
  /\ UNCHANGED <<now, phase, player, queue, map, used, row, missed>>

\* The unload timer starts when the last linked player is being removed.
StartTimer(i) ==
  IF map[i].timer = "off" /\ Cardinality(Linked(player, i)) = 1
  THEN [map EXCEPT ![i].timer = IF map[i].whenEmpty THEN "min" ELSE "delay"]
  ELSE map

(***************************************************************************)
(* TeleportTo another map: RemovePlayerFromMap leaves the player linked    *)
(* until the client acknowledges the transfer, so its SetResetSchedule and *)
(* UnloadInstanceSave find the map with a player.                          *)
(***************************************************************************)
TeleportOut(p) ==
  LET i == player[p].at
      here == Linked(player, i)
  IN
  /\ phase = "sessions" /\ player[p].conn = "online" /\ i # 0
  /\ player' = [player EXCEPT ![p].conn = "transit"]
  /\ map' = StartTimer(i)
  /\ queue' = SetResetSchedule(TRUE, queue, save, i, here)
  /\ save' = UnloadIfEmpty(save, i, here)
  /\ UNCHANGED <<now, phase, used, row, respawn, missed>>

\* HandleMoveWorldportAckOpcode, out of the dungeon: ResetMap unlinks.
WorldportAck(p) ==
  /\ phase = "sessions" /\ player[p].conn = "transit"
  /\ player' = [player EXCEPT ![p] =
                  [@ EXCEPT !.conn = "online", !.at = 0, !.valid = TRUE]]
  /\ UNCHANGED <<now, phase, save, queue, map, used, row, respawn, missed>>

(***************************************************************************)
(* LogoutPlayer: CleanupsBeforeDelete takes the player off the save,       *)
(* RemovePlayerFromMap deletes and so unlinks the player.  (Who is in an   *)
(* invalid instance is sent home first.)                                   *)
(***************************************************************************)
Logout(p) ==
  LET b == player[p].bind
      i == player[p].at
      left == IF b = 0 THEN save ELSE [save EXCEPT ![b].players = @ \ {p}]
      clean == IF b = 0 THEN left ELSE UnloadIfEmpty(left, b, Linked(player, b))
      here == Linked(player, i) \ {p}
      gone == IF i = 0 THEN clean ELSE UnloadIfEmpty(clean, i, here)
  IN
  /\ phase = "sessions" /\ player[p].conn = "online" /\ player[p].valid
  /\ player' = [player EXCEPT ![p] =
       [@ EXCEPT !.conn = "offline", !.at = 0, !.bind = 0, !.last = i]]
  /\ map' = IF i = 0 THEN map ELSE StartTimer(i)
  /\ queue' = IF i = 0 THEN queue
              ELSE SetResetSchedule(TRUE, queue, clean, i, here)
  /\ save' = gone
  /\ StoreTimes(gone)
  /\ UNCHANGED <<now, phase, used, respawn, missed>>

(***************************************************************************)
(* LoadFromDB: _LoadBoundInstances, then the map.  A player who logged out *)
(* in an instance returns to its map if that is loaded, else to the        *)
(* entrance of the dungeon; who is bound elsewhere goes there.             *)
(***************************************************************************)
Login(p) ==
  LET b == player[p].stored
      i == player[p].last
      loaded == IF save[b].live THEN [save[b] EXCEPT !.players = @ \cup {p}]
                ELSE [live |-> TRUE, reset |-> row[b], players |-> {p}]
      saves == IF b = 0 THEN save ELSE [save EXCEPT ![b] = loaded]
      mine == b \in {0, i}
  IN
  /\ phase = "sessions" /\ player[p].conn = "offline"
  /\ \/ /\ i # 0 => mine /\ ~map[i].loaded
        /\ player' = [player EXCEPT ![p] =
             [@ EXCEPT !.conn = "online", !.valid = TRUE, !.bind = b, !.last = 0]]
        /\ save' = saves
        /\ UNCHANGED <<queue, map, row>>
     \/ i # 0 /\ mine /\ map[i].loaded /\ AddPlayerToMap(p, i, b, saves)
     \/ i # 0 /\ ~mine /\ AddPlayerToMap(p, b, b, saves)
  /\ UNCHANGED <<now, phase, used, respawn, missed>>

(***************************************************************************)
(* Player::ResetInstances (INSTANCE_RESET_ALL): refused while players are  *)
(* linked to the map, which otherwise unloads with the next map update.    *)
(* The event that is scheduled for the instance stays in the queue.        *)
(***************************************************************************)
ResetInstances(p) ==
  LET b == player[p].bind
      saves == UnloadIfEmpty([save EXCEPT ![b].players = @ \ {p}], b, {})
  IN
  /\ phase = "sessions" /\ player[p].conn = "online" /\ b # 0
  /\ Linked(player, b) = {}
  /\ map' = IF map[b].loaded
            THEN [map EXCEPT ![b] = [@ EXCEPT !.timer = "min", !.after = TRUE]]
            ELSE map
  /\ row' = [row EXCEPT ![b] = 0]
  /\ player' = [q \in Players |->
       LET r == IF player[q].stored = b THEN [player[q] EXCEPT !.stored = 0]
                ELSE player[q]
       IN IF q = p THEN [r EXCEPT !.bind = 0] ELSE r]
  /\ save' = saves
  /\ UNCHANGED <<now, phase, queue, used, respawn, missed>>

-----------------------------------------------------------------------------
(***************************************************************************)
(* MapInstanced::Update: the maps whose unload timer has run out go, but   *)
(* not those with players linked.  A timer of MIN_UNLOAD_DELAY always has, *)
(* one of Instance.UnloadDelay may have.  MapManager::Update may also find *)
(* its own timer not passed and update no map.                             *)
(***************************************************************************)
UpdateMaps(passed) ==
  LET expired == {i \in Ids : map[i].timer = "min"}
      empty == {i \in Ids : map[i].timer # "off" /\ Linked(player, i) = {}}
  IN
  /\ phase = "sessions"
  /\ \E late \in SUBSET {i \in empty : map[i].timer = "delay"} :
       LET gone == IF passed THEN (expired \cap empty) \cup late ELSE {} IN
       /\ map' = [i \in Ids |-> IF i \in gone THEN NoMap ELSE map[i]]
       /\ respawn' = respawn \ {i \in gone : map[i].after}
  /\ phase' = "resets"
  /\ UNCHANGED <<now, player, save, queue, used, row, missed>>

Due == queue # <<>> /\ queue[1].time < now

\* Mutant: the binds of the players online are left standing.
ResetSaveStored(i) ==
  [p \in Players |-> [player[p] EXCEPT !.stored = IF @ = i THEN 0 ELSE @]]

\* _ResetSave: the players listed in the save, and the database rows.
ResetSave(i) ==
  [p \in Players |->
    [player[p] EXCEPT !.bind = IF p \in save[i].players THEN 0 ELSE @,
                      !.stored = IF @ = i THEN 0 ELSE @]]

(***************************************************************************)
(* InstanceSaveManager::Update of an event of type 0: _ResetInstance, with *)
(* _ResetSave, InstanceMap::Reset(INSTANCE_RESET_RESPAWN_DELAY) and        *)
(* FreeInstanceId.  The players stay in the map, which is to be unloaded   *)
(* when they have left.                                                    *)
(***************************************************************************)
ResetInstance ==
  LET i == queue[1].inst IN
  /\ phase = "resets" /\ Due
  /\ queue' = Tail(queue)
  /\ player' = ResetSave(i)
  /\ save' = [save EXCEPT ![i] = NoSave]
  /\ row' = [row EXCEPT ![i] = 0]
  /\ map' = IF ~map[i].loaded THEN map
            ELSE [map EXCEPT ![i] = IF Linked(player, i) # {}
                    THEN [@ EXCEPT !.whenEmpty = TRUE, !.after = TRUE]
                    ELSE [@ EXCEPT !.timer = "min", !.after = TRUE]]
  /\ respawn' = respawn \ {i}
  /\ used' = used \ {i}
  /\ UNCHANGED <<now, phase, missed>>

\* The next tick, in the same hour or later.
EndTick ==
  /\ phase = "resets" /\ ~Due
  /\ phase' = "sessions"
  /\ now' \in {now, now + 1} /\ now' <= MaxTime
  /\ UNCHANGED <<player, save, queue, map, used, row, respawn, missed>>

(***************************************************************************)
(* A shutdown, after every session was logged out, and LoadInstances with  *)
(* InitInstanceIds and LoadResetTimes at the next start, in hour t: the    *)
(* rows that have expired or that nobody is bound to are deleted, the ids  *)
(* of the others are marked, and their resets are scheduled.  (The rows'   *)
(* times are the latest respawns plus Delay already, so that their update  *)
(* from creature_respawn changes nothing after an orderly shutdown.)       *)
(***************************************************************************)
Restart(t) ==
  LET kept == {i \in Ids : row[i] >= t /\ \E p \in Players : player[p].stored = i}
      If(i) == IF i \in kept THEN i ELSE 0
  IN
  /\ \A p \in Players : player[p].conn = "offline"
  /\ phase = "sessions" /\ t \in now..MaxTime
  /\ now' = t
  /\ row' = [i \in Ids |-> IF i \in kept THEN row[i] ELSE 0]
  /\ respawn' = respawn \cap kept
  /\ player' = [p \in Players |->
       [player[p] EXCEPT !.stored = If(@), !.last = If(@)]]
  /\ used' = kept
  /\ queue' \in Scheduled({Event(i, row[i]) : i \in {j \in kept : row[j] > t}})
  /\ \A k, l \in DOMAIN queue' :   \* in the order of the ids
       k < l /\ queue'[k].time = queue'[l].time => queue'[k].inst < queue'[l].inst
  /\ save' = [i \in Ids |-> NoSave] /\ map' = [i \in Ids |-> NoMap]
  /\ missed' = {i \in kept : row[i] = t}
  /\ UNCHANGED phase

Next ==
  \/ /\ \E p \in Players :
          \/ Enter(p) \/ Kill(p) \/ TeleportOut(p) \/ WorldportAck(p)
          \/ Logout(p) \/ Login(p) \/ ResetInstances(p)
     /\ Len(queue') <= MaxEvents
  \/ \E passed \in BOOLEAN : UpdateMaps(passed)
  \/ ResetInstance \/ EndTick
  \/ \E t \in now..MaxTime : Restart(t)

Spec == Init /\ [][Next]_vars

-----------------------------------------------------------------------------
\* Every variable has its type: saves, maps, rows and events are of real ids.
TypeOK ==
  /\ now \in 1..MaxTime /\ phase \in {"sessions", "resets"}
  /\ player \in [Players -> PlayerType] /\ save \in [Ids -> SaveType]
  /\ queue \in Seq([time : Nat, inst : Ids]) /\ map \in [Ids -> MapType]
  /\ used \subseteq Ids /\ row \in [Ids -> Nat] /\ respawn \cup missed \subseteq Ids

(***************************************************************************)
(* A bind in memory is a pointer to a save: the save exists, and it lists  *)
(* exactly the players whose bind it is.  So no bind dangles when a save   *)
(* is deleted, and ~InstanceSave's ASSERT finds the lists empty.           *)
(***************************************************************************)
BindsAreMutual ==
  \A i \in Ids :
    /\ save[i].players = {p \in Players : player[p].bind = i}
    /\ save[i].players # {} => save[i].live

(***************************************************************************)
(* An instance id that is marked has a reset event in the queue: the event *)
(* is the only thing that ever frees the id of a dungeon instance.  (The   *)
(* exception is a row whose time is the very second of the start, neither  *)
(* expired for LoadInstances nor to come for LoadResetTimes.)              *)
(***************************************************************************)
NoIdLeak ==
  \A i \in used :
    \/ \E k \in DOMAIN queue : queue[k].inst = i
    \/ i \in missed

(***************************************************************************)
(* What was killed stays dead: the stored respawn times of an instance are *)
(* deleted, by a reset or with an unloading map, only when the instance is *)
(* no longer in the database.                                              *)
(***************************************************************************)
ProgressIsKept == [][\A i \in respawn \ respawn' : row'[i] = 0]_vars

(***************************************************************************)
(* MapInstanced.cpp:185 "the instance will be created for the first time": *)
(* the map that goes with a newly generated id is not one that is loaded.  *)
(***************************************************************************)
NewInstanceIsNew ==
  [][\A i \in used' \ used : phase = "sessions" => ~map[i].loaded]_vars

=============================================================================
