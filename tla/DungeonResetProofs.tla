------------------------- MODULE DungeonResetProofs -------------------------
(***************************************************************************)
(* Proofs about DungeonReset, for any players, instance ids and delays:    *)
(* types, the binds and the saves they point to, the ids that are marked,  *)
(* and the respawn times that are kept.                                    *)
(***************************************************************************)
EXTENDS DungeonReset, ResetQueueProofs

Events == [time : Nat, inst : Ids]

\* A player who is not in the world has no pointer to a save and no map.
OfflineInv ==
  \A p \in Players :
    player[p].conn = "offline" => player[p].bind = 0 /\ player[p].at = 0

\* Something in the queue will free the id i, or the last start left it out.
HasEvent(q, i) == \E k \in 1..Len(q) : q[k].inst = i
Covered(i) == i \in missed \/ HasEvent(queue, i)

\* Whatever an instance id is still used for, a reset will come for it.
CoverInv ==
  \A i \in Ids :
    i \in used \/ save[i].live \/ (\E p \in Players : player[p].stored = i)
      => Covered(i)

\* A map that deletes its respawn times when it unloads has lost its row.
AfterInv == \A i \in Ids : map[i].after => row[i] = 0

IInv == TypeOK /\ OfflineInv /\ BindsAreMutual /\ CoverInv /\ AfterInv

\* BindsAreMutual of any players and saves.
Listed(ps, s) ==
  \A i \in Ids :
    /\ s[i].players = {p \in Players : ps[p].bind = i}
    /\ s[i].players # {} => s[i].live

-----------------------------------------------------------------------------
(***************************************************************************)
(* Lemmas about the constants and the helpers.                             *)
(***************************************************************************)
\* The types of the constants, and where an instance id lies.
LEMMA ConstantTypes ==
  /\ MaxId \in Nat /\ Delay \in Nat \ {0} /\ Respawn \in Nat /\ MaxTime \in Nat \ {0}
  /\ Ids \subseteq Nat /\ 0 \notin Ids
  BY DungeonAssumption DEF DungeonAssumption, Ids

\* The id that GenerateInstanceId returns is not marked.
LEMMA NextIdIsFree ==
  ASSUME FreeIds # {}
  PROVE  NextId \in Ids /\ NextId \notin used
<1>1. FreeIds \in SUBSET Nat  BY ConstantTypes DEF FreeIds
<1>2. \E m \in FreeIds : \A l \in FreeIds : m <= l  BY <1>1, LeastNatural
<1>3. NextId \in FreeIds  BY <1>2 DEF NextId, Min
<1> QED  BY <1>3 DEF FreeIds

\* A new event is inserted, and every other one stays.
LEMMA ScheduleKeeps ==
  \A q \in Seq(Events), i \in Ids, time \in Nat :
    /\ Schedule(q, Event(i, time)) \in Seq(Events)
    /\ HasEvent(Schedule(q, Event(i, time)), i)
    /\ \A j \in Ids : HasEvent(q, j) => HasEvent(Schedule(q, Event(i, time)), j)
<1> SUFFICES ASSUME NEW q \in Seq(Events), NEW i \in Ids, NEW time \in Nat
             PROVE  /\ Schedule(q, Event(i, time)) \in Seq(Events)
                    /\ HasEvent(Schedule(q, Event(i, time)), i)
                    /\ \A j \in Ids : HasEvent(q, j) => HasEvent(Schedule(q, Event(i, time)), j)
  OBVIOUS
<1> DEFINE e == Event(i, time)
           r == Schedule(q, e)
<1>1. e \in Events /\ e.inst = i  BY DEF Event, Events
<1>2. Len(q) \in Nat  OBVIOUS
<1>3. r \in Seq(Events) /\ Len(r) = Len(q) + 1  BY <1>1, ScheduleEffect
<1>4. PICK k \in 1..Len(q) + 1 : \A l \in 1..Len(q) + 1 :
        r[l] = IF l < k THEN q[l] ELSE IF l = k THEN e ELSE q[l - 1]
  BY <1>1, ScheduleEffect
<1> HIDE DEF e, r
<1>5. HasEvent(r, i)
  <2>1. r[k] = e  BY <1>2, <1>4
  <2> QED  BY <1>1, <1>2, <1>3, <2>1 DEF HasEvent
<1>6. ASSUME NEW j \in Ids, HasEvent(q, j) PROVE HasEvent(r, j)
  <2>1. PICK l \in 1..Len(q) : q[l].inst = j  BY <1>6 DEF HasEvent
  <2>2. CASE l < k
    <3>1. r[l] = q[l] /\ l \in 1..Len(r)  BY <1>2, <1>3, <1>4, <2>2
    <3> QED  BY <2>1, <3>1 DEF HasEvent
  <2>3. CASE l >= k
    <3>1. r[l + 1] = q[l] /\ l + 1 \in 1..Len(r)  BY <1>2, <1>3, <1>4, <2>3
    <3> QED  BY <2>1, <3>1 DEF HasEvent
  <2> QED  BY <1>2, <2>2, <2>3
<1> QED  BY <1>3, <1>5, <1>6 DEF e, r

\* What a deleted save leaves: nobody was listed in it.
LEMMA UnloadEffect ==
  \A s \in [Ids -> SaveType], i \in Ids : \A here :
    /\ UnloadIfEmpty(s, i, here) \in [Ids -> SaveType]
    /\ \A j \in Ids :
         /\ UnloadIfEmpty(s, i, here)[j].players = s[j].players
         /\ UnloadIfEmpty(s, i, here)[j].live => s[j].live
         /\ s[j].players # {} /\ s[j].live => UnloadIfEmpty(s, i, here)[j].live
  BY DEF UnloadIfEmpty, SaveType, NoSave

\* So the binds still point to the saves that list them.
LEMMA UnloadListed ==
  ASSUME NEW s \in [Ids -> SaveType], NEW i \in Ids, NEW here, NEW ps, Listed(ps, s)
  PROVE  Listed(ps, UnloadIfEmpty(s, i, here))
  BY UnloadEffect DEF Listed

\* A row that StoreTimes updates is one of the table.
LEMMA StoreTimesEffect ==
  ASSUME TypeOK, NEW s, StoreTimes(s)
  PROVE  row' \in [Ids -> Nat] /\ \A i \in Ids : row[i] = 0 => row'[i] = 0
  BY DEF TypeOK, StoreTimes, SaveType

\* AddInstanceSave: afterwards there is a save of the instance, and if it is a
\* new one an event.
LEMMA AddInstanceSaveEffect ==
  ASSUME TypeOK, NEW s \in [Ids -> SaveType], NEW i \in Ids
  PROVE  LET a == AddInstanceSave(s, i) IN
         /\ a.save \in [Ids -> SaveType] /\ a.queue \in Seq(Events) /\ a.row \in [Ids -> Nat]
         /\ a.save[i].live
         /\ a.save[i].players = IF s[i].live THEN s[i].players ELSE {}
         /\ \A j \in Ids \ {i} : a.save[j] = s[j] /\ a.row[j] = row[j]
         /\ \A j \in Ids : HasEvent(queue, j) => HasEvent(a.queue, j)
         /\ s[i].live \/ HasEvent(a.queue, i)
<1> DEFINE a == AddInstanceSave(s, i)
<1>0. queue \in Seq(Events) /\ row \in [Ids -> Nat] /\ now \in Nat
      /\ now + Delay \in Nat
  BY ConstantTypes DEF TypeOK, Events
<1>1. CASE s[i].live
  <2>1. a.save = s /\ a.queue = queue /\ a.row = row  BY <1>1 DEF AddInstanceSave
  <2> QED  BY <1>0, <1>1, <2>1
<1>2. CASE ~s[i].live
  <2>1. /\ a.save = [s EXCEPT ![i] = [live |-> TRUE, reset |-> now + Delay, players |-> {}]]
        /\ a.queue = Schedule(queue, Event(i, now + Delay))
        /\ a.row = [row EXCEPT ![i] = now + Delay]
    BY <1>2 DEF AddInstanceSave
  <2>2. a.save \in [Ids -> SaveType] /\ a.save[i].live /\ a.save[i].players = {}
        /\ \A j \in Ids \ {i} : a.save[j] = s[j]
    BY <1>0, <2>1 DEF SaveType
  <2>3. a.row \in [Ids -> Nat] /\ \A j \in Ids \ {i} : a.row[j] = row[j]
    BY <1>0, <2>1
  <2>4. a.queue \in Seq(Events) /\ HasEvent(a.queue, i)
        /\ \A j \in Ids : HasEvent(queue, j) => HasEvent(a.queue, j)
    BY <1>0, <2>1, ScheduleKeeps
  <2> HIDE DEF a
  <2>5. a.save[i].players = IF s[i].live THEN s[i].players ELSE {}  BY <1>2, <2>2
  <2> QED  BY <2>2, <2>3, <2>4, <2>5 DEF a
<1> QED  BY <1>1, <1>2

\* The timer of a map is all that StartTimer changes.
LEMMA StartTimerEffect ==
  ASSUME TypeOK, NEW i \in Ids
  PROVE  StartTimer(i) \in [Ids -> MapType] /\ \A j \in Ids : StartTimer(i)[j].after = map[j].after
<1>1. map \in [Ids -> MapType]  BY DEF TypeOK
<1> QED  BY <1>1 DEF StartTimer, MapType

\* A player enters an instance map: s are the saves with the player listed in
\* the one of his bind b, which is the map's.
LEMMA AddPlayerStep ==
  ASSUME IInv, NEW p \in Players, NEW i \in Ids, NEW s \in [Ids -> SaveType], NEW b \in {0, i},
         AddPlayerToMap(p, i, b, s), UNCHANGED <<now, phase, respawn, missed>>,
         used' \subseteq used \cup {i}, Listed([player EXCEPT ![p].bind = b], s),
         \A j \in Ids : s[j].live => Covered(j)
  PROVE  IInv'
<1> DEFINE a == AddInstanceSave(s, i)
<1>1. TypeOK /\ OfflineInv /\ CoverInv /\ AfterInv  BY DEF IInv
<1>2. /\ a.save \in [Ids -> SaveType] /\ a.queue \in Seq(Events) /\ a.row \in [Ids -> Nat]
      /\ a.save[i].live
      /\ a.save[i].players = IF s[i].live THEN s[i].players ELSE {}
      /\ \A j \in Ids \ {i} : a.save[j] = s[j] /\ a.row[j] = row[j]
      /\ \A j \in Ids : HasEvent(queue, j) => HasEvent(a.queue, j)
      /\ s[i].live \/ HasEvent(a.queue, i)
  BY <1>1, AddInstanceSaveEffect
<1>3. /\ save' = [a.save EXCEPT ![i].players = @ \cup {p}]
      /\ queue' = SetResetSchedule(FALSE, a.queue, a.save, i, Linked(player, i) \cup {p})
      /\ row' = a.row
      /\ map' = [map EXCEPT ![i] = Entered(i)]
  BY DEF AddPlayerToMap
<1>4. PICK v \in BOOLEAN : player' = [player EXCEPT ![p] =
        [conn |-> "online", at |-> i, valid |-> v, bind |-> i, stored |-> i, last |-> 0]]
  <2> DEFINE v == Linked(player, i) \cup {p} = {p} /\ (player[p].conn = "offline" => b = i)
  <2>1. v \in BOOLEAN  OBVIOUS
  <2> QED  BY <2>1 DEF AddPlayerToMap
<1> HIDE DEF a
<1>5. queue' = a.queue  BY <1>3 DEF SetResetSchedule
<1>6. TypeOK'
  <2>1. player' \in [Players -> PlayerType]  BY <1>1, <1>4 DEF TypeOK, PlayerType
  <2>2. save' \in [Ids -> SaveType]  BY <1>2, <1>3 DEF SaveType
  <2>3. map' \in [Ids -> MapType]  BY <1>1, <1>3 DEF TypeOK, MapType, Entered, NoMap
  <2>4. queue' \in Seq([time : Nat, inst : Ids]) /\ row' \in [Ids -> Nat]
    BY <1>2, <1>3, <1>5 DEF Events
  <2> QED  BY <1>1, <2>1, <2>2, <2>3, <2>4 DEF TypeOK
<1>7. OfflineInv'  BY <1>1, <1>4 DEF OfflineInv, TypeOK
<1>8. BindsAreMutual'
  <2> SUFFICES ASSUME NEW j \in Ids
               PROVE  /\ save'[j].players = {q \in Players : player'[q].bind = j}
                      /\ save'[j].players # {} => save'[j].live
    BY DEF BindsAreMutual
  <2>1. s[j].players = {q \in Players : [player EXCEPT ![p].bind = b][q].bind = j}
        /\ (s[j].players # {} => s[j].live)
    BY DEF Listed
  <2>2. s[j].players = {q \in Players : (IF q = p THEN b ELSE player[q].bind) = j}
    BY <1>1, <2>1 DEF TypeOK, PlayerType
  <2>3. \A q \in Players : player'[q].bind = IF q = p THEN i ELSE player[q].bind
    BY <1>1, <1>4 DEF TypeOK
  <2>4. CASE j = i
    <3>1. save'[i].players = s[i].players \cup {p} /\ save'[i].live
      BY <1>2, <1>3, <2>1, <2>4 DEF SaveType
    <3> QED  BY <2>2, <2>3, <2>4, <3>1
  <2>5. CASE j # i
    <3>1. save'[j] = s[j]  BY <1>2, <1>3, <2>5
    <3>2. b # j  BY <2>5, ConstantTypes
    <3> QED  BY <2>1, <2>2, <2>3, <2>5, <3>1, <3>2
  <2> QED  BY <2>4, <2>5
<1>9. CoverInv'
  <2>1. \A j \in Ids : Covered(j) => Covered(j)'
    BY <1>2, <1>5 DEF Covered
  <2>2. Covered(i)'  BY <1>2, <1>5, <2>1 DEF Covered
  <2>3. \A j \in Ids \ {i} : save'[j] = s[j]  BY <1>2, <1>3
  <2>4. \A q \in Players : player'[q].stored = IF q = p THEN i ELSE player[q].stored
    BY <1>1, <1>4 DEF TypeOK
  <2> QED  BY <1>1, <2>1, <2>2, <2>3, <2>4 DEF CoverInv
<1>10. AfterInv'
  <2>1. \A j \in Ids \ {i} : map'[j] = map[j] /\ row'[j] = row[j]
    BY <1>1, <1>2, <1>3 DEF TypeOK
  <2>2. ~map'[i].after  BY <1>1, <1>3 DEF TypeOK, Entered, NoMap
  <2> QED  BY <1>1, <2>1, <2>2 DEF AfterInv
<1> QED  BY <1>6, <1>7, <1>8, <1>9, <1>10 DEF IInv

\* Enter, through a portal: into the map of the bind, or into a new instance.
LEMMA EnterStep ==
  ASSUME IInv, NEW p \in Players, Enter(p)
  PROVE  IInv'
<1> DEFINE b == player[p].bind
<1>1. TypeOK /\ BindsAreMutual /\ CoverInv  BY DEF IInv
<1>2. UNCHANGED <<now, phase, respawn, missed>>  BY DEF Enter
<1>3. \A j \in Ids : save[j].live => Covered(j)  BY <1>1 DEF CoverInv
<1>4. [player EXCEPT ![p].bind = b] = player  BY <1>1 DEF TypeOK, PlayerType
<1>5. Listed(player, save)  BY <1>1 DEF BindsAreMutual, Listed
<1>6. b \in {0} \cup Ids /\ save \in [Ids -> SaveType]  BY <1>1 DEF TypeOK, PlayerType
<1>7. CASE b = 0
  <2>1. CreateInstance(p)  BY <1>7 DEF Enter
  <2>2. /\ AddPlayerToMap(p, NextId, 0, save) /\ used' = used \cup {NextId}
        /\ NextId \in Ids
    BY <2>1, NextIdIsFree DEF CreateInstance
  <2> QED  BY <1>2, <1>3, <1>4, <1>5, <1>6, <1>7, <2>2, AddPlayerStep
<1>8. CASE b # 0
  <2>1. AddPlayerToMap(p, b, b, save) /\ used' = used  BY <1>8 DEF Enter
  <2> QED  BY <1>2, <1>3, <1>4, <1>5, <1>6, <1>8, <2>1, AddPlayerStep
<1> QED  BY <1>7, <1>8

\* What a player does in a map, or on the way out of it.
LEMMA PlayStep ==
  ASSUME IInv, NEW p \in Players, Kill(p) \/ TeleportOut(p) \/ WorldportAck(p)
  PROVE  IInv'
<1> USE ConstantTypes DEF IInv
<1>1. CASE Kill(p)
  <2>1. now + Respawn + Delay \in Nat  BY DEF TypeOK
  <2>2. player[p].at \in Ids  BY <1>1 DEF Kill, TypeOK, PlayerType
  <2>3. save' \in [Ids -> SaveType]
        /\ \A i \in Ids : save'[i].players = save[i].players /\ save'[i].live = save[i].live
    BY <1>1, <2>1, <2>2 DEF Kill, TypeOK, SaveType
  <2>4. UNCHANGED <<now, phase, player, queue, map, used, row, missed>>
        /\ respawn' = respawn \cup {player[p].at}
    BY <1>1 DEF Kill
  <2>5. TypeOK'  BY <2>2, <2>3, <2>4 DEF TypeOK
  <2>6. BindsAreMutual'  BY <2>3, <2>4 DEF BindsAreMutual
  <2>7. CoverInv'  BY <2>3, <2>4 DEF CoverInv, Covered
  <2> QED  BY <2>4, <2>5, <2>6, <2>7 DEF OfflineInv, AfterInv
<1>2. CASE TeleportOut(p)
  <2> DEFINE i == player[p].at
  <2>1. i \in Ids /\ p \in Linked(player, i)
    BY <1>2 DEF TeleportOut, TypeOK, PlayerType, Linked
  <2>2. save' = save /\ queue' = queue
    BY <1>2, <2>1 DEF TeleportOut, UnloadIfEmpty, SetResetSchedule
  <2>3. player' = [player EXCEPT ![p].conn = "transit"]
        /\ UNCHANGED <<now, phase, used, row, respawn, missed>>
    BY <1>2 DEF TeleportOut
  <2>4. map' \in [Ids -> MapType] /\ \A j \in Ids : map'[j].after = map[j].after
    BY <1>2, <2>1, StartTimerEffect DEF TeleportOut
  <2>5. /\ player'[p] = [player[p] EXCEPT !.conn = "transit"]
        /\ player[p] \in PlayerType /\ player'[p] \in PlayerType
        /\ player' \in [Players -> PlayerType]
        /\ \A q \in Players \ {p} : player'[q] = player[q]
    BY <2>3 DEF TypeOK, PlayerType
  <2>6. /\ player'[p].bind = player[p].bind
        /\ player'[p].at = player[p].at
        /\ player'[p].stored = player[p].stored
        /\ player'[p].conn = "transit"
    BY <2>5 DEF PlayerType
  <2>7. player' \in [Players -> PlayerType]
        /\ \A q \in Players : /\ player'[q].bind = player[q].bind
                              /\ player'[q].at = player[q].at
                              /\ player'[q].stored = player[q].stored
                              /\ player'[q].conn = "offline" => player[q].conn = "offline"
    BY <2>5, <2>6
  <2>8. TypeOK'  BY <2>2, <2>3, <2>4, <2>7 DEF TypeOK
  <2>9. BindsAreMutual'  BY <2>2, <2>7 DEF BindsAreMutual
  <2>10. CoverInv'  BY <2>2, <2>3, <2>7 DEF CoverInv, Covered
  <2> QED  BY <2>3, <2>4, <2>7, <2>8, <2>9, <2>10 DEF OfflineInv, AfterInv
<1>3. CASE WorldportAck(p)
  <2>1. UNCHANGED <<now, phase, save, queue, map, used, row, respawn, missed>>
    BY <1>3 DEF WorldportAck
  <2> DEFINE r == [player[p] EXCEPT !.conn = "online", !.at = 0, !.valid = TRUE]
  <2>2. player \in [Players -> PlayerType]  BY DEF TypeOK
  <2>3. r \in PlayerType  BY <2>2 DEF PlayerType
  <2>4. player' = [player EXCEPT ![p] = r]  BY <1>3 DEF WorldportAck
  <2>5. /\ player[p] \in PlayerType /\ player'[p] = r
        /\ player' \in [Players -> PlayerType]
        /\ \A q \in Players \ {p} : player'[q] = player[q]
    BY <2>2, <2>3, <2>4
  <2>6. /\ player'[p].bind = player[p].bind
        /\ player'[p].stored = player[p].stored
        /\ player'[p].conn = "online"
    BY <2>5 DEF PlayerType
  <2>7. \A q \in Players : /\ player'[q].bind = player[q].bind
                           /\ player'[q].stored = player[q].stored
    BY <2>5, <2>6
  <2>8. BindsAreMutual'  BY <2>1, <2>7 DEF BindsAreMutual
  <2>9. CoverInv'  BY <2>1, <2>7 DEF CoverInv, Covered
  <2>10. TypeOK' /\ AfterInv'  BY <2>1, <2>5 DEF TypeOK, AfterInv
  <2>11. OfflineInv'  BY <2>5, <2>6 DEF OfflineInv
  <2> QED  BY <2>8, <2>9, <2>10, <2>11
<1> QED  BY <1>1, <1>2, <1>3

\* Logout: the player leaves the save, then the save may go, for its bind and
\* for its map.
LEMMA LogoutStep ==
  ASSUME IInv, NEW p \in Players, Logout(p)
  PROVE  IInv'
<1> USE DEF IInv
<1> DEFINE b == player[p].bind
           i == player[p].at
           left == IF b = 0 THEN save ELSE [save EXCEPT ![b].players = @ \ {p}]
           clean == IF b = 0 THEN left ELSE UnloadIfEmpty(left, b, Linked(player, b))
           here == Linked(player, i) \ {p}
           gone == IF i = 0 THEN clean ELSE UnloadIfEmpty(clean, i, here)
<1>1. b \in {0} \cup Ids /\ i \in {0} \cup Ids /\ 0 \notin Ids
  BY ConstantTypes DEF TypeOK, PlayerType
<1>2. /\ player' = [player EXCEPT ![p] =
           [@ EXCEPT !.conn = "offline", !.at = 0, !.bind = 0, !.last = i]]
      /\ map' = IF i = 0 THEN map ELSE StartTimer(i)
      /\ queue' = IF i = 0 THEN queue ELSE SetResetSchedule(TRUE, queue, clean, i, here)
      /\ save' = gone
      /\ StoreTimes(gone)
      /\ UNCHANGED <<now, phase, used, respawn, missed>>
  BY DEF Logout
<1>3. /\ left \in [Ids -> SaveType]
      /\ \A j \in Ids : left[j].live = save[j].live
      /\ \A j \in Ids : left[j].players = save[j].players \ (IF j = b THEN {p} ELSE {})
  BY <1>1 DEF TypeOK, SaveType
<1>4. Listed(player', left)
  <2>1. \A q \in Players : player'[q].bind = IF q = p THEN 0 ELSE player[q].bind
    BY <1>2 DEF TypeOK, PlayerType
  <2>2. \A j \in Ids : save[j].players = {q \in Players : player[q].bind = j}
        /\ (save[j].players # {} => save[j].live)
    BY DEF BindsAreMutual
  <2> HIDE DEF left, IInv
  <2> SUFFICES ASSUME NEW j \in Ids
               PROVE  /\ left[j].players = {q \in Players : player'[q].bind = j}
                      /\ left[j].players # {} => left[j].live
    BY DEF Listed
  <2>3. CASE j = b  BY <1>1, <1>3, <2>1, <2>2, <2>3
  <2>4. CASE j # b  BY <1>1, <1>3, <2>1, <2>2, <2>4
  <2> QED  BY <2>3, <2>4
<1> HIDE DEF left
<1>5. clean \in [Ids -> SaveType] /\ Listed(player', clean)
      /\ \A j \in Ids : clean[j].live => save[j].live
  BY <1>1, <1>3, <1>4, UnloadEffect, UnloadListed
<1> HIDE DEF clean
<1>6. gone \in [Ids -> SaveType] /\ Listed(player', gone)
      /\ \A j \in Ids : gone[j].live => save[j].live
  BY <1>1, <1>5, UnloadEffect, UnloadListed
<1> HIDE DEF gone
<1>7. row' \in [Ids -> Nat] /\ \A j \in Ids : row[j] = 0 => row'[j] = 0
  BY <1>2, StoreTimesEffect
<1>8. queue' \in Seq(Events) /\ \A j \in Ids : HasEvent(queue, j) => HasEvent(queue', j)
  <2>1. queue \in Seq(Events)  BY DEF TypeOK, Events
  <2>2. CASE queue' = queue  BY <2>1, <2>2
  <2>3. CASE queue' # queue
    <3>1. i \in Ids /\ queue' = Schedule(queue, Event(i, clean[i].reset))
      BY <1>1, <1>2, <2>3 DEF SetResetSchedule
    <3>2. clean[i].reset \in Nat  BY <1>5, <3>1 DEF SaveType
    <3> QED  BY <2>1, <3>1, <3>2, ScheduleKeeps
  <2> QED  BY <2>2, <2>3
<1>9. map' \in [Ids -> MapType] /\ \A j \in Ids : map'[j].after = map[j].after
  BY <1>1, <1>2, StartTimerEffect DEF TypeOK
<1>10. player' \in [Players -> PlayerType]
       /\ \A q \in Players : /\ player'[q].stored = player[q].stored
                             /\ player'[q].conn = "offline" =>
                                  q = p \/ player[q].conn = "offline"
                             /\ q # p => player'[q] = player[q]
       /\ player'[p].bind = 0 /\ player'[p].at = 0
  BY <1>1, <1>2 DEF TypeOK, PlayerType
<1>11. TypeOK'  BY <1>2, <1>6, <1>7, <1>8, <1>9, <1>10 DEF TypeOK, Events
<1>12. OfflineInv'  BY <1>10 DEF OfflineInv
<1>13. BindsAreMutual'  BY <1>2, <1>6 DEF BindsAreMutual, Listed
<1>14. CoverInv'
  <2>1. \A j \in Ids : Covered(j) => Covered(j)'  BY <1>2, <1>8 DEF Covered
  <2> QED  BY <1>2, <1>6, <1>10, <2>1 DEF CoverInv
<1>15. AfterInv'  BY <1>7, <1>9 DEF AfterInv
<1> QED  BY <1>11, <1>12, <1>13, <1>14, <1>15

\* Login: the binds come from the database, then the player may be put into
\* a map.
LEMMA LoginStep ==
  ASSUME IInv, NEW p \in Players, Login(p)
  PROVE  IInv'
<1> DEFINE b == player[p].stored
           i == player[p].last
           loaded == IF save[b].live THEN [save[b] EXCEPT !.players = @ \cup {p}]
                     ELSE [live |-> TRUE, reset |-> row[b], players |-> {p}]
           saves == IF b = 0 THEN save ELSE [save EXCEPT ![b] = loaded]
           mine == b \in {0, i}
<1>1. TypeOK /\ OfflineInv /\ BindsAreMutual /\ CoverInv /\ AfterInv  BY DEF IInv
<1>2. UNCHANGED <<now, phase, used, respawn, missed>> /\ player[p].conn = "offline"
  BY DEF Login
<1>3. b \in {0} \cup Ids /\ i \in {0} \cup Ids /\ 0 \notin Ids
  BY <1>1, ConstantTypes DEF TypeOK, PlayerType
<1>4. player[p].bind = 0 /\ player \in [Players -> PlayerType] /\ player[p] \in PlayerType
  BY <1>1, <1>2 DEF OfflineInv, TypeOK
<1>5. save \in [Ids -> SaveType]
      /\ \A j \in Ids : save[j].players = {q \in Players : player[q].bind = j}
                        /\ (save[j].players # {} => save[j].live)
  BY <1>1 DEF TypeOK, BindsAreMutual
<1>6. /\ saves \in [Ids -> SaveType]
      /\ \A j \in Ids \ {b} : saves[j] = save[j]
      /\ b # 0 => saves[b].players = save[b].players \cup {p} /\ saves[b].live
  <2>1. CASE b = 0  BY <1>3, <1>5, <2>1
  <2>2. CASE b # 0
    <3>1. row[b] \in Nat /\ b \in Ids  BY <1>1, <1>3, <2>2 DEF TypeOK
    <3>2. loaded \in SaveType /\ loaded.live /\ loaded.players = save[b].players \cup {p}
      BY <1>5, <3>1 DEF SaveType
    <3> HIDE DEF loaded
    <3> QED  BY <1>5, <2>2, <3>1, <3>2
  <2> QED  BY <2>1, <2>2
<1> HIDE DEF saves
<1>7. \A j \in Ids : saves[j].live => Covered(j)
  BY <1>1, <1>6 DEF CoverInv
<1>8. ASSUME NEW ps, \A q \in Players : ps[q].bind = IF q = p THEN b ELSE player[q].bind
      PROVE  Listed(ps, saves)
  <2> SUFFICES ASSUME NEW j \in Ids
               PROVE  /\ saves[j].players = {q \in Players : ps[q].bind = j}
                      /\ saves[j].players # {} => saves[j].live
    BY DEF Listed
  <2>1. CASE j = b  BY <1>3, <1>4, <1>5, <1>6, <1>8, <2>1
  <2>2. CASE j # b  BY <1>3, <1>4, <1>5, <1>6, <1>8, <2>2
  <2> QED  BY <2>1, <2>2
<1>9. Listed([player EXCEPT ![p].bind = b], saves)
  <2>1. \A q \in Players : [player EXCEPT ![p].bind = b][q].bind =
                             IF q = p THEN b ELSE player[q].bind
    BY <1>4 DEF PlayerType
  <2> QED  BY <1>8, <2>1
<1>10. CASE /\ player' = [player EXCEPT ![p] =
                 [@ EXCEPT !.conn = "online", !.valid = TRUE, !.bind = b, !.last = 0]]
            /\ save' = saves
            /\ UNCHANGED <<queue, map, row>>
  <2> DEFINE r == [player[p] EXCEPT !.conn = "online", !.valid = TRUE, !.bind = b, !.last = 0]
  <2>1. r \in PlayerType /\ r.bind = b /\ r.stored = b /\ r.conn = "online"
    BY <1>3, <1>4 DEF PlayerType
  <2>2. player' = [player EXCEPT ![p] = r]  BY <1>10
  <2> HIDE DEF r
  <2>3. /\ player' \in [Players -> PlayerType] /\ player'[p] = r
        /\ \A q \in Players \ {p} : player'[q] = player[q]
    BY <1>4, <2>1, <2>2
  <2>4. TypeOK'  BY <1>1, <1>2, <1>6, <1>10, <2>3 DEF TypeOK
  <2>5. OfflineInv'  BY <1>1, <2>1, <2>3 DEF OfflineInv
  <2>6. \A q \in Players : player'[q].bind = IF q = p THEN b ELSE player[q].bind
    BY <2>1, <2>3
  <2>7. BindsAreMutual'
    <3>1. Listed(player', saves)  BY <1>8, <2>6
    <3> QED  BY <1>10, <3>1 DEF BindsAreMutual, Listed
  <2>8. \A q \in Players : player'[q].stored = player[q].stored
    BY <2>1, <2>3
  <2>9. CoverInv'  BY <1>1, <1>2, <1>7, <1>10, <2>8 DEF CoverInv, Covered
  <2>10. AfterInv'  BY <1>1, <1>10 DEF AfterInv
  <2> QED  BY <2>4, <2>5, <2>7, <2>9, <2>10 DEF IInv
<1>11. CASE i # 0 /\ mine /\ AddPlayerToMap(p, i, b, saves)
  BY <1>2, <1>3, <1>6, <1>7, <1>9, <1>11, AddPlayerStep
<1>12. CASE i # 0 /\ ~mine /\ AddPlayerToMap(p, b, b, saves)
  BY <1>2, <1>3, <1>6, <1>7, <1>9, <1>12, AddPlayerStep
<1> QED  BY <1>10, <1>11, <1>12 DEF Login, saves

\* ResetInstances: the bind, its rows and, if nobody else is listed, the save
\* go; the event stays.
LEMMA ResetInstancesStep ==
  ASSUME IInv, NEW p \in Players, ResetInstances(p)
  PROVE  IInv'
<1> DEFINE b == player[p].bind
           left == [save EXCEPT ![b].players = @ \ {p}]
           Cleared(q) == IF player[q].stored = b THEN [player[q] EXCEPT !.stored = 0] ELSE player[q]
<1>1. TypeOK /\ OfflineInv /\ BindsAreMutual /\ CoverInv /\ AfterInv  BY DEF IInv
<1>2. b \in Ids /\ 0 \notin Ids /\ player[p].conn = "online"
  BY <1>1, ConstantTypes DEF ResetInstances, TypeOK, PlayerType
<1>3. /\ player' = [q \in Players |->
           IF q = p THEN [Cleared(q) EXCEPT !.bind = 0] ELSE Cleared(q)]
      /\ save' = UnloadIfEmpty(left, b, {})
      /\ row' = [row EXCEPT ![b] = 0]
      /\ map' = IF map[b].loaded
                THEN [map EXCEPT ![b] = [@ EXCEPT !.timer = "min", !.after = TRUE]]
                ELSE map
      /\ UNCHANGED <<now, phase, queue, used, respawn, missed>>
  BY DEF ResetInstances
<1>4. \A q \in Players : Cleared(q) \in PlayerType
  BY <1>1 DEF TypeOK, PlayerType
<1>5. \A q \in Players : /\ Cleared(q).conn = player[q].conn
                         /\ Cleared(q).at = player[q].at
                         /\ Cleared(q).bind = player[q].bind
                         /\ Cleared(q).stored \in {0, player[q].stored}
  BY <1>1 DEF TypeOK, PlayerType
<1> HIDE DEF Cleared
<1>6. \A q \in Players :
        /\ player'[q] \in PlayerType
        /\ player'[q].conn = player[q].conn
        /\ player'[q].at = player[q].at
        /\ player'[q].bind = IF q = p THEN 0 ELSE player[q].bind
        /\ player'[q].stored \in {0, player[q].stored}
  <2> SUFFICES ASSUME NEW q \in Players
               PROVE  /\ player'[q] \in PlayerType
                      /\ player'[q].conn = player[q].conn
                      /\ player'[q].at = player[q].at
                      /\ player'[q].bind = IF q = p THEN 0 ELSE player[q].bind
                      /\ player'[q].stored \in {0, player[q].stored}
    OBVIOUS
  <2>1. CASE q = p
    <3>1. player'[q] = [Cleared(q) EXCEPT !.bind = 0]  BY <1>3, <2>1
    <3> QED  BY <1>4, <1>5, <2>1, <3>1 DEF PlayerType
  <2>2. CASE q # p
    <3>1. player'[q] = Cleared(q)  BY <1>3, <2>2
    <3> QED  BY <1>4, <1>5, <2>2, <3>1
  <2> QED  BY <2>1, <2>2
<1>7. /\ left \in [Ids -> SaveType]
      /\ \A j \in Ids : left[j].live = save[j].live
      /\ \A j \in Ids : left[j].players = save[j].players \ (IF j = b THEN {p} ELSE {})
  BY <1>1, <1>2 DEF TypeOK, SaveType
<1>8. Listed(player', left)
  <2>1. \A j \in Ids : save[j].players = {q \in Players : player[q].bind = j}
        /\ (save[j].players # {} => save[j].live)
    BY <1>1 DEF BindsAreMutual
  <2> HIDE DEF left
  <2> SUFFICES ASSUME NEW j \in Ids
               PROVE  /\ left[j].players = {q \in Players : player'[q].bind = j}
                      /\ left[j].players # {} => left[j].live
    BY DEF Listed
  <2>2. CASE j = b  BY <1>2, <1>6, <1>7, <2>1, <2>2
  <2>3. CASE j # b  BY <1>2, <1>6, <1>7, <2>1, <2>3
  <2> QED  BY <2>2, <2>3
<1> HIDE DEF left
<1>9. save' \in [Ids -> SaveType] /\ Listed(player', save')
      /\ \A j \in Ids : save'[j].live => save[j].live
  BY <1>2, <1>3, <1>7, <1>8, UnloadEffect, UnloadListed
<1>10. map' \in [Ids -> MapType] /\ \A j \in Ids \ {b} : map'[j] = map[j]
  BY <1>1, <1>2, <1>3 DEF TypeOK, MapType
<1>11. row' \in [Ids -> Nat] /\ row'[b] = 0 /\ \A j \in Ids \ {b} : row'[j] = row[j]
  BY <1>1, <1>2, <1>3 DEF TypeOK
<1>12. TypeOK'
  <2>1. player' \in [Players -> PlayerType]  BY <1>3, <1>6
  <2> QED  BY <1>1, <1>3, <1>9, <1>10, <1>11, <2>1 DEF TypeOK
<1>13. OfflineInv'  BY <1>1, <1>6 DEF OfflineInv
<1>14. BindsAreMutual'  BY <1>9 DEF BindsAreMutual, Listed
<1>15. CoverInv'
  <2>1. \A j \in Ids : Covered(j)' <=> Covered(j)  BY <1>3 DEF Covered
  <2>2. used' = used  BY <1>3
  <2>3. \A j \in Ids, q \in Players : player'[q].stored = j => player[q].stored = j
    BY <1>2, <1>6
  <2> QED  BY <1>1, <1>9, <2>1, <2>2, <2>3 DEF CoverInv
<1>16. AfterInv'  BY <1>1, <1>10, <1>11 DEF AfterInv
<1> QED  BY <1>12, <1>13, <1>14, <1>15, <1>16 DEF IInv

\* UpdateMaps unloads maps, EndTick moves the clock.
LEMMA TickStep ==
  ASSUME IInv, (\E passed \in BOOLEAN : UpdateMaps(passed)) \/ EndTick
  PROVE  IInv'
<1>1. TypeOK /\ OfflineInv /\ BindsAreMutual /\ CoverInv /\ AfterInv  BY DEF IInv
<1>2. UNCHANGED <<player, save, queue, used, row, missed>>
  BY DEF UpdateMaps, EndTick
<1>3. map' \in [Ids -> MapType] /\ \A i \in Ids : map'[i].after => map[i].after
  <2>1. CASE EndTick  BY <1>1, <2>1 DEF EndTick, TypeOK
  <2>2. ASSUME NEW passed \in BOOLEAN, UpdateMaps(passed)
        PROVE  map' \in [Ids -> MapType] /\ \A i \in Ids : map'[i].after => map[i].after
    <3>1. PICK gone : map' = [i \in Ids |-> IF i \in gone THEN NoMap ELSE map[i]]
      BY <2>2 DEF UpdateMaps
    <3>2. NoMap \in MapType /\ ~NoMap.after  BY DEF NoMap, MapType
    <3> QED  BY <1>1, <3>1, <3>2 DEF TypeOK
  <2> QED  BY <2>1, <2>2
<1>4. now' \in 1..MaxTime /\ phase' \in {"sessions", "resets"} /\ respawn' \subseteq respawn
  <2>1. CASE EndTick  BY <1>1, <2>1, ConstantTypes DEF EndTick, TypeOK
  <2>2. CASE \E passed \in BOOLEAN : UpdateMaps(passed)
    BY <1>1, <2>2 DEF UpdateMaps, TypeOK
  <2> QED  BY <2>1, <2>2
<1>5. TypeOK'  BY <1>1, <1>2, <1>3, <1>4 DEF TypeOK
<1>6. OfflineInv' /\ BindsAreMutual'  BY <1>1, <1>2 DEF OfflineInv, BindsAreMutual
<1>7. CoverInv'  BY <1>1, <1>2 DEF CoverInv, Covered
<1>8. AfterInv'  BY <1>1, <1>2, <1>3 DEF AfterInv
<1> QED  BY <1>5, <1>6, <1>7, <1>8 DEF IInv

\* ResetInstance takes the first event and, with it, whatever its id was used
\* for.
LEMMA ResetInstanceStep ==
  ASSUME IInv, ResetInstance
  PROVE  IInv'
<1> DEFINE i == queue[1].inst
<1>1. TypeOK /\ OfflineInv /\ BindsAreMutual /\ CoverInv /\ AfterInv  BY DEF IInv
<1>2. queue \in Seq(Events) /\ Len(queue) \in Nat \ {0} /\ queue[1] \in Events
  <2>1. queue \in Seq(Events) /\ queue # <<>>  BY <1>1 DEF TypeOK, Events, ResetInstance, Due
  <2> QED  BY <2>1
<1>3. i \in Ids /\ 0 \notin Ids  BY <1>2, ConstantTypes DEF Events
<1>4. /\ queue' = Tail(queue) /\ player' = ResetSave(i)
      /\ save' = [save EXCEPT ![i] = NoSave] /\ row' = [row EXCEPT ![i] = 0]
      /\ map' = IF ~map[i].loaded THEN map
                ELSE [map EXCEPT ![i] = IF Linked(player, i) # {}
                        THEN [@ EXCEPT !.whenEmpty = TRUE, !.after = TRUE]
                        ELSE [@ EXCEPT !.timer = "min", !.after = TRUE]]
      /\ respawn' = respawn \ {i} /\ used' = used \ {i}
      /\ UNCHANGED <<now, phase, missed>>
  BY DEF ResetInstance
<1> HIDE DEF i
<1>5. /\ queue' \in Seq(Events)
      /\ \A j \in Ids \ {i} : HasEvent(queue, j) => HasEvent(queue', j)
  <2>1. /\ Tail(queue) \in Seq(Events) /\ Len(Tail(queue)) = Len(queue) - 1
        /\ \A k \in 1..Len(queue) - 1 : Tail(queue)[k] = queue[k + 1]
    BY <1>2
  <2>2. ASSUME NEW j \in Ids \ {i}, NEW k \in 1..Len(queue), queue[k].inst = j
        PROVE  HasEvent(Tail(queue), j)
    <3>1. k # 1  BY <2>2 DEF i
    <3>2. k - 1 \in 1..Len(queue) - 1 /\ Tail(queue)[k - 1] = queue[k]
      BY <1>2, <2>1, <3>1
    <3> QED  BY <2>1, <2>2, <3>2 DEF HasEvent
  <2> QED  BY <1>4, <2>1, <2>2 DEF HasEvent
<1>6. \A q \in Players :
        /\ player'[q] \in PlayerType
        /\ player'[q].conn = player[q].conn
        /\ player'[q].at = player[q].at
        /\ player'[q].bind = IF q \in save[i].players THEN 0 ELSE player[q].bind
        /\ player'[q].stored = IF player[q].stored = i THEN 0 ELSE player[q].stored
  <2> SUFFICES ASSUME NEW q \in Players
               PROVE  /\ player'[q] \in PlayerType
                      /\ player'[q].conn = player[q].conn
                      /\ player'[q].at = player[q].at
                      /\ player'[q].bind = IF q \in save[i].players THEN 0 ELSE player[q].bind
                      /\ player'[q].stored = IF player[q].stored = i THEN 0 ELSE player[q].stored
    OBVIOUS
  <2>1. player[q] \in PlayerType  BY <1>1 DEF TypeOK
  <2>2. player'[q] = [player[q] EXCEPT !.bind = IF q \in save[i].players THEN 0 ELSE @,
                                       !.stored = IF @ = i THEN 0 ELSE @]
    BY <1>4 DEF ResetSave
  <2> QED  BY <2>1, <2>2 DEF PlayerType
<1>7. save' \in [Ids -> SaveType] /\ save'[i] = NoSave
      /\ \A j \in Ids \ {i} : save'[j] = save[j]
  BY <1>1, <1>3, <1>4 DEF TypeOK, SaveType, NoSave
<1>8. map' \in [Ids -> MapType] /\ \A j \in Ids \ {i} : map'[j] = map[j]
  BY <1>1, <1>3, <1>4 DEF TypeOK, MapType
<1>9. row' \in [Ids -> Nat] /\ row'[i] = 0 /\ \A j \in Ids \ {i} : row'[j] = row[j]
  BY <1>1, <1>3, <1>4 DEF TypeOK
<1>10. TypeOK'
  <2>1. player' \in [Players -> PlayerType]  BY <1>4, <1>6 DEF ResetSave
  <2> QED  BY <1>1, <1>4, <1>5, <1>7, <1>8, <1>9, <2>1 DEF TypeOK, Events
<1>11. OfflineInv'  BY <1>1, <1>6 DEF OfflineInv
<1>12. BindsAreMutual'
  <2>1. \A j \in Ids : save[j].players = {q \in Players : player[q].bind = j}
        /\ (save[j].players # {} => save[j].live)
    BY <1>1 DEF BindsAreMutual
  <2> SUFFICES ASSUME NEW j \in Ids
               PROVE  /\ save'[j].players = {q \in Players : player'[q].bind = j}
                      /\ save'[j].players # {} => save'[j].live
    BY DEF BindsAreMutual
  <2>2. CASE j = i
    <3>1. save'[j].players = {}  BY <1>7, <2>2 DEF NoSave
    <3>2. \A q \in Players : player'[q].bind # i  BY <1>3, <1>6, <2>1
    <3> QED  BY <2>2, <3>1, <3>2
  <2>3. CASE j # i  BY <1>3, <1>6, <1>7, <2>1, <2>3
  <2> QED  BY <2>2, <2>3
<1>13. CoverInv'
  <2> SUFFICES ASSUME NEW j \in Ids,
                      j \in used' \/ save'[j].live \/ (\E q \in Players : player'[q].stored = j)
               PROVE  Covered(j)'
    BY DEF CoverInv
  <2>1. j # i  BY <1>3, <1>4, <1>6, <1>7 DEF NoSave
  <2>2. j \in used \/ save[j].live \/ (\E q \in Players : player[q].stored = j)
    BY <1>3, <1>4, <1>6, <1>7, <2>1
  <2> QED  BY <1>1, <1>4, <1>5, <2>1, <2>2 DEF CoverInv, Covered
<1>14. AfterInv'  BY <1>1, <1>8, <1>9 DEF AfterInv
<1> QED  BY <1>10, <1>11, <1>12, <1>13, <1>14 DEF IInv

\* A restart schedules a reset for every row it keeps, but for one whose time
\* is this very second.
LEMMA RestartStep ==
  ASSUME IInv, NEW t \in now..MaxTime, Restart(t)
  PROVE  IInv'
<1> DEFINE kept == {i \in Ids : row[i] >= t /\ \E p \in Players : player[p].stored = i}
           If(i) == IF i \in kept THEN i ELSE 0
           late == {j \in kept : row[j] > t}
           events == {Event(i, row[i]) : i \in late}
<1>1. TypeOK /\ OfflineInv  BY DEF IInv
<1>2. /\ now' = t /\ row' = [i \in Ids |-> IF i \in kept THEN row[i] ELSE 0]
      /\ respawn' = respawn \cap kept
      /\ player' = [p \in Players |->
           [player[p] EXCEPT !.stored = If(@), !.last = If(@)]]
      /\ used' = kept
      /\ queue' \in Scheduled(events)
      /\ save' = [i \in Ids |-> NoSave] /\ map' = [i \in Ids |-> NoMap]
      /\ missed' = {i \in kept : row[i] = t}
      /\ phase' = phase
  BY DEF Restart
<1>3. \A p \in Players : player[p].conn = "offline"  BY DEF Restart
<1>4. kept \subseteq Ids /\ t \in Nat /\ \A i \in kept : row[i] \in Nat /\ (row[i] > t \/ row[i] = t)
  BY <1>1, ConstantTypes DEF TypeOK
<1> HIDE DEF kept
<1>5. events \subseteq Events /\ IsFiniteSet(events)
  <2>1. events \subseteq Events  BY <1>4 DEF Event, Events
  <2>2. IsFiniteSet(Ids)
    BY DungeonAssumption, FS_Interval DEF DungeonAssumption, Ids
  <2>3. IsFiniteSet(late)  BY <1>4, <2>2, FS_Subset
  <2> DEFINE f == [i \in late |-> Event(i, row[i])]
  <2> HIDE DEF late
  <2>4. f \in Surjection(late, events)  BY DEF Surjection
  <2> QED  BY <2>1, <2>3, <2>4, FS_Surjection
<1>6. /\ queue' \in Seq(events)
      /\ \A e \in events : \E k \in 1..Len(queue') : queue'[k] = e
  <2> HIDE DEF events
  <2> QED  BY <1>2, <1>5, ScheduledEffect
<1>7. queue' \in Seq(Events)  BY <1>5, <1>6
<1>8. \A i \in late : HasEvent(queue', i)
  <2> SUFFICES ASSUME NEW i \in late PROVE HasEvent(queue', i)
    OBVIOUS
  <2>1. PICK k \in 1..Len(queue') : queue'[k] = Event(i, row[i])  BY <1>6
  <2> QED  BY <2>1 DEF HasEvent, Event
<1> HIDE DEF events
<1>9. \A p \in Players :
        /\ player'[p] \in PlayerType
        /\ player'[p].conn = player[p].conn
        /\ player'[p].at = player[p].at
        /\ player'[p].bind = player[p].bind
        /\ player'[p].stored \in {0} \cup kept
  <2> SUFFICES ASSUME NEW p \in Players
               PROVE  /\ player'[p] \in PlayerType
                      /\ player'[p].conn = player[p].conn
                      /\ player'[p].at = player[p].at
                      /\ player'[p].bind = player[p].bind
                      /\ player'[p].stored \in {0} \cup kept
    OBVIOUS
  <2>1. player[p] \in PlayerType  BY <1>1 DEF TypeOK
  <2>2. player'[p] = [player[p] EXCEPT !.stored = If(player[p].stored), !.last = If(player[p].last)]
    BY <1>2
  <2>3. If(player[p].stored) \in {0} \cup kept /\ If(player[p].last) \in {0} \cup kept
    OBVIOUS
  <2> HIDE DEF If
  <2> QED  BY <1>4, <2>1, <2>2, <2>3 DEF PlayerType
<1>10. TypeOK'
  <2>1. player' \in [Players -> PlayerType]  BY <1>2, <1>9
  <2>2. NoMap \in MapType /\ NoSave \in SaveType  BY DEF NoMap, MapType, NoSave, SaveType
  <2>3. row' \in [Ids -> Nat]  BY <1>2, <1>4
  <2>4. now' \in 1..MaxTime
    <3>1. now \in 1..MaxTime /\ MaxTime \in Nat  BY <1>1, ConstantTypes DEF TypeOK
    <3>2. now' = t  BY <1>2
    <3>3. t \in 1..MaxTime  BY <3>1
    <3> QED  BY <3>2, <3>3
  <2> QED  BY <1>1, <1>2, <1>4, <1>7, <2>1, <2>2, <2>3, <2>4 DEF TypeOK, Events
<1>11. OfflineInv'  BY <1>1, <1>9 DEF OfflineInv
<1>12. BindsAreMutual'
  <2>1. \A p \in Players : player'[p].bind = 0  BY <1>1, <1>3, <1>9 DEF OfflineInv
  <2>2. \A i \in Ids : save'[i].players = {}  BY <1>2 DEF NoSave
  <2> QED  BY <2>1, <2>2, ConstantTypes DEF BindsAreMutual
<1>13. CoverInv'
  <2>1. \A i \in kept : Covered(i)'  BY <1>2, <1>4, <1>8 DEF Covered
  <2>2. \A i \in Ids : ~save'[i].live  BY <1>2 DEF NoSave
  <2> QED  BY <1>2, <1>9, <2>1, <2>2, ConstantTypes DEF CoverInv
<1>14. AfterInv'  BY <1>2 DEF AfterInv, NoMap
<1> QED  BY <1>10, <1>11, <1>12, <1>13, <1>14 DEF IInv

-----------------------------------------------------------------------------
(***************************************************************************)
(* The theorems.                                                           *)
(***************************************************************************)
\* Nobody is online at the first start, and there is no save.
LEMMA InitHolds == Init => IInv
<1> SUFFICES ASSUME Init PROVE IInv
  OBVIOUS
<1>1. TypeOK  BY ConstantTypes DEF Init, TypeOK, PlayerType, SaveType, MapType, NoSave, NoMap
<1>2. \A i \in Ids : save[i] = NoSave /\ map[i] = NoMap  BY DEF Init
<1>3. \A p \in Players : player[p].bind = 0 /\ player[p].at = 0 /\ player[p].stored = 0
  BY DEF Init
<1>4. OfflineInv  BY <1>3 DEF OfflineInv
<1>5. BindsAreMutual  BY <1>2, <1>3, ConstantTypes DEF BindsAreMutual, NoSave
<1>6. used = {}  BY DEF Init
<1>7. CoverInv  BY <1>2, <1>3, <1>6, ConstantTypes DEF CoverInv, NoSave
<1>8. AfterInv  BY <1>2 DEF AfterInv, NoMap
<1> QED  BY <1>1, <1>4, <1>5, <1>7, <1>8 DEF IInv

\* Every action keeps the invariant.
LEMMA StepHolds == IInv /\ [Next]_vars => IInv'
<1> SUFFICES ASSUME IInv, [Next]_vars PROVE IInv'
  OBVIOUS
<1>1. CASE UNCHANGED vars
  BY <1>1 DEF vars, IInv, TypeOK, OfflineInv, BindsAreMutual, CoverInv, Covered, AfterInv
<1> QED
  BY <1>1, EnterStep, PlayStep, LogoutStep, LoginStep, ResetInstancesStep, TickStep,
     ResetInstanceStep, RestartStep DEF Next

\* Every variable keeps its type: an event is always of a real instance id.
THEOREM TypesAreKept == Spec => []TypeOK
<1>1. IInv => TypeOK  BY DEF IInv
<1> QED  BY <1>1, InitHolds, StepHolds, PTL DEF Spec

\* No bind of a player dangles, and no save is deleted with players listed,
\* whatever the order of logins, logouts, teleports and resets.
THEOREM BindsArePointers == Spec => []BindsAreMutual
<1>1. IInv => BindsAreMutual  BY DEF IInv
<1> QED  BY <1>1, InitHolds, StepHolds, PTL DEF Spec

\* Every marked instance id has an event that will free it.
THEOREM IdsAreFreed == Spec => []NoIdLeak
<1>1. IInv => NoIdLeak
  <2> SUFFICES ASSUME IInv, NEW i \in used
               PROVE  (\E k \in DOMAIN queue : queue[k].inst = i) \/ i \in missed
    BY DEF NoIdLeak
  <2>1. queue \in Seq(Events) /\ i \in Ids  BY DEF IInv, TypeOK, Events
  <2>2. DOMAIN queue = 1..Len(queue)  BY <2>1
  <2>3. Covered(i)  BY <2>1 DEF IInv, CoverInv
  <2> QED  BY <2>2, <2>3 DEF Covered, HasEvent
<1> QED  BY <1>1, InitHolds, StepHolds, PTL DEF Spec

\* The stored respawn times of an instance are deleted only when it has no row.
THEOREM ProgressStays == Spec => ProgressIsKept
<1>1. ASSUME IInv, [Next]_vars, NEW i \in respawn \ respawn' PROVE row'[i] = 0
  <2>1. i \in Ids /\ row \in [Ids -> Nat]  BY <1>1 DEF IInv, TypeOK
  <2>2. CASE ResetInstance
    <3>1. /\ respawn' = respawn \ {queue[1].inst}
          /\ row' = [row EXCEPT ![queue[1].inst] = 0]
      BY <2>2 DEF ResetInstance
    <3> QED  BY <1>1, <2>1, <3>1
  <2>3. ASSUME NEW passed \in BOOLEAN, UpdateMaps(passed) PROVE row'[i] = 0
    <3>1. map[i].after /\ row' = row  BY <1>1, <2>3 DEF UpdateMaps
    <3> QED  BY <1>1, <2>1, <3>1 DEF IInv, AfterInv
  <2>4. ASSUME NEW t \in now..MaxTime, Restart(t) PROVE row'[i] = 0
    <3> DEFINE kept == {j \in Ids : row[j] >= t /\ \E p \in Players : player[p].stored = j}
    <3>1. respawn' = respawn \cap kept /\ row' = [j \in Ids |-> IF j \in kept THEN row[j] ELSE 0]
      BY <2>4 DEF Restart
    <3> HIDE DEF kept
    <3> QED  BY <1>1, <2>1, <3>1
  <2>5. CASE EndTick  BY <1>1, <2>5 DEF EndTick
  <2>6. CASE UNCHANGED vars  BY <1>1, <2>6 DEF vars
  <2>7. ASSUME NEW p \in Players,
               \/ Enter(p) \/ Kill(p) \/ TeleportOut(p) \/ WorldportAck(p)
               \/ Logout(p) \/ Login(p) \/ ResetInstances(p)
        PROVE  FALSE
    <3>1. respawn \subseteq respawn'
      BY <2>7 DEF Enter, Kill, TeleportOut, WorldportAck, Logout, Login, ResetInstances
    <3> QED  BY <1>1, <3>1
  <2> QED  BY <1>1, <2>2, <2>3, <2>4, <2>5, <2>6, <2>7 DEF Next
<1>2. IInv /\ [Next]_vars => [\A i \in respawn \ respawn' : row'[i] = 0]_vars
  BY <1>1
<1> QED  BY <1>2, InitHolds, StepHolds, PTL DEF Spec, ProgressIsKept
=============================================================================
