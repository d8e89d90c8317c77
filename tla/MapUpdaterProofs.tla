-------------------------- MODULE MapUpdaterProofs --------------------------
(***************************************************************************)
(* Proofs about MapUpdater, for any workers, base maps and instances: the  *)
(* inductive invariant IInv, the safety properties it implies, and the     *)
(* refinement of TickBarrier.                                              *)
(***************************************************************************)
EXTENDS MapUpdater, TLAPS, FiniteSetTheorems

\* Where a worker is tells whether it holds a request.
PCInv ==
    \A w \in Workers :
        /\ wpc[w] \in {"pop", "sleep", "done"} => request[w] = NoMap
        /\ wpc[w] \in {"update", "visit", "finish"} => request[w] # NoMap
        /\ wpc[w] = "check" /\ request[w] = NoMap => token
        /\ visit[w] # {} => wpc[w] = "visit"
        /\ w \notin workerThreads => wpc[w] = "pop"

\* The order of the shutdown.
ShutdownInv ==
    /\ shutdown => token
    /\ mpc \in {"finalWait", "finalBlocked", "cancel", "join"} => token
    /\ token => mpc \in {"finalWait", "finalBlocked", "cancel", "join", "exit"}
    /\ toVisit # {} => mpc = "schedule"
    /\ ~Activated => queue = <<>>

\* A map is in one place: still to visit, queued, held, being visited or done.
PlaceInv ==
    /\ toVisit \subseteq iMaps
    /\ toVisit \cap (Queued \cup updated) = {}
    /\ Queued \cap (updated \cup skipped) = {}
    /\ \A w \in Holders :
          /\ request[w] \notin toVisit
          /\ wpc[w] = "check" \/ wpc[w] = "update" => request[w] \notin updated \cup skipped
          /\ wpc[w] = "visit" \/ wpc[w] = "finish" => request[w] \in updated
    /\ \A w \in Workers : \A i \in visit[w] :
          /\ ParentOf[i] = request[w]
          /\ i \notin Queued \cup updated \cup skipped
          /\ \A v \in Holders : request[v] # i

\* An instance is reached only through its parent, and nothing is forgotten.
ReachInv ==
    /\ \A i \in instances : ParentOf[i] \in iMaps
    /\ Updating =>
        /\ \A i \in Instances :
              i \in Queued \cup updated \cup skipped \/ (\E w \in Holders : request[w] = i)
                  => ParentOf[i] \in updated
        /\ \A m \in iMaps :
              \/ m \in toVisit \cup Queued \cup updated
              \/ \E w \in Holders : request[w] = m
        /\ \A i \in instances :
              \/ ParentOf[i] \notin updated
              \/ i \in Queued \cup updated \cup skipped
              \/ \E w \in Holders : request[w] = i
              \/ \E w \in Workers : i \in visit[w]

IInv ==
    /\ TypeOK /\ PendingIsExact /\ WorldHasMaps /\ PCInv /\ ShutdownInv
    /\ NoDeadMap /\ OneRequestPerMap /\ PlaceInv /\ ReachInv

-----------------------------------------------------------------------------
(***************************************************************************)
(* Lemmas about the helpers.                                               *)
(***************************************************************************)

\* A notification only moves a sleeping worker back to its loop.
LEMMA NotifyOneEffect ==
    ASSUME TypeOK, NEW c \in NotifyOne
    PROVE  /\ c \in [Workers -> WorkerPC]
           /\ \A w \in Workers : c[w] = wpc[w] \/ (wpc[w] = "sleep" /\ c[w] = "pop")
<1>1. CASE Sleepers = {}
  BY <1>1 DEF NotifyOne, TypeOK
<1>2. CASE Sleepers # {}
  <2>1. PICK s \in Sleepers : c = [wpc EXCEPT ![s] = "pop"]
    BY <1>2 DEF NotifyOne
  <2> QED  BY <2>1 DEF TypeOK, Sleepers, WorkerPC
<1> QED  BY <1>1, <1>2

\* A push adds one map to the queue.
LEMMA PushEffect ==
    ASSUME TypeOK, TypeOK', NEW m \in Maps, ScheduleUpdate(m), QueueDistinct, m \notin Queued
    PROVE  Queued' = Queued \cup {m} /\ QueueDistinct'
  BY DEF TypeOK, ScheduleUpdate, Queued, QueueDistinct

\* A pop takes one map out of a queue that has no map twice.
LEMMA PopEffect ==
    ASSUME TypeOK, queue # <<>>, queue' = Tail(queue),
           QueueDistinct
    PROVE  /\ Head(queue) \in Queued
           /\ Queued' = Queued \ {Head(queue)}
           /\ Len(queue') = Len(queue) - 1
           /\ QueueDistinct'
<1>1. Len(queue) \in Nat \ {0}  BY DEF TypeOK
<1>2. /\ Head(queue) = queue[1]
      /\ Len(queue') = Len(queue) - 1
      /\ \A k \in 1..Len(queue') : queue'[k] = queue[k + 1]
  BY DEF TypeOK
<1>3. Head(queue) \in Queued  BY <1>1, <1>2 DEF Queued
<1>4. Queued' \subseteq Queued \ {Head(queue)}  BY <1>1, <1>2 DEF Queued, QueueDistinct
<1>5. Queued \ {Head(queue)} \subseteq Queued'
  <2> SUFFICES ASSUME NEW k \in 1..Len(queue), queue[k] # Head(queue)
               PROVE  queue[k] \in Queued'
    BY DEF Queued
  <2>1. k - 1 \in 1..Len(queue') /\ queue'[k - 1] = queue[k]  BY <1>1, <1>2
  <2> QED  BY <2>1 DEF Queued
<1>6. QueueDistinct'
  BY <1>1, <1>2 DEF QueueDistinct
<1> QED  BY <1>2, <1>3, <1>4, <1>5, <1>6

\* There are finitely many holders, and pending is at least their number.
LEMMA HoldersFinite ==
    ASSUME TypeOK, PendingIsExact
    PROVE  /\ IsFiniteSet(Holders)
           /\ Cardinality(Holders) \in Nat
           /\ Holders # {} => pending \in Nat \ {0}
           /\ pending = 0 => queue = <<>> /\ Holders = {}
<1>1. IsFiniteSet(Holders)
  BY MapsAssumption, FS_Subset DEF MapsAssumption, Holders
<1>2. Cardinality(Holders) \in Nat  BY <1>1, FS_CardinalityType
<1>3. Holders # {} => Cardinality(Holders) # 0  BY <1>1, FS_EmptySet
<1>4. Len(queue) \in Nat /\ (Len(queue) = 0 => queue = <<>>)  BY DEF TypeOK
<1> QED  BY <1>1, <1>2, <1>3, <1>4 DEF PendingIsExact

-----------------------------------------------------------------------------
(***************************************************************************)
(* Type correctness.                                                       *)
(***************************************************************************)
\* Every step keeps the types.
LEMMA TypeStep ==
    ASSUME IInv, [Next]_vars
    PROVE  TypeOK'
<1> USE MapsAssumption DEF MapsAssumption, IInv, TypeOK, Maps, WorldPC, WorkerPC,
        mapVars, worldVars, workerVars, tickVars
<1>1. CASE UNCHANGED vars  BY <1>1 DEF vars
<1>2. ASSUME NEW m \in BaseMaps, CreateBaseMap(m) PROVE TypeOK'
  BY <1>2 DEF CreateBaseMap
<1>3. ASSUME NEW i \in Instances, CreateInstance(i) PROVE TypeOK'
  BY <1>3 DEF CreateInstance
<1>4. CASE BeginTick \/ EndSchedule \/ Wait \/ DelayedUpdate
  BY <1>4 DEF BeginTick, EndSchedule, Wait, DelayedUpdate
<1>5. ASSUME NEW m \in BaseMaps, ScheduleBaseMap(m) PROVE TypeOK'
  BY <1>5, NotifyOneEffect DEF ScheduleBaseMap, ScheduleUpdate
<1>6. ASSUME NEW m \in BaseMaps, UpdateInline(m) PROVE TypeOK'
  BY <1>6 DEF UpdateInline, Children
<1>7. CASE UnloadAll \/ Deactivate \/ Cancel \/ Join
  <2>1. CASE Cancel  BY <2>1 DEF Cancel
  <2>2. CASE UnloadAll \/ Deactivate \/ Join
    BY <2>2 DEF UnloadAll, Deactivate, Join
  <2> QED  BY <1>7, <2>1, <2>2
<1>8. ASSUME NEW w \in Workers, WaitAndPop(w) PROVE TypeOK'
  BY <1>8 DEF WaitAndPop
<1>9. ASSUME NEW w \in Workers, CheckToken(w) \/ EndVisit(w) PROVE TypeOK'
  BY <1>9 DEF CheckToken, EndVisit
<1>10. ASSUME NEW w \in Workers, UpdateMap(w) PROVE TypeOK'
  BY <1>10 DEF UpdateMap, Children, PCInv
<1>11. ASSUME NEW w \in Workers, NEW i \in Instances, ScheduleInstance(w, i) PROVE TypeOK'
  BY <1>11, NotifyOneEffect DEF ScheduleInstance, ScheduleUpdate
<1>12. ASSUME NEW w \in Workers, NEW i \in Instances, DestroyInstance(w, i) PROVE TypeOK'
  BY <1>12 DEF DestroyInstance
<1>13. ASSUME NEW w \in Workers, UpdateFinished(w) PROVE TypeOK'
  <2>1. w \in Holders  BY <1>13 DEF UpdateFinished, PCInv, Holders
  <2>2. pending \in Nat \ {0}  BY <2>1, HoldersFinite
  <2> QED  BY <1>13, <2>2 DEF UpdateFinished, NotifyWorld
<1>14. CASE SpuriousWakeup
  BY <1>14 DEF SpuriousWakeup, NotifyWorld, Sleepers
<1> QED
  BY <1>1, <1>2, <1>3, <1>4, <1>5, <1>6, <1>7, <1>8, <1>9, <1>10, <1>11, <1>12, <1>13, <1>14
  DEF Next, WorldStep, WorkerStep

-----------------------------------------------------------------------------
(***************************************************************************)
(* Program counters and the order of the shutdown.                         *)
(***************************************************************************)
LEMMA ControlStep ==
    ASSUME IInv, [Next]_vars, TypeOK'
    PROVE  PCInv' /\ ShutdownInv'
<1> USE DEF IInv, TypeOK, PCInv, ShutdownInv, WorldPC, WorkerPC, Activated,
        mapVars, worldVars, workerVars, tickVars
<1> DEFINE Goal == PCInv' /\ ShutdownInv'
<1>1. CASE UNCHANGED vars  BY <1>1 DEF vars
<1>2. ASSUME NEW m \in BaseMaps, CreateBaseMap(m) PROVE Goal
  BY <1>2 DEF CreateBaseMap
<1>3. ASSUME NEW i \in Instances, CreateInstance(i) PROVE Goal
  BY <1>3 DEF CreateInstance
<1>4. CASE BeginTick \/ EndSchedule \/ Wait \/ DelayedUpdate
  BY <1>4 DEF BeginTick, EndSchedule, Wait, DelayedUpdate
<1>5. ASSUME NEW m \in BaseMaps, ScheduleBaseMap(m) PROVE Goal
  BY <1>5, NotifyOneEffect DEF ScheduleBaseMap, ScheduleUpdate
<1>6. ASSUME NEW m \in BaseMaps, UpdateInline(m) PROVE Goal
  BY <1>6 DEF UpdateInline
<1>7. CASE UnloadAll \/ Deactivate \/ Join
  BY <1>7 DEF UnloadAll, Deactivate, Join
<1>8. CASE Cancel
  BY <1>8 DEF Cancel
<1>9. ASSUME NEW w \in Workers, WaitAndPop(w) PROVE Goal
  <2>1. queue # <<>> => Head(queue) \in Maps  OBVIOUS
  <2> QED  BY <1>9, <2>1, MapsAssumption DEF WaitAndPop, MapsAssumption
<1>10. ASSUME NEW w \in Workers, CheckToken(w) PROVE Goal
  <2>1. token => Holders = {}  BY DEF WorldHasMaps, Updating
  <2> QED  BY <1>10, <2>1 DEF CheckToken, Holders
<1>11. ASSUME NEW w \in Workers, UpdateMap(w) \/ EndVisit(w) PROVE Goal
  BY <1>11 DEF UpdateMap, EndVisit
<1>12. ASSUME NEW w \in Workers, NEW i \in Instances, ScheduleInstance(w, i) PROVE Goal
  BY <1>12, NotifyOneEffect DEF ScheduleInstance, ScheduleUpdate
<1>13. ASSUME NEW w \in Workers, NEW i \in Instances, DestroyInstance(w, i) PROVE Goal
  BY <1>13 DEF DestroyInstance
<1>14. ASSUME NEW w \in Workers, UpdateFinished(w) PROVE Goal
  BY <1>14 DEF UpdateFinished, NotifyWorld
<1>15. CASE SpuriousWakeup
  BY <1>15 DEF SpuriousWakeup, NotifyWorld, Sleepers
<1> QED
  BY <1>1, <1>2, <1>3, <1>4, <1>5, <1>6, <1>7, <1>8, <1>9, <1>10, <1>11, <1>12, <1>13,
     <1>14, <1>15
  DEF Next, WorldStep, WorkerStep

-----------------------------------------------------------------------------
(***************************************************************************)
(* The count of pending requests and the exclusive use of the maps.        *)
(***************************************************************************)
LEMMA CountStep ==
    ASSUME IInv, [Next]_vars, TypeOK'
    PROVE  PendingIsExact' /\ WorldHasMaps'
<1> USE DEF IInv, TypeOK, WorldPC, Updating, mapVars, worldVars, workerVars, tickVars
<1> DEFINE Goal == PendingIsExact' /\ WorldHasMaps'
           Same == UNCHANGED <<pending, queue, request>>
\* Steps that leave requests alone and do not end the update phase.
<1>0. ASSUME Same, ~Updating' => ~Updating PROVE Goal
  BY <1>0 DEF PendingIsExact, WorldHasMaps, Holders
<1>1. CASE UNCHANGED vars  BY <1>0, <1>1 DEF vars
<1>2. ASSUME NEW m \in BaseMaps, CreateBaseMap(m) PROVE Goal
  BY <1>0, <1>2 DEF CreateBaseMap
<1>3. ASSUME NEW i \in Instances, CreateInstance(i) PROVE Goal
  BY <1>0, <1>3 DEF CreateInstance
<1>4. CASE BeginTick \/ DelayedUpdate \/ UnloadAll \/ Deactivate \/ Join
  BY <1>0, <1>4 DEF BeginTick, DelayedUpdate, UnloadAll, Deactivate, Join
<1>5. CASE EndSchedule \/ Wait
  <2>1. Same  BY <1>5 DEF EndSchedule, Wait
  <2>2. PendingIsExact'  BY <2>1 DEF PendingIsExact, Holders
  <2>3. CASE EndSchedule
    BY <2>1, <2>2, <2>3 DEF EndSchedule, WorldHasMaps, Holders, Activated, ShutdownInv, PCInv
  <2>4. CASE Wait
    BY <2>1, <2>2, <2>4, HoldersFinite DEF Wait, WorldHasMaps, Holders
  <2> QED  BY <1>5, <2>3, <2>4
<1>6. ASSUME NEW m \in BaseMaps, ScheduleBaseMap(m) PROVE Goal
  <2>1. /\ ScheduleUpdate(m) /\ UNCHANGED request /\ Updating'
    BY <1>6 DEF ScheduleBaseMap
  <2>2. Len(queue') = Len(queue) + 1  BY <2>1 DEF ScheduleUpdate, Maps
  <2> QED  BY <2>1, <2>2, HoldersFinite DEF ScheduleUpdate, PendingIsExact, WorldHasMaps, Holders
<1>7. ASSUME NEW m \in BaseMaps, UpdateInline(m) PROVE Goal
  BY <1>0, <1>7 DEF UpdateInline
<1>8. CASE Cancel
  <2>1. queue = <<>> /\ queue' = <<>>  BY <1>8 DEF Cancel, WorldHasMaps
  <2> QED  BY <1>0, <1>8, <2>1 DEF Cancel
<1>9. ASSUME NEW w \in Workers, WaitAndPop(w) PROVE Goal
  <2>1. CASE Same /\ UNCHANGED mpc  BY <1>0, <2>1
  <2>2. CASE /\ queue # <<>> /\ queue' = Tail(queue)
             /\ request' = [request EXCEPT ![w] = Head(queue)]
             /\ UNCHANGED <<pending, mpc>>
    <3>1. w \notin Holders  BY <1>9 DEF WaitAndPop, PCInv, Holders
    <3>2. Head(queue) \in Maps /\ Head(queue) # NoMap
      BY <2>2, MapsAssumption DEF MapsAssumption
    <3>3. Holders' = Holders \cup {w}  BY <2>2, <3>2 DEF Holders
    <3>4. Cardinality(Holders') = Cardinality(Holders) + 1
      BY <3>1, <3>3, HoldersFinite, FS_AddElement
    <3>5. Len(queue') = Len(queue) - 1  BY <2>2
    <3>6. Updating'  BY <2>2 DEF WorldHasMaps
    <3>7. Len(queue) \in Nat /\ Cardinality(Holders) \in Nat  BY HoldersFinite
    <3>8. Len(queue) + Cardinality(Holders) = (Len(queue) - 1) + (Cardinality(Holders) + 1)
      BY <3>7
    <3>9. pending' = Len(queue) + Cardinality(Holders)  BY <2>2 DEF PendingIsExact
    <3> QED  BY <3>4, <3>5, <3>6, <3>8, <3>9 DEF PendingIsExact, WorldHasMaps
  <2> QED  BY <1>9, <2>1, <2>2, SMTT(40) DEF WaitAndPop
<1>10. ASSUME NEW w \in Workers, CheckToken(w) \/ UpdateMap(w) \/ EndVisit(w) PROVE Goal
  BY <1>0, <1>10 DEF CheckToken, UpdateMap, EndVisit
<1>11. ASSUME NEW w \in Workers, NEW i \in Instances, ScheduleInstance(w, i) PROVE Goal
  <2>1. /\ ScheduleUpdate(i) /\ UNCHANGED <<request, mpc>> /\ w \in Holders
    BY <1>11 DEF ScheduleInstance, PCInv, Holders
  <2>2. Len(queue') = Len(queue) + 1  BY <2>1 DEF ScheduleUpdate, Maps
  <2>3. Holders' = Holders /\ Holders # {}  BY <2>1 DEF Holders
  <2>4. Cardinality(Holders') = Cardinality(Holders)  BY <2>3
  <2>5. Len(queue) \in Nat /\ Cardinality(Holders) \in Nat  BY HoldersFinite
  <2>6. Len(queue) + Cardinality(Holders) + 1 = (Len(queue) + 1) + Cardinality(Holders)
    BY <2>5
  <2>7. pending' = Len(queue) + Cardinality(Holders) + 1
    BY <2>1 DEF ScheduleUpdate, PendingIsExact
  <2>8. Updating'  BY <2>1, <2>3 DEF WorldHasMaps
  <2> QED  BY <2>2, <2>4, <2>6, <2>7, <2>8 DEF PendingIsExact, WorldHasMaps
<1>12. ASSUME NEW w \in Workers, NEW i \in Instances, DestroyInstance(w, i) PROVE Goal
  BY <1>0, <1>12 DEF DestroyInstance
<1>13. ASSUME NEW w \in Workers, UpdateFinished(w) PROVE Goal
  <2>1. w \in Holders  BY <1>13 DEF UpdateFinished, PCInv, Holders
  <2>2. Holders' = Holders \ {w}  BY <1>13 DEF UpdateFinished, Holders
  <2>3. Cardinality(Holders') = Cardinality(Holders) - 1
    BY <2>1, <2>2, HoldersFinite, FS_RemoveElement
  <2>4. Updating /\ Updating'  BY <1>13, <2>1 DEF UpdateFinished, NotifyWorld, WorldHasMaps
  <2> QED  BY <1>13, <2>3, <2>4, HoldersFinite DEF UpdateFinished, PendingIsExact, WorldHasMaps
<1>14. CASE SpuriousWakeup
  BY <1>0, <1>14 DEF SpuriousWakeup, NotifyWorld
<1> QED
  BY <1>1, <1>2, <1>3, <1>4, <1>5, <1>6, <1>7, <1>8, <1>9, <1>10, <1>11, <1>12, <1>13, <1>14
  DEF Next, WorldStep, WorkerStep

-----------------------------------------------------------------------------
(***************************************************************************)
(* Where each map is.                                                      *)
(***************************************************************************)
LEMMA PlaceStep ==
    ASSUME IInv, [Next]_vars, TypeOK', PCInv', ShutdownInv', WorldHasMaps'
    PROVE  NoDeadMap' /\ OneRequestPerMap' /\ PlaceInv' /\ ReachInv'
<1> USE DEF IInv, TypeOK, PCInv, WorldPC, Updating, Holders, mapVars, worldVars,
        workerVars, tickVars, NoDeadMap, OneRequestPerMap, PlaceInv, ReachInv, Live
<1> DEFINE Goal == NoDeadMap' /\ OneRequestPerMap' /\ PlaceInv' /\ ReachInv'
<1>0. UNCHANGED queue => UNCHANGED <<Queued, QueueDistinct>>
  BY DEF Queued, QueueDistinct
<1>1. queue = <<>> => Queued = {}  BY DEF Queued
\* Steps of the program counters alone.
<1>a. ASSUME UNCHANGED <<iMaps, instances, toVisit, queue, request, visit, updated, skipped>>,
             \A w \in Holders :
                \/ wpc'[w] = wpc[w]
                \/ wpc[w] = "check" /\ wpc'[w] = "update"
                \/ wpc[w] = "visit" /\ wpc'[w] = "finish",
             Updating' => Updating
      PROVE  Goal
  <2>1. UNCHANGED <<Queued, QueueDistinct, Holders>>  BY <1>0, <1>a
  <2>2. NoDeadMap' /\ OneRequestPerMap'  BY <1>a, <2>1
  <2>3. PlaceInv'  BY <1>a, <2>1
  <2>4. ReachInv'  BY <1>a, <2>1
  <2> QED  BY <2>2, <2>3, <2>4
<1>2. CASE UNCHANGED vars  BY <1>a, <1>2 DEF vars
<1>3. ASSUME NEW m \in BaseMaps, CreateBaseMap(m) PROVE Goal
  BY <1>0, <1>1, <1>3 DEF CreateBaseMap, WorldHasMaps
<1>4. ASSUME NEW i \in Instances, CreateInstance(i) PROVE Goal
  BY <1>0, <1>1, <1>4 DEF CreateInstance, WorldHasMaps
<1>5. CASE BeginTick
  BY <1>0, <1>1, <1>5 DEF BeginTick, WorldHasMaps
<1>6. CASE EndSchedule \/ Wait
  BY <1>a, <1>6 DEF EndSchedule, Wait
<1>7. CASE DelayedUpdate \/ Deactivate \/ Join
  BY <1>a, <1>7 DEF DelayedUpdate, Deactivate, Join
<1>8. CASE UnloadAll
  BY <1>0, <1>1, <1>8 DEF UnloadAll, WorldHasMaps, ShutdownInv
<1>9. CASE Cancel
  BY <1>0, <1>1, <1>9 DEF Cancel, WorldHasMaps
<1>10. ASSUME NEW m \in BaseMaps, ScheduleBaseMap(m) PROVE Goal
  <2>1. m \notin Queued /\ m \in Maps  BY <1>10 DEF ScheduleBaseMap, Maps
  <2>2. Queued' = Queued \cup {m} /\ QueueDistinct'
    BY <1>10, <2>1, PushEffect DEF ScheduleBaseMap
  <2>3. \A w \in Workers : wpc'[w] = wpc[w] \/ (wpc[w] = "sleep" /\ wpc'[w] = "pop")
    BY <1>10, NotifyOneEffect DEF ScheduleBaseMap
  <2> QED  BY <1>10, <2>1, <2>2, <2>3, MapsAssumption DEF ScheduleBaseMap, MapsAssumption
<1>11. ASSUME NEW m \in BaseMaps, UpdateInline(m) PROVE Goal
  BY <1>0, <1>1, <1>11, MapsAssumption
  DEF UpdateInline, Activated, ShutdownInv, Children, MapsAssumption
<1>12. ASSUME NEW w \in Workers, WaitAndPop(w) PROVE Goal
  <2>1. CASE UNCHANGED <<queue, request>>
    BY <1>0, <1>12, <2>1 DEF WaitAndPop
  <2>2. CASE /\ queue # <<>> /\ queue' = Tail(queue)
             /\ request' = [request EXCEPT ![w] = Head(queue)]
             /\ wpc' = [wpc EXCEPT ![w] = "check"]
    <3>1. /\ Head(queue) \in Queued
          /\ Queued' = Queued \ {Head(queue)}
          /\ QueueDistinct'
      BY <2>2, PopEffect
    <3> DEFINE m == Head(queue)
    <3>2. /\ UNCHANGED <<iMaps, instances, Live, mpc, toVisit, visit, updated, skipped>>
          /\ \A v \in Workers : v # w => request'[v] = request[v] /\ wpc'[v] = wpc[v]
          /\ request'[w] = m /\ wpc'[w] = "check" /\ request[w] = NoMap
      BY <1>12, <2>2 DEF WaitAndPop
    <3>3. /\ m \in Queued /\ m \in Live /\ m \in Maps /\ m # NoMap
          /\ Queued' = Queued \ {m} /\ QueueDistinct'
      BY <3>1, <2>2, MapsAssumption DEF MapsAssumption
    <3>4. \A v \in Workers : v # w =>
             (v \in Holders' <=> v \in Holders) /\ request'[v] = request[v]
      BY <3>2
    <3> HIDE DEF m
    <3>5. NoDeadMap'  BY <3>2, <3>3, <3>4
    <3>6. OneRequestPerMap'
      <4>1. \A v \in Holders' : request'[v] \notin Queued'  BY <3>2, <3>3, <3>4
      <4>2. \A u, v \in Holders' : request'[u] = request'[v] => u = v  BY <3>2, <3>3, <3>4
      <4> QED  BY <3>2, <3>3, <4>1, <4>2
    <3>7. PlaceInv'
      <4>1. \A v \in Holders' :
              /\ request'[v] \notin toVisit'
              /\ wpc'[v] = "check" \/ wpc'[v] = "update" => request'[v] \notin updated' \cup skipped'
              /\ wpc'[v] = "visit" \/ wpc'[v] = "finish" => request'[v] \in updated'
        BY <3>2, <3>3, <3>4, SMTT(40)
      <4>2. visit[w] = {}  BY <1>12 DEF WaitAndPop
      <4>3. \A u \in Workers : \A i \in visit'[u] :
              /\ ParentOf[i] = request'[u]
              /\ i \notin Queued' \cup updated' \cup skipped'
              /\ \A v \in Holders' : request'[v] # i
        BY <3>2, <3>3, <3>4, <4>2, SMTT(40)
      <4> QED  BY <3>2, <3>3, <4>1, <4>3
    <3>8. ReachInv'
      <4>1. \A x : x \in Queued \/ (\E v \in Holders : request[v] = x)
                <=> x \in Queued' \/ (\E v \in Holders' : request'[v] = x)
        BY <3>2, <3>3, <3>4
      <4> QED  BY <3>2, <4>1, SMTT(40)
    <3> QED  BY <3>5, <3>6, <3>7, <3>8
  <2>3. \/ UNCHANGED <<queue, request>>
        \/ /\ queue # <<>> /\ queue' = Tail(queue)
           /\ request' = [request EXCEPT ![w] = Head(queue)]
           /\ wpc' = [wpc EXCEPT ![w] = "check"]
    BY <1>12, Zenon DEF WaitAndPop
  <2> QED  BY <2>1, <2>2, <2>3
<1>13. ASSUME NEW w \in Workers, CheckToken(w) \/ EndVisit(w) PROVE Goal
  <2>1. token => Holders = {}  BY DEF WorldHasMaps, ShutdownInv
  <2>2. CASE CheckToken(w)  BY <1>a, <2>1, <2>2 DEF CheckToken
  <2>3. CASE EndVisit(w)  BY <1>a, <2>3 DEF EndVisit
  <2> QED  BY <1>13, <2>2, <2>3
<1>14. ASSUME NEW w \in Workers, UpdateMap(w) PROVE Goal
  <2> DEFINE m == request[w]
  <2>1. /\ w \in Holders /\ m \in Live /\ m \in Maps
        /\ m \notin updated \cup skipped \cup Queued \cup toVisit
        /\ \A v \in Workers : v # w => request[v] # m /\ m \notin visit[v]
        /\ visit[w] = {}
    BY <1>14, MapsAssumption DEF UpdateMap, MapsAssumption
  <2>2. /\ updated' = updated \cup {m}
        /\ \A v \in Workers : v # w => visit'[v] = visit[v] /\ wpc'[v] = wpc[v]
        /\ wpc'[w] = "visit" /\ visit'[w] = {i \in instances : ParentOf[i] = m}
        /\ UNCHANGED <<iMaps, instances, mpc, toVisit, queue, request, skipped, Queued,
                       QueueDistinct, Holders, Live>>
    BY <1>0, <1>14, MapsAssumption DEF UpdateMap, Children, MapsAssumption
  <2>3. Updating  BY <2>1 DEF WorldHasMaps
  <2>4. \A i \in instances : ParentOf[i] = m =>
           /\ i \notin Queued \cup updated \cup skipped
           /\ i # m
           /\ \A v \in Holders : request[v] # i
    BY <2>1, <2>3, MapsAssumption DEF MapsAssumption
  <2> HIDE DEF m
  <2>5. NoDeadMap' /\ OneRequestPerMap'  BY <2>1, <2>2 DEF m
  <2>6. PlaceInv'  BY <2>1, <2>2, <2>4 DEF m
  <2>7. ReachInv'  BY <2>1, <2>2 DEF m
  <2> QED  BY <2>5, <2>6, <2>7
<1>15. ASSUME NEW w \in Workers, NEW i \in Instances, ScheduleInstance(w, i) PROVE Goal
  <2>1. i \notin Queued /\ i \in Maps  BY <1>15 DEF ScheduleInstance, Maps
  <2>2. Queued' = Queued \cup {i} /\ QueueDistinct'
    BY <1>15, <2>1, PushEffect DEF ScheduleInstance
  <2>3. \A v \in Workers : wpc'[v] = wpc[v] \/ (wpc[v] = "sleep" /\ wpc'[v] = "pop")
    BY <1>15, NotifyOneEffect DEF ScheduleInstance
  <2> QED  BY <1>15, <2>1, <2>2, <2>3, MapsAssumption DEF ScheduleInstance, MapsAssumption
<1>16. ASSUME NEW w \in Workers, NEW i \in Instances, DestroyInstance(w, i) PROVE Goal
  BY <1>0, <1>16, MapsAssumption DEF DestroyInstance, MapsAssumption
<1>17. ASSUME NEW w \in Workers, UpdateFinished(w) PROVE Goal
  BY <1>0, <1>17 DEF UpdateFinished, NotifyWorld
<1>18. CASE SpuriousWakeup
  BY <1>0, <1>18 DEF SpuriousWakeup, NotifyWorld, Sleepers
<1> QED
  BY <1>2, <1>3, <1>4, <1>5, <1>6, <1>7, <1>8, <1>9, <1>10, <1>11, <1>12, <1>13,
     <1>14, <1>15, <1>16, <1>17, <1>18
  DEF Next, WorldStep, WorkerStep

-----------------------------------------------------------------------------
(***************************************************************************)
(* The theorems.                                                           *)
(***************************************************************************)
LEMMA InitHolds == Init => IInv
<1> SUFFICES ASSUME Init PROVE IInv
  OBVIOUS
<1> USE MapsAssumption DEF Init, MapsAssumption, Holders
<1>1. TypeOK
  <2>1. wpc \in [Workers -> WorkerPC] /\ visit \in [Workers -> SUBSET Instances]
    BY DEF WorkerPC
  <2>2. request \in [Workers -> Maps \cup {NoMap}]  OBVIOUS
  <2>3. queue \in Seq(Maps) /\ mpc \in WorldPC  BY DEF WorldPC
  <2> QED  BY <2>1, <2>2, <2>3 DEF TypeOK
<1>2. Queued = {} /\ Holders = {}  BY DEF Queued
<1>3. PendingIsExact
  <2>1. Cardinality(Holders) = 0  BY <1>2, FS_EmptySet
  <2>2. Len(queue) = 0 /\ pending = 0  OBVIOUS
  <2> QED  BY <2>1, <2>2 DEF PendingIsExact
<1>4. WorldHasMaps /\ PCInv /\ ShutdownInv
  BY <1>2 DEF WorldHasMaps, PCInv, ShutdownInv, Activated
<1>5. NoDeadMap /\ OneRequestPerMap
  BY <1>2 DEF NoDeadMap, OneRequestPerMap, QueueDistinct
<1>6. PlaceInv /\ ReachInv
  BY <1>2 DEF PlaceInv, ReachInv, Updating
<1> QED  BY <1>1, <1>3, <1>4, <1>5, <1>6 DEF IInv

\* Every step keeps the invariant.
LEMMA StepHolds == IInv /\ [Next]_vars => IInv'
  BY TypeStep, ControlStep, CountStep, PlaceStep DEF IInv

\* IInv is an invariant of the map updater.
THEOREM Invariance == Spec => []IInv
  BY InitHolds, StepHolds, PTL DEF Spec

\* Every variable keeps its type; pending_requests never drops below zero.
THEOREM TypeCorrect == Spec => []TypeOK
<1>1. IInv => TypeOK  BY DEF IInv
<1> QED  BY <1>1, Invariance, PTL

\* The count that wait() tests is exact: it returns when the last request of the
\* tick is done, not before and not a request later.
THEOREM RequestsAreCounted == Spec => []PendingIsExact
<1>1. IInv => PendingIsExact  BY DEF IInv
<1> QED  BY <1>1, Invariance, PTL

\* Whenever the world thread has left the update phase no worker touches a map
\* and no request is left behind.
THEOREM WorldAlone == Spec => []WorldHasMaps
<1>1. IInv => WorldHasMaps  BY DEF IInv
<1> QED  BY <1>1, Invariance, PTL

\* No map is used after it was deleted.
THEOREM MapsAreSafe == Spec => []NoDeadMap
<1>1. IInv => NoDeadMap  BY DEF IInv
<1> QED  BY <1>1, Invariance, PTL

\* No map is updated by two threads at a time, or queued while it is updated.
THEOREM MapsAreNotShared == Spec => []OneRequestPerMap
<1>1. IInv => OneRequestPerMap  BY DEF IInv
<1> QED  BY <1>1, Invariance, PTL

\* At shutdown no worker calls a null request.
THEOREM ShutdownIsSafe == Spec => []NoNullRequest
<1>1. IInv => NoNullRequest  BY DEF IInv, PCInv, NoNullRequest
<1> QED  BY <1>1, Invariance, PTL

\* A worker that leaves drops no request that was counted.
THEOREM NothingIsDropped == Spec => []NothingDropped
<1>1. IInv => NothingDropped  BY DEF IInv, PCInv, NothingDropped
<1> QED  BY <1>1, Invariance, PTL

-----------------------------------------------------------------------------
(***************************************************************************)
(* The refinement of TickBarrier.                                          *)
(***************************************************************************)
LEMMA BarrierStep ==
    ASSUME IInv, IInv', [Next]_vars
    PROVE  [Barrier!Next]_(Barrier!bvars)
<1> USE DEF Barrier!bvars, Updating, mapVars, worldVars, workerVars, tickVars, Live
<1> DEFINE Stutter == UNCHANGED <<iMaps, instances, updated, skipped, Updating>>
           Goal == Barrier!Next \/ UNCHANGED Barrier!bvars
<1>0. TypeOK /\ ReachInv /\ PlaceInv  BY DEF IInv
<1>a. ASSUME UNCHANGED <<iMaps, instances, updated, skipped>>,
             Updating <=> Updating',
             ~Updating => \/ UNCHANGED mpc
                          \/ mpc' \notin {"world", "delayed"} /\ mpc \notin {"world", "delayed"}
      PROVE  Goal
  BY <1>a
\* Some maps are reached during the update phase.
<1>b. ASSUME NEW upd \in SUBSET Maps, NEW gone \in SUBSET Instances, NEW over \in SUBSET Instances,
             Updating, Updating', UNCHANGED iMaps,
             upd \cup gone \cup over \subseteq Live \ (updated \cup skipped),
             upd \cap (gone \cup over) = {},
             instances' = instances \ gone, updated' = updated \cup upd, skipped' = skipped \cup over
      PROVE  Goal
  <2>1. iMaps \cap gone = {}  BY <1>0, MapsAssumption DEF TypeOK, MapsAssumption
  <2>2. gone \in SUBSET Maps /\ over \in SUBSET Maps  BY DEF Maps
  <2>3. Barrier!Progress(upd, gone, over)  BY <1>b, <2>1 DEF Barrier!Progress
  <2> QED  BY <2>2, <2>3 DEF Barrier!Next
<1>1. CASE UNCHANGED vars  BY <1>a, <1>1 DEF vars
<1>2. ASSUME NEW m \in BaseMaps, CreateBaseMap(m) PROVE Goal
  <2>1. m \notin Live /\ m \in Maps
    BY <1>0, <1>2, MapsAssumption DEF CreateBaseMap, TypeOK, MapsAssumption, Maps
  <2>2. Barrier!Create(m)  BY <1>2, <2>1 DEF CreateBaseMap, Barrier!Create
  <2> QED  BY <2>1, <2>2 DEF Barrier!Next
<1>3. ASSUME NEW i \in Instances, CreateInstance(i) PROVE Goal
  <2>1. i \notin Live /\ i \in Maps
    BY <1>0, <1>3, MapsAssumption DEF CreateInstance, TypeOK, MapsAssumption, Maps
  <2>2. Barrier!Create(i)  BY <1>3, <2>1 DEF CreateInstance, Barrier!Create
  <2> QED  BY <2>1, <2>2 DEF Barrier!Next
<1>4. CASE BeginTick
  <2>1. Barrier!Begin  BY <1>4 DEF BeginTick, Barrier!Begin
  <2> QED  BY <2>1 DEF Barrier!Next
<1>5. ASSUME NEW m \in BaseMaps, ScheduleBaseMap(m) PROVE Goal
  BY <1>a, <1>5 DEF ScheduleBaseMap
<1>6. ASSUME NEW m \in BaseMaps, UpdateInline(m) PROVE Goal
  <2>1. PICK unload \in SUBSET Children(m) : \E gone \in SUBSET unload :
           /\ instances' = instances \ gone
           /\ skipped' = skipped \cup (unload \ gone)
           /\ updated' = updated \cup {m} \cup (Children(m) \ unload)
    BY <1>6 DEF UpdateInline
  <2>2. PICK gone \in SUBSET unload :
           /\ instances' = instances \ gone
           /\ skipped' = skipped \cup (unload \ gone)
           /\ updated' = updated \cup {m} \cup (Children(m) \ unload)
    BY <2>1
  <2> DEFINE upd == {m} \cup (Children(m) \ unload)
  <2>3. m \in iMaps /\ m \notin updated /\ m \notin Instances /\ m \in Maps
    BY <1>0, <1>6, MapsAssumption DEF UpdateInline, PlaceInv, MapsAssumption, Maps
  <2>4. /\ Children(m) \subseteq instances /\ instances \subseteq Instances
        /\ Children(m) \cap (updated \cup skipped) = {}
    BY <1>0, <1>6, <2>3 DEF UpdateInline, ReachInv, Children, TypeOK
  <2>5. Updating /\ Updating' /\ UNCHANGED iMaps  BY <1>6 DEF UpdateInline
  <2>6. upd \in SUBSET Maps  BY <2>3, <2>4 DEF Maps
  <2>7. upd \cup gone \cup (unload \ gone) \subseteq Live \ (updated \cup skipped)
    BY <1>0, <2>3, <2>4 DEF TypeOK
  <2>8. upd \cap (gone \cup (unload \ gone)) = {}  BY <2>3, <2>4
  <2>9. gone \in SUBSET Instances /\ unload \ gone \in SUBSET Instances  BY <2>4
  <2>10. updated' = updated \cup upd  BY <2>2
  <2> HIDE DEF upd
  <2> QED  BY <1>b, <2>2, <2>5, <2>6, <2>7, <2>8, <2>9, <2>10
<1>7. CASE EndSchedule \/ Wait
  <2>1. CASE UNCHANGED mpc \/ (Updating /\ Updating') \/ mpc = "finalWait"
    BY <1>a, <1>7, <2>1 DEF EndSchedule, Wait
  <2>2. CASE Updating /\ mpc' = "delayed"
    <3>1. /\ UNCHANGED <<iMaps, instances, updated, skipped, toVisit>>
          /\ toVisit = {} /\ Queued = {} /\ Holders = {}
      <4>1. queue' = <<>> /\ Holders' = {}  BY <2>2 DEF IInv, WorldHasMaps
      <4>2. toVisit' = {}  BY <2>2 DEF IInv, ShutdownInv
      <4> QED  BY <1>7, <4>1, <4>2 DEF EndSchedule, Wait, Queued, Holders
    <3>2. iMaps \subseteq updated  BY <1>0, <2>2, <3>1 DEF ReachInv
    <3>3. \A w \in Workers : visit[w] = {}  BY <3>1 DEF IInv, PCInv, Holders
    <3>4. instances \subseteq updated \cup skipped
      BY <1>0, <2>2, <3>1, <3>2, <3>3 DEF ReachInv, TypeOK
    <3>5. Barrier!Join  BY <2>2, <3>1, <3>2, <3>4 DEF Barrier!Join
    <3> QED  BY <3>5 DEF Barrier!Next
  <2> QED  BY <1>7, <2>1, <2>2 DEF EndSchedule, Wait
<1>8. CASE DelayedUpdate
  <2>1. Barrier!Delayed  BY <1>8 DEF DelayedUpdate, Barrier!Delayed
  <2> QED  BY <2>1 DEF Barrier!Next
<1>9. CASE UnloadAll
  <2>1. Barrier!Stop  BY <1>9 DEF UnloadAll, Barrier!Stop
  <2> QED  BY <2>1 DEF Barrier!Next
<1>10. CASE Deactivate \/ Cancel \/ Join
  BY <1>a, <1>10 DEF Deactivate, Cancel, Join
<1>11. ASSUME NEW w \in Workers, WaitAndPop(w) \/ CheckToken(w) \/ EndVisit(w) PROVE Goal
  BY <1>a, <1>11 DEF WaitAndPop, CheckToken, EndVisit
<1>12. ASSUME NEW w \in Workers, UpdateMap(w) PROVE Goal
  <2>1. w \in Holders  BY <1>12 DEF UpdateMap, IInv, PCInv, Holders
  <2>2. request[w] \in Live /\ request[w] \notin updated \cup skipped
    BY <1>12, <2>1 DEF UpdateMap, IInv, NoDeadMap, PlaceInv
  <2>3. Updating  BY <2>1 DEF IInv, WorldHasMaps
  <2>4. request[w] \in Maps  BY <1>0, <2>2 DEF TypeOK, Maps
  <2> DEFINE upd == {request[w]}  none == {}
  <2>5. /\ upd \in SUBSET Maps /\ none \in SUBSET Instances /\ upd \cap (none \cup none) = {}
        /\ upd \cup none \cup none \subseteq Live \ (updated \cup skipped)
    BY <2>2, <2>4
  <2>6. /\ Updating' /\ UNCHANGED iMaps
        /\ instances' = instances \ none /\ updated' = updated \cup upd /\ skipped' = skipped \cup none
    BY <1>12, <2>3 DEF UpdateMap
  <2> HIDE DEF upd, none
  <2> QED  BY <1>b, <2>3, <2>5, <2>6
<1>13. ASSUME NEW w \in Workers, NEW i \in Instances, ScheduleInstance(w, i) PROVE Goal
  BY <1>a, <1>13 DEF ScheduleInstance
<1>14. ASSUME NEW w \in Workers, NEW i \in Instances, DestroyInstance(w, i) PROVE Goal
  <2>1. w \in Holders  BY <1>14 DEF DestroyInstance, IInv, PCInv, Holders
  <2>2. i \in Live \ (updated \cup skipped)
    BY <1>14 DEF DestroyInstance, IInv, NoDeadMap, PlaceInv
  <2>3. Updating /\ Updating' /\ UNCHANGED <<iMaps, updated>>
    BY <1>14, <2>1 DEF DestroyInstance, IInv, WorldHasMaps
  <2>4. CASE instances' = instances \ {i} /\ UNCHANGED skipped
    <3> DEFINE gone == {i}  none == {}
    <3>1. /\ none \in SUBSET Maps /\ gone \in SUBSET Instances /\ none \in SUBSET Instances
          /\ none \cup gone \cup none \subseteq Live \ (updated \cup skipped)
          /\ none \cap (gone \cup none) = {}
      BY <2>2
    <3>2. instances' = instances \ gone /\ updated' = updated \cup none /\ skipped' = skipped \cup none
      BY <2>3, <2>4
    <3> HIDE DEF gone, none
    <3> QED  BY <1>b, <2>3, <3>1, <3>2
  <2>5. CASE skipped' = skipped \cup {i} /\ UNCHANGED instances
    <3> DEFINE over == {i}  none == {}
    <3>1. /\ none \in SUBSET Maps /\ over \in SUBSET Instances /\ none \in SUBSET Instances
          /\ none \cup none \cup over \subseteq Live \ (updated \cup skipped)
          /\ none \cap (none \cup over) = {}
      BY <2>2
    <3>2. instances' = instances \ none /\ updated' = updated \cup none /\ skipped' = skipped \cup over
      BY <2>3, <2>5
    <3> HIDE DEF over, none
    <3> QED  BY <1>b, <2>3, <3>1, <3>2
  <2> QED  BY <1>14, <2>4, <2>5 DEF DestroyInstance
<1>15. ASSUME NEW w \in Workers, UpdateFinished(w) PROVE Goal
  BY <1>a, <1>15 DEF UpdateFinished, NotifyWorld
<1>16. CASE SpuriousWakeup
  BY <1>a, <1>16 DEF SpuriousWakeup, NotifyWorld
<1> QED
  BY <1>1, <1>2, <1>3, <1>4, <1>5, <1>6, <1>7, <1>8, <1>9, <1>10, <1>11, <1>12, <1>13,
     <1>14, <1>15, <1>16
  DEF Next, WorldStep, WorkerStep

\* Threads, queue and condition variables implement the tick barrier: in every
\* tick each live map is updated, unloaded or passed over exactly once before
\* the world thread goes on.
THEOREM Refinement == Spec => ImplementsBarrier
<1>1. Init => Barrier!Init
  BY DEF Init, Barrier!Init, Updating, Live
<1>2. IInv /\ IInv' /\ [Next]_vars => [Barrier!Next]_(Barrier!bvars)
  BY BarrierStep
<1> QED  BY <1>1, <1>2, Invariance, PTL DEF Spec, ImplementsBarrier, Barrier!Spec
=============================================================================
