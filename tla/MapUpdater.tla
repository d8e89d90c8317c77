------------------------------ MODULE MapUpdater ------------------------------
(***************************************************************************)
(* The multi-threaded map update of the world server:                      *)
(*                                                                         *)
(*   MapUpdater            src/src/server/game/Maps/MapUpdater.cpp         *)
(*   ProducerConsumerQueue src/src/common/Threading/ProducerConsumerQueue.h*)
(*   MapManager::Update, UnloadAll, CreateBaseMap      MapManager.cpp      *)
(*   MapInstanced::Update, DestroyInstance             MapInstanced.cpp    *)
(*                                                                         *)
(* In every tick the world thread pushes one request per base map and      *)
(* waits until no request is pending.  A worker pops a request and runs    *)
(* Map::Update.  The map of an instanced dungeon or battleground is a base *)
(* map too: its update walks over its instances and, from the worker       *)
(* thread, destroys the ones whose unload timer ran out and pushes a       *)
(* request for each of the others.                                         *)
(*                                                                         *)
(* A critical section is one action: _queueLock is only ever taken inside  *)
(* _lock or alone, and no section blocks while it holds a lock except in   *)
(* condition_variable::wait, which releases it.                            *)
(***************************************************************************)
EXTENDS Naturals, Sequences, FiniteSets

CONSTANTS Workers,        \* the threads MapUpdate.Threads may ask for
          BaseMaps,       \* the ids i_maps may hold
          InstancedMaps,  \* the base maps that are MapInstanced
          Instances,      \* the ids m_InstancedMaps may hold
          ParentOf,       \* the MapInstanced an instance belongs to
          NoMap           \* the null MapUpdateRequest*

Maps == BaseMaps \cup Instances

ASSUME MapsAssumption ==
    /\ IsFiniteSet(Workers)
    /\ InstancedMaps \subseteq BaseMaps
    /\ BaseMaps \cap Instances = {}
    /\ NoMap \notin Maps
    /\ ParentOf \in [Instances -> InstancedMaps]

VARIABLES
    workerThreads,  \* _workerThreads: empty when MapUpdate.Threads = 0
    iMaps,       \* i_maps: the base maps that exist
    instances,   \* the instances that exist, over all m_InstancedMaps
    mpc,         \* where the world thread is
    toVisit,     \* base maps the loop of MapManager::Update has not reached
    pending,     \* pending_requests
    token,       \* _cancelationToken
    queue,       \* _queue: the maps whose requests wait
    shutdown,    \* _shutdown
    wpc,         \* where each worker is
    request,     \* the request each worker holds
    visit,       \* instances the loop of MapInstanced::Update has not reached
    updated,     \* history: maps updated in this tick
    skipped      \* history: instances DestroyInstance refused in this tick

mapVars    == <<iMaps, instances>>
worldVars  == <<mpc, toVisit>>
workerVars == <<wpc, request, visit>>
tickVars   == <<updated, skipped>>
vars == <<workerThreads, mapVars, worldVars, pending, token, queue, shutdown, workerVars, tickVars>>

WorldPC  == {"world", "schedule", "wait", "blocked", "delayed", "deactivate",
             "finalWait", "finalBlocked", "cancel", "join", "exit"}
WorkerPC == {"pop", "sleep", "check", "update", "visit", "finish", "done"}

Activated == workerThreads # {}
Live      == iMaps \cup instances
Children(m) == {i \in instances : ParentOf[i] = m}

Init ==
    /\ iMaps = {} /\ instances = {}
    /\ mpc = "world" /\ toVisit = {}
    /\ pending = 0 /\ token = FALSE
    /\ queue = <<>> /\ shutdown = FALSE
    /\ workerThreads \in SUBSET Workers
    /\ wpc = [w \in Workers |-> "pop"]
    /\ request = [w \in Workers |-> NoMap]
    /\ visit = [w \in Workers |-> {}]
    /\ updated = {} /\ skipped = {}

(***************************************************************************)
(* Condition variables.  A thread inside wait() leaves it when notified or *)
(* spuriously; either way it tests its condition again.                    *)
(***************************************************************************)
Sleepers == {w \in Workers : wpc[w] = "sleep"}

\* notify_one of the queue: some sleeper, if there is one.
NotifyOne ==
    IF Sleepers = {} THEN {wpc}
    ELSE {[wpc EXCEPT ![w] = "pop"] : w \in Sleepers}

\* notify_all of MapUpdater::_condition: only the world thread waits on it.
NotifyWorld ==
    mpc' = IF mpc = "blocked" THEN "wait"
           ELSE IF mpc = "finalBlocked" THEN "finalWait" ELSE mpc

(***************************************************************************)
(* The world thread.                                                       *)
(***************************************************************************)
\* Between ticks players enter the world: CreateBaseMap, CreateInstance and
\* CreateBattleground insert a map if it is not there.
CreateBaseMap(m) ==
    /\ mpc = "world"
    /\ m \notin iMaps
    /\ iMaps' = iMaps \cup {m}
    /\ UNCHANGED <<workerThreads, instances, worldVars, pending, token, queue, shutdown, workerVars, tickVars>>

CreateInstance(i) ==
    /\ mpc = "world"
    /\ i \notin instances
    /\ ParentOf[i] \in iMaps
    /\ instances' = instances \cup {i}
    /\ UNCHANGED <<workerThreads, iMaps, worldVars, pending, token, queue, shutdown, workerVars, tickVars>>

\* MapManager::Update, once i_timer has passed.
BeginTick ==
    /\ mpc = "world"
    /\ mpc' = "schedule"
    /\ toVisit' = iMaps
    /\ updated' = {} /\ skipped' = {}
    /\ UNCHANGED <<workerThreads, mapVars, pending, token, queue, shutdown, workerVars>>

\* Mutant: the request is pushed without being counted.
ScheduleUpdateUncounted(m) ==
    /\ UNCHANGED pending
    /\ queue' = Append(queue, m)

\* MapUpdater::schedule_update: one critical section of _lock.
ScheduleUpdate(m) ==
    /\ pending' = pending + 1
    /\ queue' = Append(queue, m)

ScheduleBaseMap(m) ==
    /\ mpc = "schedule"
    /\ Activated
    /\ m \in toVisit
    /\ toVisit' = toVisit \ {m}
    /\ ScheduleUpdate(m)
    /\ wpc' \in NotifyOne
    /\ UNCHANGED <<workerThreads, mapVars, mpc, token, shutdown, request, visit, tickVars>>

\* Without workers the world thread updates the map, and the instances of a
\* MapInstanced, itself: it destroys some (gone) and fails to destroy others.
UpdateInline(m) ==
    /\ mpc = "schedule"
    /\ ~Activated
    /\ m \in toVisit
    /\ toVisit' = toVisit \ {m}
    /\ \E unload \in SUBSET Children(m) : \E gone \in SUBSET unload :
          /\ instances' = instances \ gone
          /\ skipped' = skipped \cup (unload \ gone)
          /\ updated' = updated \cup {m} \cup (Children(m) \ unload)
    /\ UNCHANGED <<workerThreads, iMaps, mpc, pending, token, queue, shutdown, workerVars>>

\* Mutant: MapManager::Update does not wait for the workers.
EndScheduleNoWait ==
    /\ mpc = "schedule"
    /\ toVisit = {}
    /\ mpc' = "delayed"
    /\ UNCHANGED <<workerThreads, mapVars, toVisit, pending, token, queue, shutdown, workerVars, tickVars>>

EndSchedule ==
    /\ mpc = "schedule"
    /\ toVisit = {}
    /\ mpc' = IF Activated THEN "wait" ELSE "delayed"
    /\ UNCHANGED <<workerThreads, mapVars, toVisit, pending, token, queue, shutdown, workerVars, tickVars>>

\* Mutant: the wait ends with one request to go.
WaitOffByOne ==
    /\ \/ /\ mpc = "wait"
          /\ mpc' = IF pending > 1 THEN "blocked" ELSE "delayed"
       \/ /\ mpc = "finalWait"
          /\ mpc' = IF pending > 1 THEN "finalBlocked" ELSE "cancel"
    /\ UNCHANGED <<workerThreads, mapVars, toVisit, pending, token, queue, shutdown, workerVars, tickVars>>

\* MapUpdater::wait, called from MapManager::Update and from deactivate.
Wait ==
    /\ \/ /\ mpc = "wait"
          /\ mpc' = IF pending > 0 THEN "blocked" ELSE "delayed"
       \/ /\ mpc = "finalWait"
          /\ mpc' = IF pending > 0 THEN "finalBlocked" ELSE "cancel"
    /\ UNCHANGED <<workerThreads, mapVars, toVisit, pending, token, queue, shutdown, workerVars, tickVars>>

\* DelayedUpdate of every map and instance: the world thread alone.
DelayedUpdate ==
    /\ mpc = "delayed"
    /\ mpc' = "world"
    /\ UNCHANGED <<workerThreads, mapVars, toVisit, pending, token, queue, shutdown, workerVars, tickVars>>

\* MapManager::UnloadAll deletes every map before it stops the workers.
UnloadAll ==
    /\ mpc = "world"
    /\ iMaps' = {} /\ instances' = {}
    /\ mpc' = IF Activated THEN "deactivate" ELSE "exit"
    /\ UNCHANGED <<workerThreads, toVisit, pending, token, queue, shutdown, workerVars, tickVars>>

\* Mutant: the workers are stopped by Cancel alone.
DeactivateNoToken ==
    /\ mpc = "deactivate"
    /\ mpc' = "finalWait"
    /\ UNCHANGED <<workerThreads, mapVars, toVisit, pending, token, queue, shutdown, workerVars, tickVars>>

\* MapUpdater::deactivate: the token, then wait(), Cancel() and the joins.
Deactivate ==
    /\ mpc = "deactivate"
    /\ token' = TRUE
    /\ mpc' = "finalWait"
    /\ UNCHANGED <<workerThreads, mapVars, toVisit, pending, queue, shutdown, workerVars, tickVars>>

\* Mutant: Cancel without its notify_all.
CancelSilent ==
    /\ mpc = "cancel"
    /\ queue' = <<>>
    /\ shutdown' = TRUE
    /\ mpc' = "join"
    /\ UNCHANGED <<workerThreads, mapVars, toVisit, pending, token, workerVars, tickVars>>

\* ProducerConsumerQueue::Cancel deletes what is queued and wakes everyone.
Cancel ==
    /\ mpc = "cancel"
    /\ queue' = <<>>
    /\ shutdown' = TRUE
    /\ wpc' = [w \in Workers |-> IF wpc[w] = "sleep" THEN "pop" ELSE wpc[w]]
    /\ mpc' = "join"
    /\ UNCHANGED <<workerThreads, mapVars, toVisit, pending, token, request, visit, tickVars>>

Join ==
    /\ mpc = "join"
    /\ \A w \in workerThreads : wpc[w] = "done"
    /\ mpc' = "exit"
    /\ UNCHANGED <<workerThreads, mapVars, toVisit, pending, token, queue, shutdown, workerVars, tickVars>>

(***************************************************************************)
(* A worker: the loop of MapUpdater::WorkerThread.                         *)
(***************************************************************************)
\* Mutant: the front of the queue is read and never popped.
WaitAndPeek(w) ==
    /\ w \in workerThreads
    /\ wpc[w] = "pop"
    /\ \/ /\ queue = <<>> /\ ~shutdown
          /\ wpc' = [wpc EXCEPT ![w] = "sleep"]
          /\ UNCHANGED request
       \/ /\ queue # <<>> \/ shutdown
          /\ wpc' = [wpc EXCEPT ![w] = "check"]
          /\ request' = [request EXCEPT ![w] = IF shutdown THEN @ ELSE Head(queue)]
    /\ UNCHANGED <<workerThreads, mapVars, worldVars, pending, token, queue, shutdown, visit, tickVars>>

\* ProducerConsumerQueue::WaitAndPop.  Only the threads that activate started
\* get here; the others stay where they are for ever.
WaitAndPop(w) ==
    /\ w \in workerThreads
    /\ wpc[w] = "pop"
    /\ \/ /\ queue = <<>> /\ ~shutdown
          /\ wpc' = [wpc EXCEPT ![w] = "sleep"]
          /\ UNCHANGED <<queue, request>>
       \/ /\ shutdown
          /\ wpc' = [wpc EXCEPT ![w] = "check"]
          /\ UNCHANGED <<queue, request>>
       \/ /\ queue # <<>> /\ ~shutdown
          /\ wpc' = [wpc EXCEPT ![w] = "check"]
          /\ request' = [request EXCEPT ![w] = Head(queue)]
          /\ queue' = Tail(queue)
    /\ UNCHANGED <<workerThreads, mapVars, worldVars, pending, token, shutdown, visit, tickVars>>

\* A worker leaves on the token, with whatever request it has popped.
CheckToken(w) ==
    /\ wpc[w] = "check"
    /\ wpc' = [wpc EXCEPT ![w] = IF token THEN "done" ELSE "update"]
    /\ UNCHANGED <<workerThreads, mapVars, worldVars, pending, token, queue, shutdown, request, visit, tickVars>>

\* Map::Update returns; MapInstanced::Update goes on with its instances.
UpdateMap(w) ==
    LET m == request[w] IN
    /\ wpc[w] = "update"
    /\ updated' = updated \cup {m}
    /\ visit' = [visit EXCEPT ![w] = IF m \in InstancedMaps THEN Children(m) ELSE {}]
    /\ wpc' = [wpc EXCEPT ![w] = "visit"]
    /\ UNCHANGED <<workerThreads, mapVars, worldVars, pending, token, queue, shutdown, request, skipped>>

\* CanUnload is false: the instance gets a request of its own.
ScheduleInstance(w, i) ==
    /\ wpc[w] = "visit"
    /\ i \in visit[w]
    /\ visit' = [visit EXCEPT ![w] = @ \ {i}]
    /\ ScheduleUpdate(i)
    /\ wpc' \in NotifyOne
    /\ UNCHANGED <<workerThreads, mapVars, worldVars, token, shutdown, request, tickVars>>

\* CanUnload is true: DestroyInstance deletes the instance, or gives up when
\* RemoveAllPlayers has left players behind.
DestroyInstance(w, i) ==
    /\ wpc[w] = "visit"
    /\ i \in visit[w]
    /\ visit' = [visit EXCEPT ![w] = @ \ {i}]
    /\ \/ instances' = instances \ {i} /\ UNCHANGED skipped
       \/ skipped' = skipped \cup {i} /\ UNCHANGED instances
    /\ UNCHANGED <<workerThreads, iMaps, worldVars, pending, token, queue, shutdown, wpc, request, updated>>

\* Mutant: the loop over the instances ends early.
EndVisitEarly(w) ==
    /\ wpc[w] = "visit"
    /\ wpc' = [wpc EXCEPT ![w] = "finish"]
    /\ visit' = [visit EXCEPT ![w] = {}]
    /\ UNCHANGED <<workerThreads, mapVars, worldVars, pending, token, queue, shutdown, request, tickVars>>

EndVisit(w) ==
    /\ wpc[w] = "visit"
    /\ visit[w] = {}
    /\ wpc' = [wpc EXCEPT ![w] = "finish"]
    /\ UNCHANGED <<workerThreads, mapVars, worldVars, pending, token, queue, shutdown, request, visit, tickVars>>

\* Mutant: the world thread is not notified.
UpdateFinishedSilent(w) ==
    /\ wpc[w] = "finish"
    /\ pending' = pending - 1
    /\ request' = [request EXCEPT ![w] = NoMap]
    /\ wpc' = [wpc EXCEPT ![w] = "pop"]
    /\ UNCHANGED <<workerThreads, mapVars, worldVars, token, queue, shutdown, visit, tickVars>>

\* MapUpdater::update_finished, then the worker deletes its request.
UpdateFinished(w) ==
    /\ wpc[w] = "finish"
    /\ pending' = pending - 1
    /\ NotifyWorld
    /\ request' = [request EXCEPT ![w] = NoMap]
    /\ wpc' = [wpc EXCEPT ![w] = "pop"]
    /\ UNCHANGED <<workerThreads, mapVars, toVisit, token, queue, shutdown, visit, tickVars>>

\* The standard lets wait() return without a notification.
SpuriousWakeup ==
    /\ \/ /\ \E w \in Sleepers : wpc' = [wpc EXCEPT ![w] = "pop"]
          /\ UNCHANGED mpc
       \/ /\ mpc \in {"blocked", "finalBlocked"}
          /\ NotifyWorld
          /\ UNCHANGED wpc
    /\ UNCHANGED <<workerThreads, mapVars, toVisit, pending, token, queue, shutdown, request, visit, tickVars>>

WorkerStep(w) ==
    \/ WaitAndPop(w) \/ CheckToken(w) \/ UpdateMap(w)
    \/ \E i \in Instances : ScheduleInstance(w, i) \/ DestroyInstance(w, i)
    \/ EndVisit(w) \/ UpdateFinished(w)

\* What the world thread does without anybody asking for it.
WorldStep ==
    \/ BeginTick
    \/ \E m \in BaseMaps : ScheduleBaseMap(m) \/ UpdateInline(m)
    \/ EndSchedule \/ Wait \/ DelayedUpdate
    \/ Deactivate \/ Cancel \/ Join

Next ==
    \/ WorldStep
    \/ \E m \in BaseMaps : CreateBaseMap(m)
    \/ \E i \in Instances : CreateInstance(i)
    \/ UnloadAll
    \/ \E w \in Workers : WorkerStep(w)
    \/ SpuriousWakeup

\* Every thread runs whenever it can: WorldUpdateLoop keeps calling Update and
\* the operating system runs each thread.  Creating maps, stopping the server
\* and spurious wakeups may never happen.
Fairness == WF_vars(WorldStep) /\ \A w \in Workers : WF_vars(WorkerStep(w))

Spec == Init /\ [][Next]_vars /\ Fairness

-----------------------------------------------------------------------------
(***************************************************************************)
(* Properties.                                                             *)
(***************************************************************************)
Queued   == {queue[k] : k \in 1..Len(queue)}
Holders  == {w \in Workers : request[w] # NoMap}
Updating == mpc \in {"schedule", "wait", "blocked"}

\* Every variable has its type.
TypeOK ==
    /\ iMaps \subseteq BaseMaps /\ instances \subseteq Instances
    /\ mpc \in WorldPC /\ toVisit \subseteq BaseMaps
    /\ pending \in Nat /\ token \in BOOLEAN
    /\ queue \in Seq(Maps) /\ shutdown \in BOOLEAN
    /\ workerThreads \subseteq Workers
    /\ wpc \in [Workers -> WorkerPC]
    /\ request \in [Workers -> Maps \cup {NoMap}]
    /\ visit \in [Workers -> SUBSET Instances]
    /\ updated \subseteq Maps /\ skipped \subseteq Instances

\* pending_requests, the only thing wait() looks at, counts exactly the
\* requests that are queued or that a worker still holds.
PendingIsExact == pending = Len(queue) + Cardinality(Holders)

\* While the world thread believes it has the maps to itself (sessions,
\* DelayedUpdate, UnloadAll, the joins) no request is queued and no worker is
\* between its pop and its update_finished.
WorldHasMaps == ~Updating => queue = <<>> /\ Holders = {}

\* No thread updates, or will pop from the queue, a map that was deleted:
\* neither UnloadAll nor a worker's DestroyInstance deletes a map in use.
NoDeadMap ==
    /\ Queued \subseteq Live
    /\ \A w \in Holders : request[w] \in Live
    /\ \A w \in Workers : visit[w] \subseteq instances

QueueDistinct == \A j, k \in 1..Len(queue) : queue[j] = queue[k] => j = k

\* Map::Update takes no lock: no two requests for one map may be in flight,
\* and no two workers may walk over the same instance.
OneRequestPerMap ==
    /\ QueueDistinct
    /\ \A w \in Holders : request[w] \notin Queued
    /\ \A v, w \in Holders : request[v] = request[w] => v = w
    /\ \A v, w \in Workers : visit[v] \cap visit[w] # {} => v = w

\* WaitAndPop returns without a request after Cancel: the token, set before
\* it, must keep every worker from calling the null request.
NoNullRequest == \A w \in Workers : wpc[w] \in {"update", "visit", "finish"} => request[w] # NoMap

\* deactivate sets the token before it waits, and a worker that sees the token
\* drops its request without counting it: this must never happen, or wait()
\* would block the shutdown for ever.
NothingDropped == \A w \in Workers : wpc[w] = "done" => request[w] = NoMap

\* A tick that has scheduled its maps reaches DelayedUpdate.
TickCompletes == mpc = "schedule" ~> mpc = "delayed"

\* deactivate returns: every worker leaves its loop and is joined.
ShutdownCompletes == mpc = "deactivate" ~> mpc = "exit"

\* The tick as the rest of the server sees it.
Barrier == INSTANCE TickBarrier WITH
    phase <- IF Updating THEN "update"
             ELSE IF mpc \in {"world", "delayed"} THEN mpc
             ELSE "stopped",
    live <- Live, done <- updated

\* Every tick updates, unloads or passes over every live map exactly once
\* before the world thread goes on.
ImplementsBarrier == Barrier!Spec
=============================================================================
