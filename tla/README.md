# A verification development of the world server

This directory holds TLA+ models of parts of the world server in `src/`, the TLC runs that
check them and the proofs TLAPS checks. Modules are translated from the C++ code;
`PROJECT.json` maps each definition to its lines. Paths below are relative to
`src/src/server/game/` unless they start with `src/`.

## 1. Inventory

The repository is a TrinityCore based World of Warcraft 3.3.5 server: two daemons
(`authserver`, `worldserver`), MySQL databases, a large body of game content, player bots and
an auction bot. What carries its own core logic, and what makes each part hard:

| component | state it keeps | operations | interacts with | what is hard; what makes it correct |
|---|---|---|---|---|
| Map update thread pool (`Maps/MapUpdater`, `src/src/common/Threading/ProducerConsumerQueue.h`) | request queue, `pending_requests`, cancellation token, shutdown flag, worker threads | activate, schedule_update, wait, update_finished, WorkerThread, deactivate; Push, WaitAndPop, Cancel | called by MapManager every tick, and by its own workers through MapInstanced | threads, condition variables, shutdown. The counter is exact, the barrier holds, no wakeup is lost |
| Map manager, instanced maps (`Maps/MapManager`, `MapInstanced`) | `i_maps`, `m_InstancedMaps`, instance id allocator | create, update, destroy, unload; generate, free, register ids | thread pool, instance saves, battlegrounds | workers destroy maps and free ids without a lock. No deleted map is used; ids are unique |
| Instance saves and resets (`Instances/InstanceSaveMgr`) | saves by id, reset queue, reset times by map and difficulty | load, schedule, cancel, update, reset one, reset or warn all, force | players, groups, maps, database | chains of timed events, restarts, lost writes, stale events. One chain per pair; no stale lockout; no leaked id |
| Instance maps and binds (`Maps/Map`, `Entities/Player`) | players in a map, unload timer, flags, binds | enter, leave, reset, unload; bind, unbind, login, logout | instance saves, sessions | the order of link, remove, unlink and delete. Binds and saves are dual |
| World loop (`World/World`, `src/src/server/worldserver/Main.cpp`) | timers, sessions, stop event | Update, UpdateSessions, shutdown | everything | order of phases, orderly shutdown |
| World sessions (`Server/WorldSession`, `World/World`) | sessions by account, queue of those that wait, packet queues, characters being loaded, logout timers | add, replace, refuse, let in, queue, filter, handle, requeue, log out, delete | sockets, maps, database | network, world and map threads on one session; reconnects. No dangling session in the queue, the limit holds, no packet overtakes, no character loads before it is saved |
| Sockets (`src/src/server/shared/Networking`, `Server/WorldSocket`) | write queue, closing flags | async read and write, delayed close | sessions, network threads | close racing a write |
| Auth server (`src/src/server/authserver`) | SRP6 state of a connection | challenge, proof, realm list | database | order of commands |
| Database pool (`src/src/server/database`) | async queue, connections, transactions, retry lock | execute, query, commit, retry, reconnect, close | everything | order across workers, deadlocks and their retries, lost connections, queue dropped at shutdown. Operations are applied once and whole, or not at all |
| Groups and loot rolls (`Groups`, `Loot`) | members, roll votes, binds | invite, join, leave, roll | players, instances, LFG | votes against leaves and timeouts |
| Dungeon finder (`DungeonFinding`) | queues, role checks, proposals, boots | join, match, answer, leave, expire | groups, maps | answers racing cancellations |
| Battlegrounds (`Battlegrounds`) | queues, invitations, games | join, match, invite, expire, start, end | maps, players | invitations racing expiry and new queueing |
| Auction house, mail (`AuctionHouse`, `Mails`) | auctions, bids, pending deposits, mails | sell, bid, buy, cancel, expire, pay; send, take, return, delete, expire | players, trades, database | deposits paid later, mails erased but not yet deleted, crashes. Money and items are neither lost nor doubled |
| Trade (`Handlers/TradeHandler`) | two trade windows | initiate, change, accept, cancel | two sessions | accept racing a change |
| Guilds, arena teams, calendar, channels | rosters, bank, ratings | record keeping | database, players | withdrawal limits |
| Pools, game events (`Pools`, `Events`) | spawned members, running events | spawn, despawn, start, stop | maps | limits under nested pools |
| Grids, visibility, movement, threat, combat, spells, AI, scripts | very large | | | mostly data, numeric or content |
| Bots, Warden, remote access, tools, vendored code | | | | content, thin layers or third-party |

## 2. Modules

| module | what it models |
|---|---|
| `TickBarrier` | what a tick promises: in the update phase every live map is updated, unloaded or passed over once, outside it the world thread is alone |
| `MapUpdater` | the thread pool in full detail, with the creation and destruction of maps; implements `TickBarrier` |
| `MapUpdaterProofs` | its invariants and the refinement, proved |
| `InstanceIds` | the instance id allocator on `vector<bool>`, with several threads freeing |
| `InstanceIdsProofs` | its invariants, proved |
| `ResetQueue` | insertion into and removal from `m_resetTimeQueue` (no state of its own) |
| `ResetQueueProofs` | what these operators do to an ordered queue: the lemmas of the next two |
| `GlobalReset` | resets of raids and heroic dungeons: reset times, warnings, permanent binds, extensions, database, restarts |
| `GlobalResetProofs` | its invariants and action properties, proved |
| `DungeonReset` | life of the instances of a normal dungeon: binds, saves, maps, ids, events, logins and restarts |
| `DungeonResetProofs` | its invariants and its action property, proved |
| `WorldSessions` | sessions from their arrival to their deletion, the queue, packets on three kinds of threads, login and logout of characters |
| `WorldSessionsProofs` | its invariants, proved |
| `AtomicStore` | what the database pool promises: operations applied whole or not at all, once, nearly in order |
| `DatabasePool` | the pool with its workers, transactions, deadlocks, retries, reconnects and `Close`; implements `AtomicStore` |
| `DatabasePoolProofs` | its invariants, the refinement and the order of writes, proved |
| `Holdings` | money, inventories and mails of the characters, in memory and in the database, and the transactions that save them |
| `Trade`, `Mail`, `AuctionHouse` | the handlers that move what `Holdings` keeps |
| `Economy` | their composition, with logins, logouts, saves and crashes |
| `EconomyProofs` | its invariants, among them the balance of the books, and its action property, proved |
| `MC*` | the instances TLC checks |

How they compose: `GlobalReset` and `DungeonReset` use `ResetQueue`; `Economy` extends `Trade`,
`Mail` and `AuctionHouse`, which share `Holdings`; `MapUpdater` and `DatabasePool` instantiate
their abstract specifications. The other modules meet at an assumption: `InstanceIds` lets
frees overlap because `MapUpdater` shows that workers destroy maps at the same time, and
generates only while no worker runs because `TickBarrier` says so. `Holdings`, `GlobalReset` and
`WorldSessions` take the database to execute in order, which is proved of `DatabasePool` with one
asynchronous connection (`OneWorkerKeepsOrder`), the default of the distributed configuration.

A definition named `Mutant:` in its comment is a plausible bug of the definition that follows. No
specification uses it; each property below is known to fail under one of them.

**MapUpdater.** `mpc` is where the world thread is (`world` between ticks, `schedule` and `wait`
in `MapManager::Update`, `delayed`, then the steps of `deactivate`); `wpc[w]` is where a
worker is in `WorkerThread`. `workerThreads` is the set that `MapUpdate.Threads` asks for, from none to
all: without any the world thread updates the maps itself. A critical section is one action:
`_queueLock` is taken alone or inside `_lock`, never the other way round, and no section blocks
under a lock but in a condition variable's `wait`. `notify_one` wakes any sleeper; spurious
wakeups are actions. A worker's update of a `MapInstanced` walks its instances step by step,
scheduling or destroying each. The `token` is read after the pop as in the code. History variables
(`updated`, `skipped`) serve the refinement only.

**InstanceIds.** `used` is the set of true bits, with `size` and `capacity` as libstdc++ grows
them. `GenerateInstanceId` and the restart run on the world thread while no worker runs;
`FreeInstanceId` is split at its memory accesses (compare, assignment, read and write of the
word holding the bit). A write beyond `size` leaves no mark: undefined behaviour in C++, and the
outcome modelled is that of the build (the bit is lost when the vector grows over it). `raced` remembers
that two frees have overlapped since the last start. The overflow branch (MapManager.cpp:337)
cannot be taken before 2^32 ids and is not modelled.

**GlobalReset.** One action per handler; `Update` is split into one action per event between
`BeginUpdate` and `EndUpdate`, during which only the database worker and a crash may step, as
on the single world thread. A start schedules the pairs in the order of a hash table, so events of the same time
may come in any order (`Scheduled`). `disk` is the database, `writes` the queued writes as the images they
leave, so that a restart (which drops the queue) leaves any prefix. One bind stands for the binds
of a pair, since a reset treats binds alike. Three ghosts state properties: `until`, the day up to which
a bind was granted; `lost`, the pairs whose event a forced reset took, and the pair it was for when an event of it was left
beside the new one; `moved`, whether the hour was configured anew.

**DungeonReset.** A tick is sessions and maps (actions in any order, `UpdateMaps` last), then
resets. A player is offline, online or in transit between maps: in transit he is
still linked to the old map, which decides several guards of the code. `save`, `map`, `row`,
`respawn`, `used` and `queue` are the save manager's, map manager's and database's views of an
instance id. Database writes take effect at once: the run asks about the order of calls, not of
writes. Restarts are orderly, after all players were logged out, and schedule the events of the ids in the order of the ids, as
the query returns them. Hours are the unit of time.

**WorldSessions.** Network threads add sessions, push packets and close sockets at any time; the world
thread goes through `phase`: new sessions, an update of each session, then the map threads' update of those
with a character. `UpdateSessions` and `Map::Update` are loops: `left` are the sessions they have not
reached, `updating` is the loop over packets inside `WorldSession::Update`. The map threads' updates of one phase
run in parallel in the server and one after the other in the model: each touches only its own session and
appends to the database queue, and the model takes them in every order. A session's `data` and
`login` are the futures of its two queries: asked, there, or thrown away with the session.
`RemoveQueuedPlayer` erases the first place of the session that it finds. `progress` stands for all that a character gains; `played` is a history variable. `InitializeSession`
queries the account data for every session that is let in; of the callback's effects only `SetInQueue(false)` is kept, so
the model asks for those that have waited.
An idle connection ends as any closed socket does. The character list is not asked for: whether the
character belongs to the account is a choice.

**DatabasePool.** A connection is a process: `Workers` pop the queue, `Directs` run what a
caller hands them. An operation is a statement or a transaction over rows (`keys`), which a
transaction locks one by one and writes at COMMIT. InnoDB's side is external: row locks, and a victim chosen
in every cycle of waits. `TransactionTask::Execute` and `DirectCommitTransaction` retry up to
`LoopBreaker` times, a worker under `deadlockLock`. Faults: a statement that fails (`Error`), a
connection lost within a transaction (`Lose`) or after the server has done the work (`LoseReply`). What
`_HandleMySQLErrno` then does, connect again and send the statement once more, is in the code's
favour: the reconnect succeeds. `AtomicStore` says what is left of atomicity: an operation may be torn only if
its own connection was lost, and among queued operations fewer than the number of workers overtake.

**Economy.** Handlers of these opcodes run one at a time on the world thread, so one action is one handler with its
transaction; `disk` (and `houseRows` for auctions) is what a crash at that moment brings back. Mails of text only are
not kept. The trade window keeps pointers to items; `Offered` are those still in the inventory, as
`TradeData::GetItem` looks them up. An auction's deposit is pending until the seller stops
listing. A deleted entry in the pending list is `Dangling`; what the code does through such a pointer is
undefined, and no step is taken through it. Mails arrive at once or later: a step that needs one may
be delayed for ever. Mail ids are free places, taken in any order: the code numbers mails for ever. A sum of money is the
number of its coins (`SumOver`), a cardinality, which the library has theorems about. `taken` is the ledger of the money that left the realm or came into it.

## 3. Runs

| run | instance | shows |
|---|---|---|
| `updater` | 0 to 3 workers, 1 continent, 1 dungeon with 2 instances | the counter is exact, no deleted map is used, no map has two requests, no null request, nothing dropped; `ImplementsBarrier`, `TickCompletes`, `ShutdownCompletes` |
| `ids` | 2 threads, blocks of 2, words of 4, ids to 6 | marks, uniqueness off the blocks; lowest id and reuse as long as frees do not overlap |
| `ids_shared` | 1 thread, ids to 9 | finding 1 |
| `global_reset` | 2 pairs of periods 1 and 2 days, a day of 6 units, hours 1 and 3, forced resets of one pair, time to 26, 2 queued writes | one chain of events per pair, database in step, no stale lockout, catching up, never early |
| `global_reset_force_two` | the same with one hour | finding 2 |
| `dungeon` | 2 players, 2 ids, time to 4, 2 events | duality of binds and saves, no id leaked, progress kept |
| `dungeon_reuse` | 2 players, 2 ids, time to 6, 3 events | finding 3 |
| `economy` | 3 characters with a coin each, 1 item, a trade, a sale, 3 mails at once | item in one place, balanced books, crashes, trades as agreed |
| `economy_pending` | the same, one character with 3 coins | finding 4 |
| `database` | 2 workers, 1 direct connection, 2 rows, 3 different operations, 1 fault, 2 retries | `ImplementsStore`, only refused operations are lost, once and in order, every operation and `Close` end |
| `database_lost` | the same, operations may be alike | finding 5 |
| `session` | 2 accounts, limit 1, 3 sessions, the first of account 1, 5 sessions and packets together | queue, limit, order of packets, save before load, every lost session ends |

**Why the bounds are enough.**
- *updater*: two workers and two instances give every race of the pool: two holders, a holder and a sleeper, an
  instance destroyed while another is queued; the third worker adds a second sleeper.
- *ids*: six ids cross three block boundaries and a word boundary, and two threads overlap in one word or in two. Nine ids
  (`ids_shared`) reach the second growth of the vector.
- *global_reset*: 26 units are more than three days after the first: late updates skip whole periods of either pair. Two queued writes are
  one whole reset; one more could only repeat what losing a prefix of two does.
- *dungeon*: two ids and two players let an id be freed and handed to the other player; four hours see
  two resets of one instance and a restart after each. `MaxEvents` cuts the queue, which the code lets grow with every relog.
- *economy*: the three roles of an auction (seller, bidder, next bidder) and of a trade with a third person are
  filled; prices of one and two are the start price and the buyout, so that a bid can be overbid. Every sequence of trade, sale and mails of
  that one item is taken, and crashes are unbounded. A player's mail carries a coin or asks for one, with or without the item
  (`Parcels`); what carries neither, or the item alone, comes of these. With a coin each nobody can raise his own bid, which needs three:
  `MCEconomyBids.cfg` is that instance (one rich character, no trades, mails with money and price together), kept beside the runs for `MoneyBalances`.
  Symmetry is over characters only; no run of the economy has a liveness property.
- *database*: two transactions that lock two rows in opposite orders deadlock; the third operation overtakes, or is a
  caller's own, so a cycle may join a worker and a caller. `LoopBreaker` is 5 in the code; 2 tells the first
  retry (which takes the lock) from the others and from the end. One fault strikes any operation at any point. The constraint `Once` keeps
  callers from submitting an operation of the same shape again.
- *session*: two accounts and a limit of one make one session wait behind another; a third session replaces either. Five
  inputs are a reconnect or two with the packets login, logout and movement between them. `PacketsPerUpdate`
  is 101 in the code; with 2 the loop's end is met. `Privileged` is empty: an account that skips the
  queue takes the way of one let in. `Tolerance` is on; an account that was not disconnected behaves as without it.
  The constraint `FirstAccount` makes the first session one of account 1: with `Privileged` empty the accounts may be exchanged.

The two constraints (`Once`, `FirstAccount`) refuse steps of callers and clients only, `Enqueue`, `Direct` and `AddSession`, which carry no
fairness: what they leave is every behaviour of callers and clients that keep to them, so a liveness property is checked of whole behaviours.
All safety is proved without them.

The pool of map threads stops after a shutdown and the database pool after `Close`, so their runs do not check
deadlock; all other runs do.

**Findings** (`violation` runs; PROJECT.json quotes the lines):
1. `ids_shared`: an id that is a multiple of 32 loses its mark as the vector grows, and is handed out twice.
2. `global_reset_force_two`: a forced reset cancels the events of other maps.
3. `dungeon_reuse`: an id is freed while its map is loaded; the next new instance is that old map.
4. `economy_pending`: an auction removed before its deposit is paid stays in the pending list as a pointer to a deleted entry.
5. `database_lost`: a connection lost within a transaction is opened again and the rest of the transaction is executed, each
   statement committed by itself: the transaction is applied in part.

Met while modelling, and in the models without a run of their own: entering a dungeon never cancels its scheduled reset, since the
player is already linked (Map.cpp:3357); a change of `Instance.ResetTimeHour` across a restart may let lockouts survive a
reset (the reason for `moved` in `NoStaleLockout`); two workers that free battleground ids at once (MapInstanced.cpp:285, no lock)
can leave a freed id below `_nextInstanceId` or marked for ever (the reason for `raced`); `HasRecentlyDisconnected`
subtracts the wrong way round, so an account that was disconnected once never waits again (the reason why `LimitHolds`
leaves `m_disconnects` out); a mail marked as deleted takes what it carries with it.
Outside the models: a socket that closes while the permissions of its session are being loaded (WorldSocket.cpp:571)
never reaches `AddSession`, and its session is never deleted; the destructor's `online = 0` (WorldSession.cpp:168) may follow the
`online = 1` of the session that replaces it.

**Fairness.** `MapUpdater`: weak fairness of the world thread's own steps (`WorldUpdateLoop` calls `Update` for ever)
and of each worker (the system schedules every thread); creating maps, stopping the server and spurious wakeups are not fair.
`DatabasePool`: weak fairness of each worker and of each connection that executes (MySQL answers), of the choice of a
victim (InnoDB finds deadlocks), and of `Close` once it has begun; operations and faults are not fair.
`WorldSessions`: weak fairness of the server's loop, of the database and of time; clients are not fair.

`NoOvertaking` is about packets that were never put back: those that come before their character is in the world are, by
design, appended again, behind packets that have arrived meanwhile. Of the others, the one that leaves the queue is the first sent.

## 4. Proofs

A theorem holds for every value of the constants that its module's named assumption allows. The assumptions say that names are
apart (no player is `NoItem`, no window `NoTrade`), that bounds, prices and limits are naturals, that a
transaction is a sequence of statements and anything else one statement (`PoolAssumption`), that all initial purses come to the same
(`EconomyAssumption`, so that there is one sum to come back to), and that the sets that are counted are finite. Each proof module
states an inductive invariant `IInv` made of named parts, has one lemma per action, and draws its theorems from `Spec => []IInv`. TLC
found no error in the named parts of these invariants on the instances of the runs before they were proved.

**MapUpdaterProofs**, for any finite set of workers and any maps.
`PendingIsExact` alone is not inductive: that `update_finished` has a request to count needs `PCInv`, who holds what at which program
counter, and that no map is scheduled twice needs `PlaceInv`, by which a map is still to visit, queued, held, being visited or done, and in
one of these only. `ReachInv` (an instance is reached through its parent, and nothing is forgotten) is what a tick's end needs.
Theorems: `TypeCorrect`, `RequestsAreCounted`, `WorldAlone`, `MapsAreSafe`, `MapsAreNotShared`, `ShutdownIsSafe`,
`NothingIsDropped`, and `Refinement`, by mapping each step to a step of the barrier or a stutter.

**InstanceIdsProofs**, for all block and word sizes with `Word % Block = 0` and any set of threads.
Arithmetic lemmas (`DivMod`, `Multiples`, `RoundUpEffect`) carry the growth of the vector. `MarksStay` and
`UniqueOffBlocks` need that a word read by one thread misses no bit of a held id, which holds
because no id is generated while a free is under way. `SerialLowest` and `FreedAreReusable` are about stretches without
overlapping frees (`raced`), for any number of threads: `Serial` then says which id may be marked without being held.

**GlobalResetProofs**, for any finite set of pairs, periods, reset hours and forced pairs. `ResetQueueProofs` has the lemmas on the multimap:
an insertion keeps the order and adds one event, a cancellation takes one out. Theorems:
`TypesAreKept`; `ChainsAreKept` (`OnePending`); `ResetsAreDone` (`UpToDate`) and `ResetsAreDue` (`NeverEarly`), which follow from the order
of the queue and from the one event that a pair has; `DatabaseIsFollowed`; and `LockoutsEnd` (`NoStaleLockout`). A crash may lose
any suffix of the writes, so `LockInv` says of every image in the queue, not only of the last, that its binds last no
longer than they were granted for; what the start does with such an image is the arithmetic of days (`DayOf`,
`Realigned`). `NeverEarly` leaves out the pairs in `lost`, as `UpToDate` does: a forced reset may leave a pair with two events, and the
old one is then executed at its own time, before the time that the pair has now.

**DungeonResetProofs**, for any players and ids. `BindsArePointers` (`BindsAreMutual`) needs only `OfflineInv`. `IdsAreFreed`
(`NoIdLeak`) needs `CoverInv`: whatever an id is still used for, a mark, a save or a stored bind, an event for it is in the queue or
the last start left it out. `ProgressStays` (`ProgressIsKept`) needs `AfterInv`: a map that will delete its
respawn times has lost its row already.

**DatabasePoolProofs**, for any finite set of workers, any callers' connections, rows and operations. `ConnInv` says
where each connection may be (`At`): the rows it has locked in MySQL's transaction are those of the statements before the
current one, and a transaction that goes on without one of MySQL's has lost its connection. `QueueInv` is the order of queue and pops; `CountInv` ties lost connections to
faults. `NothingIsLost` is `OnlyRefusedAreLost`. `Refinement` maps each step to one of `AtomicStore`: a COMMIT or a single statement applies its
operation, an operation torn by a lost connection is one the store gives up, and everything else is a stutter. That a
worker's operation is in turn (`TurnOfConnection`) is a count: all that were submitted before it and are neither applied
nor given up are with the other workers. `WritesAreInOrder` (`OnceAndInOrder`) says what this is worth to who reads the rows later. The
property alone is not inductive: `OrderInv` counts, with the older operations that already follow a write, those that still may (`Late`),
a set that no step of the store enlarges; it is kept by every step of `AtomicStore`, so by the refinement by every step of the pool.
`OneWorkerKeepsOrder` draws the case of one worker: the writes of a row are in the order of the queue (`RowsInOrder`, which with two workers fails).
`OnlyStruckAreTorn` (`WholeUnlessStruck`) bounds finding 5: only operations whose own connection was lost are ever applied in part.

**WorldSessionsProofs**, for any accounts, privileges and limit. `ListInv` ties `m_sessions`, the new sessions and the phase to the
sessions' own places; `QueryInv` says that queries are of sessions that were listed. `QueueStaysExact` rests on `TakenOff`: what
`RemoveQueuedPlayer` leaves of the queue in each of its three outcomes, with the count that made it choose. `LimitIsKept`
compares cardinalities: a session is let in only if the listed ones less those in the queue were fewer than the limit, or in the place of one
that leaves (sessions are numbered up to a bound, so there are finitely many).
`CharactersAreKept` (`CharacterIsKept`) looks ahead over the database's queue: `SavedAs` is what will be stored once the queries are
executed; a character that is not in the game will be stored with all it achieved (`SavedInv`), and no save of an account
follows a login query of it (`LoginInv`), whatever ended the session before.
`PacketsStayInOrder` (`NoOvertaking`) needs `OrderInv`, that the packets of a queue that were not put back are in the order of their numbers, and
`QueueSteps`: a step appends a packet to a queue, takes the first, perhaps to append it again, or deletes the session.

**EconomyProofs**, for any finite sets of characters and items, any prices and any offers in trades.
`Stored` says that memory and database differ in debits of deposits only. `HouseInv`: a bid is below the buyout, so a buyout can pay the
last bidder; a pending auction that is not dangling is in the house and is of its seller. `TradeInv`: the windows of a
trade name each other. `PlaceInv` is `ItemsInOnePlace` without cardinalities: no item is in two bags, mails or in the house besides, and it is in the ledger
of destroyed items exactly if it is nowhere. From it `ItemsStayInOnePlace`, `CrashesLoseNothing` (`CrashLosesNothing`) and
`TradesAreAsAgreed` (`TradeAsAgreed`).
`BooksBalance` (`MoneyBalances`) adds `BooksInv`: an auction has the deposit that its seller was told, and its bidder is not
its owner (`Lots`), and who is offline has saved his money (`Settled`). Without `Lots` what a pending seller owes would not be what the house
holds; without `Settled` a login would change a purse. Sums are cardinalities of sets of coins: lemmas change one number of a sum
(`SumChange`), remove some (`SumRemoved`) or move them to other places (`SumMoved`, what sending a list of letters does to the mails), and
each handler's lemma shows that its changes cancel out (`Balanced`). A crash is no evidence: `taken` enters what it made of money, by
definition; that it makes no more than deposits is `CrashesLoseNothing`.

**Only model-checked**: the liveness properties `TickCompletes`, `ShutdownCompletes`, `EveryOperationEnds`, `CloseCompletes` and
`SessionsEnd` (fairness and ENABLED are out of the prover's reach). The properties of the violation runs are false, so there is nothing to prove: the theorems say where they hold
(`UniqueOffBlocks`, `ChainsAreKept` and `OnlyStruckAreTorn` state the
exceptions that findings 1, 2 and 5 show).

## 5. Plan

Done: the thread pool, the ids, both kinds of resets, sessions, the database pool and the economy, with every safety and action property of the passing runs proved. Next:

1. `InstanceBinds`: group binds and the reset of raids with players inside, with ids that wrap at 16 bits.
2. `BattlegroundQueue` and `LfgQueue`: invitations and proposals racing expiry and leaving; `GroupRoll`.
3. `AuthSession`, `WorldSocket` with delayed close and the loading of permissions.
4. Pools, guild bank limits, the random bot scheduler.

## 6. Not modelled

Each component without a model is listed in PROJECT.json with its reason: most of the repository is content (spells, AI, scripts,
loot), geometry (movement, visibility, collision) or vendored code, where a model would restate data. Inside the modelled components:

- maps: difficulty scaling, game masters and groups, diff times, instance scripts' data; corpses and gameobject respawns
  (they go with the creature respawns). Base maps are created by the world thread only, as all callers do today.
- resets: database failures; raids with players inside.
- sessions: transfers between maps, opcodes other than login, logout and movement, `KickAll`, a change of the limit at run time,
  bots' sessions, Warden and the flood protection; a session before `AddSession`; more than one asynchronous connection.
- database pool: results and prepared statements; an `Open` that fails; COMMIT failing for another reason than a
  lost connection; the abort on a wrong schema. Pings and queries are statements that write no row: the model has them, the run does not submit them.
  That `Close` drops what is queued is in the model; that these are the saves of the players just kicked (Main.cpp:258) is not
  a property of it.
- economy: stacks and several items per mail, spells in the trade window, items that cannot be traded, auctions of
  deleted owners, times of delivery and expiry as numbers; `ReturnOrDeleteOldMails` is one step where the code queues three
  statements.
