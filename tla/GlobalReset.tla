----------------------------- MODULE GlobalReset ----------------------------
(***************************************************************************)
(* The global resets of raid and heroic instances (InstanceSaveMgr.cpp):   *)
(* one reset time per pair of map and difficulty, a chain of three         *)
(* warnings and the reset in m_resetTimeQueue, the permanent binds a reset *)
(* expires, and the character database that a restart loads all of it      *)
(* from.  Times are counted in an arbitrary unit.  One permanent bind      *)
(* stands for the binds of a pair.                                         *)
(***************************************************************************)
EXTENDS Integers, Sequences, SequencesExt, ResetQueue

CONSTANTS
  Pairs,      \* map/difficulty pairs that have a reset delay in the DBC
  Period,     \* the reset delay of each pair, in whole days
  Day, Minute,
  Delay,      \* ResetTimeDelay: before the reset, for event types 1 to 4
  Hours,      \* the values Instance.ResetTimeHour takes from start to start
  Forced,     \* the pairs a game master force-resets
  MaxTime,    \* bound of the clock
  MaxWrites   \* bound of the asynchronous database queue

ASSUME GlobalResetAssumption ==
  /\ Minute \in Nat \ {0} /\ Day \in Nat /\ MaxTime \in Nat
  /\ Period \in [Pairs -> {n \in 1..MaxTime : n >= Day /\ n % Day = 0}]
  /\ Delay \in [1..4 -> 1..Day - 1] /\ Delay[4] = Minute
  /\ \A i \in 1..3 : Delay[i + 1] < Delay[i]
  /\ Hours # {} /\ \A h \in Hours : h \in Nat /\ h + Minute < Day
  /\ Forced \subseteq Pairs /\ IsFiniteSet(Pairs)

VARIABLES
  now,        \* time(NULL)
  pc,         \* "boot", "load" (LoadInstances has cleaned up), "run", "update"
  hour,       \* CONFIG_INSTANCE_RESET_TIME_HOUR
  queue,      \* m_resetTimeQueue (the events with instance id 0)
  resetTime,  \* m_resetTimeByMapDifficulty, 0 for a pair that is not in it
  disk,       \* the database: instance_reset, and the bind of each pair
  writes,     \* asynchronous writes not executed yet, as the image each leaves
  lost,       \* history: pairs a forced reset took the event of or left with two,
              \* since boot
  moved       \* history: the hour has been configured anew

history == <<lost, moved>>
vars == <<now, pc, hour, queue, resetTime, disk, writes, history>>

(***************************************************************************)
(* A bind: its BindExtensionState ("none" when there is no row) and, to    *)
(* state properties, the day of the last reset time it was granted for.    *)
(***************************************************************************)
NoBind == [state |-> "none", until |-> 0]
Binds == [state : {"none", "expired", "normal", "extended"}, until : Nat]

\* The database once every queued write is executed.
Latest == IF writes = <<>> THEN disk ELSE Last(writes)
bind == Latest.bind

Store(p, b) == writes' = Append(writes, [Latest EXCEPT !.bind[p] = b])

DayOf(t) == t \div Day
Today == DayOf(now) * Day

GetSubsequentResetTime(p, t) == DayOf(t + Minute) * Day + Period[p] + hour

\* Mutant: every event comes as early as the first warning.
InstResetEventEarly(p, type, t) ==
  [time |-> t - Delay[1], type |-> type, pair |-> p, inst |-> 0]

\* The warning or reset event of p, for the reset at time t.
InstResetEvent(p, type, t) ==
  [time |-> t - Delay[type], type |-> type, pair |-> p, inst |-> 0]

-----------------------------------------------------------------------------
Init ==
  /\ now = Day /\ pc = "boot" /\ hour \in Hours
  /\ queue = <<>> /\ resetTime = [p \in Pairs |-> 0]
  /\ disk = [reset |-> [p \in Pairs |-> 0], bind |-> [p \in Pairs |-> NoBind]]
  /\ writes = <<>>
  /\ lost = {} /\ moved = FALSE

(***************************************************************************)
(* LoadInstances: the DELETE joined with instance_reset takes the instance *)
(* rows whose reset time has passed, the next ones the binds to them.      *)
(***************************************************************************)
LoadInstances ==
  /\ pc = "boot"
  /\ pc' = "load"
  /\ disk' = [disk EXCEPT !.bind = [p \in Pairs |->
                IF disk.reset[p] > 0 /\ disk.reset[p] < now
                THEN NoBind ELSE @[p]]]
  /\ UNCHANGED <<now, hour, queue, resetTime, writes, history>>

\* The reset time a stored one becomes when the configured hour changes.
Realigned(t) == IF t = 0 THEN 0 ELSE DayOf(t) * Day + hour

\* The reset time LoadResetTimes settles on for p.
LoadedTime(p) ==
  LET old == Realigned(disk.reset[p])
      t == IF old = 0 THEN Today + Period[p] + hour ELSE old
      day == DayOf(t) * Day
  IN IF t < now
     THEN day + ((Today - day) \div Period[p] + 1) * Period[p] + hour
     ELSE t

\* The type of the first event: the first warning still to come, else 4.
FirstType(t) ==
  Min({4} \cup {type \in 1..3 : t - Delay[type] > now})

(***************************************************************************)
(* LoadResetTimes: the direct queries that store the reset times are       *)
(* executed before it returns.                                             *)
(***************************************************************************)
LoadResetTimes ==
  LET times == [p \in Pairs |-> LoadedTime(p)] IN
  /\ pc = "load"
  /\ pc' = "run"
  /\ resetTime' = times
  /\ disk' = [disk EXCEPT !.reset = times]
  /\ queue' \in Scheduled({InstResetEvent(p, FirstType(times[p]), times[p]) :
                            p \in Pairs})
  /\ UNCHANGED <<now, hour, writes, history>>

\* Mutant: the binds that have expired are not deleted before the count down.
ExpireUnderflow(b) ==
  CASE b.state = "extended" -> [b EXCEPT !.state = "normal"]
    [] b.state = "normal" -> [b EXCEPT !.state = "expired"]
    [] b.state = "expired" -> [b EXCEPT !.state = "underflow"]
    [] OTHER -> NoBind

\* Mutant: an extended bind stays extended.
ExpireKeepsExtension(b) ==
  CASE b.state = "extended" -> b
    [] b.state = "normal" -> [b EXCEPT !.state = "expired"]
    [] OTHER -> NoBind

(***************************************************************************)
(* What _ResetOrWarnAll does with a bind: the transaction on the binds     *)
(* that are not loaded, _ResetSave on those that are.                      *)
(***************************************************************************)
Expire(b) ==
  CASE b.state = "extended" -> [b EXCEPT !.state = "normal"]
    [] b.state = "normal" -> [b EXCEPT !.state = "expired"]
    [] OTHER -> NoBind

\* Mutant: the new reset time is not stored.
ResetAllUnstored(p, from, b, q) ==
  LET next == GetSubsequentResetTime(p, from)
  IN /\ resetTime' = [resetTime EXCEPT ![p] = next]
     /\ queue' = Schedule(q, InstResetEvent(p, 1, next))
     /\ Store(p, b)

(***************************************************************************)
(* _ResetOrWarnAll with warn = false, on the queue q.  Two asynchronous    *)
(* writes: the transaction on the binds, then the new reset time, with     *)
(* which the bind left is b.                                               *)
(***************************************************************************)
ResetAll(p, from, b, q) ==
  LET next == GetSubsequentResetTime(p, from)
      expired == [Latest EXCEPT !.bind[p] = Expire(@)]
      stored == [expired EXCEPT !.reset[p] = next, !.bind[p] = b]
  IN /\ resetTime' = [resetTime EXCEPT ![p] = next]
     /\ queue' = Schedule(q, InstResetEvent(p, 1, next))
     /\ writes' = writes \o <<expired, stored>>

\* Update takes the time once and works the queue off before it returns.
BeginUpdate ==
  /\ pc = "run" /\ Len(writes) < MaxWrites
  /\ pc' = "update"
  /\ UNCHANGED <<now, hour, queue, resetTime, disk, writes, history>>

Due == queue # <<>> /\ queue[1].time < now

\* Mutant: a warning does not schedule the next event.
WarnOnly ==
  /\ pc = "update" /\ Due /\ queue[1].type # 4
  /\ queue' = Tail(queue)
  /\ UNCHANGED <<now, pc, hour, resetTime, disk, writes, history>>

\* An event of type 1 to 3: the warning, and the next event of the chain.
Warn ==
  LET e == queue[1] IN
  /\ pc = "update" /\ Due /\ e.type # 4
  /\ queue' = RemoveAt(Schedule(queue, InstResetEvent(e.pair, e.type + 1,
                                                   resetTime[e.pair])), 1)
  /\ UNCHANGED <<now, pc, hour, resetTime, disk, writes, history>>

\* An event of type 4: the reset.
Reset ==
  LET e == queue[1] IN
  /\ pc = "update" /\ Due /\ e.type = 4
  /\ ResetAll(e.pair, resetTime[e.pair], Expire(bind[e.pair]), Tail(queue))
  /\ UNCHANGED <<now, pc, hour, disk, history>>

\* Mutant: an update works off one event at most.
EndUpdateOnce ==
  /\ pc = "update"
  /\ pc' = "run"
  /\ UNCHANGED <<now, hour, queue, resetTime, disk, writes, history>>

EndUpdate ==
  /\ pc = "update" /\ ~Due
  /\ pc' = "run"
  /\ UNCHANGED <<now, hour, queue, resetTime, disk, writes, history>>

(***************************************************************************)
(* ForceGlobalReset, from the .debug instance reset command: the reset is  *)
(* counted from now, and so is what is left of an extended bind.           *)
(***************************************************************************)
ForceGlobalReset(p) ==
  LET next == GetSubsequentResetTime(p, now)
      after == Expire(bind[p])
      kept == Cancel(Cancel(queue, 0, 0), 0, 0)
  IN
  /\ pc = "run" /\ p \in Forced /\ Len(writes) < MaxWrites
  /\ ResetAll(p, now,
       IF after.state = "normal" THEN [after EXCEPT !.until = DayOf(next)] ELSE after,
       kept)
  /\ lost' = lost \cup {q \in Pairs :
       (\E i \in DOMAIN kept : kept[i].pair = q) = (q = p)}
  /\ UNCHANGED <<now, pc, hour, disk, moved>>

-----------------------------------------------------------------------------
(***************************************************************************)
(* BindToInstance of a permanent bind: a boss kill in the instance bound   *)
(* to keeps the bind's state, in another one the bind becomes "normal".    *)
(***************************************************************************)
BindToInstance(p) ==
  /\ pc = "run" /\ Len(writes) < MaxWrites
  /\ bind[p].state \in {"none", "expired"}
  /\ Store(p, [state |-> "normal", until |-> DayOf(resetTime[p])])
  /\ UNCHANGED <<now, pc, hour, queue, resetTime, disk, history>>

(***************************************************************************)
(* HandleSetSavedInstanceExtend: the client switches the extension on or   *)
(* off; on makes an expired bind "normal" again.  Without a change of the  *)
(* state nothing happens.                                                  *)
(***************************************************************************)
SetSavedInstanceExtend(p, on) ==
  LET old == bind[p].state
      new == IF on /\ old # "expired" THEN "extended" ELSE "normal"
      days == IF new = "extended" THEN Period[p] ELSE 0
  IN
  /\ pc = "run" /\ Len(writes) < MaxWrites
  /\ old # "none" /\ (on \/ old # "expired") /\ new # old
  /\ Store(p, [state |-> new, until |-> DayOf(resetTime[p] + days)])
  /\ UNCHANGED <<now, pc, hour, queue, resetTime, disk, history>>

\* The database worker executes the oldest write.
ExecuteWrite ==
  /\ writes # <<>>
  /\ disk' = Head(writes) /\ writes' = Tail(writes)
  /\ UNCHANGED <<now, pc, hour, queue, resetTime, history>>

\* A restart: what was not written is lost, the hour may be configured anew.
Restart ==
  /\ pc # "boot"
  /\ pc' = "boot"
  /\ hour' \in Hours
  /\ queue' = <<>> /\ writes' = <<>>
  /\ resetTime' = [p \in Pairs |-> 0]
  /\ lost' = {} /\ moved' = (moved \/ hour' # hour)
  /\ UNCHANGED <<now, disk>>

\* Time passes between two updates, however late the next is, and while down.
Tick ==
  /\ pc \in {"run", "boot"} /\ now < MaxTime
  /\ now' = now + 1
  /\ UNCHANGED <<pc, hour, queue, resetTime, disk, writes, history>>

Next ==
  \/ LoadInstances \/ LoadResetTimes \/ Restart \/ Tick
  \/ BeginUpdate \/ Warn \/ Reset \/ EndUpdate
  \/ ExecuteWrite
  \/ \E p \in Pairs :
       \/ ForceGlobalReset(p) \/ BindToInstance(p)
       \/ \E on \in BOOLEAN : SetSavedInstanceExtend(p, on)

Spec == Init /\ [][Next]_vars

-----------------------------------------------------------------------------
Events == [time : Int, type : 1..4, pair : Pairs, inst : {0}]
Images == [reset : [Pairs -> Nat], bind : [Pairs -> Binds]]

\* Every variable has its type: the stored extendState, too, stays an enumerator.
TypeOK ==
  /\ now \in Nat /\ pc \in {"boot", "load", "run", "update"} /\ hour \in Hours
  /\ queue \in Seq(Events) /\ resetTime \in [Pairs -> Nat]
  /\ disk \in Images /\ writes \in Seq(Images)
  /\ lost \subseteq Pairs /\ moved \in BOOLEAN

Serving == pc \in {"run", "update"}

\* One event of p is queued, and it belongs to the current reset time.
HasOneEvent(p) ==
  \E i \in DOMAIN queue :
    /\ queue[i] = InstResetEvent(p, queue[i].type, resetTime[p])
    /\ \A j \in DOMAIN queue : queue[j].pair = p => j = i

(***************************************************************************)
(* Every pair has exactly one event in the queue, and it is the one that   *)
(* belongs to its current reset time: no chain of warnings is ever lost,   *)
(* doubled, or left running for a reset time that has changed.  Only the   *)
(* forced reset of another pair may take the event of a pair away.         *)
(***************************************************************************)
OnePending == Serving => \A p \in Pairs \ lost : HasOneEvent(p)

(***************************************************************************)
(* ForceGlobalReset's comment, "remove currently scheduled reset times",   *)
(* is about the pair that is reset: every pair keeps its event.            *)
(***************************************************************************)
AlwaysOnePending == Serving => \A p \in Pairs : HasOneEvent(p)

(***************************************************************************)
(* What is executed and what is queued for the database leave there the    *)
(* reset times that the process works with.                                *)
(***************************************************************************)
DatabaseFollows == Serving => Latest.reset = resetTime

(***************************************************************************)
(* No lockout outlives the reset it was granted for, or the one after if   *)
(* it was extended, whatever restarts, losses of writes and downtimes come *)
(* between: the reset that ends it is never put off to a later day.  Only  *)
(* a change of the configured hour may put it off.                         *)
(***************************************************************************)
NoStaleLockout ==
  Serving /\ ~moved => \A p \in Pairs :
    CASE bind[p].state = "normal" -> DayOf(resetTime[p]) <= bind[p].until
      [] bind[p].state = "extended" ->
           DayOf(resetTime[p] + Period[p]) <= bind[p].until
      [] OTHER -> TRUE

(***************************************************************************)
(* A pass of Update that ends leaves no reset due, however late it came,   *)
(* of a pair whose event is still there.                                   *)
(***************************************************************************)
UpToDate ==
  [][(pc = "update" /\ pc' = "run")
       => \A p \in Pairs \ lost : resetTime[p] - Minute >= now]_vars

\* Update resets a pair no earlier than a minute before its reset time.
NeverEarly ==
  [][pc = "update" => \A p \in Pairs \ lost :
       resetTime'[p] # resetTime[p] => resetTime[p] - Minute < now \/ pc' = "boot"]_vars

=============================================================================
