----------------------------- MODULE ResetQueue -----------------------------
(***************************************************************************)
(* InstanceSaveManager's m_resetTimeQueue, a multimap from a time to an    *)
(* InstResetEvent, as a sequence in the multimap's iteration order: by     *)
(* time, and events of equal time in the order they were inserted.         *)
(***************************************************************************)
EXTENDS Integers, Sequences, SequencesExt

\* ScheduleReset(true, ...): insert after the events that are not later.
Schedule(q, e) ==
  InsertAt(q, 1 + Cardinality({i \in DOMAIN q : q[i].time <= e.time}), e)

\* The queues that hold the events of a finite set, scheduled in any order.
Scheduled(events) ==
  {q \in SetToSeqs(events) :
     \A i, j \in DOMAIN q : i < j => q[i].time <= q[j].time}

(***************************************************************************)
(* ScheduleReset(false, ...): InstResetEvent::operator== looks at nothing  *)
(* but the instance id.  The first equal event at that time goes, else the *)
(* first equal event of the whole queue, else (an error is logged) none.   *)
(***************************************************************************)
Cancel(q, time, inst) ==
  LET equal == {i \in DOMAIN q : q[i].inst = inst}
      there == {i \in equal : q[i].time = time}
  IN IF there # {} THEN RemoveAt(q, Min(there))
     ELSE IF equal # {} THEN RemoveAt(q, Min(equal))
     ELSE q

=============================================================================
