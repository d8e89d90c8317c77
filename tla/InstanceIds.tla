----------------------------- MODULE InstanceIds -----------------------------
(***************************************************************************)
(* The allocator of instance ids, MapManager.cpp: InitInstanceIds,         *)
(* RegisterInstanceId, GenerateInstanceId and FreeInstanceId.              *)
(*                                                                         *)
(* _instanceIds is a vector<bool> with one bit per id.  A bit outside the  *)
(* vector's size is not stored: whatever the write hits, the bit is false  *)
(* once the vector has grown over it.  The growth of the capacity is that  *)
(* of libstdc++: whole words, and at least the double of the old size.     *)
(*                                                                         *)
(* The world thread generates ids.  Ids are freed by the world thread      *)
(* (_ResetInstance) and, for battlegrounds, by the map updater's workers   *)
(* while the world thread waits for them; nothing locks the allocator.     *)
(***************************************************************************)
EXTENDS Integers

CONSTANTS Threads,   \* threads that may free an id at the same time
          Block,     \* 32: resize() is asked for multiples of it
          Word,      \* 64: bits per word of vector<bool>
          MaxId,     \* bound: no id above it is handed out (0xFFFFFFFE)
          NoId

ASSUME IdsAssumption ==
    /\ Block \in Nat \ {0} /\ Word \in Nat \ {0} /\ Word % Block = 0
    /\ MaxId \in Nat /\ NoId \notin Int

VARIABLES
    next,      \* _nextInstanceId
    used,      \* the true bits of _instanceIds
    size,      \* _instanceIds.size()
    capacity,  \* _instanceIds.capacity()
    pc,        \* where each thread is in FreeInstanceId
    freeing,   \* the id it frees
    word,      \* the word of _instanceIds it has read, to clear one bit
    held,      \* history: the ids of existing instances
    raced      \* history: two frees have overlapped since the last start

storage == <<used, size, capacity>>
frees   == <<pc, freeing, word>>
vars    == <<next, storage, frees, held, raced>>

Idle == \A t \in Threads : pc[t] = "idle"

RoundUp(n, unit) == (n \div unit) * unit + (IF n % unit > 0 THEN unit ELSE 0)
WordOf(id)       == {i \in used : i \div Word = id \div Word}

Init ==
    /\ next = 1 /\ held = {} /\ raced = FALSE
    /\ used = {} /\ size = 0 /\ capacity = 0
    /\ pc = [t \in Threads |-> "idle"]
    /\ freeing = [t \in Threads |-> NoId]
    /\ word = [t \in Threads |-> {}]

\* A restart: InitInstanceIds sizes the vector for MAX(id) and LoadResetTimes
\* registers the saved instances (db); the other instances are gone.
Restart(db, maxId) ==
    /\ Idle
    /\ \A id \in db : id <= maxId
    /\ held' = db
    /\ next' \in {i \in 1..maxId + 1 : i \notin db /\ 1..i - 1 \subseteq db}
    /\ size' = RoundUp(maxId, Block)
    /\ capacity' = RoundUp(size', Word)
    /\ used' = {id \in db : id < size'}
    /\ raced' = FALSE
    /\ UNCHANGED frees

\* resize(n): the capacity grows to at least twice the old size.
Resize(n) ==
    /\ size' = n
    /\ capacity' = IF n <= capacity THEN capacity
                   ELSE RoundUp(IF n < 2 * size THEN 2 * size ELSE n, Word)

\* Mutant: the loop does not look at the marks.
FollowingUnchecked(id) == {id + 1}

\* The loop over the ids after id: it skips the marked ones and stops at the
\* first that has no mark, or no place in the vector.
Following(id) ==
    LET marked(i) == i < size /\ i \in used
    IN  {i \in id + 1..size + 2 : ~marked(i) /\ \A j \in id + 1..i - 1 : marked(j)}

\* Mutant: the mark is set before the vector grows.
GenerateMarksFirst ==
    LET id == next IN
    /\ Idle
    /\ id <= MaxId
    /\ next' \in Following(id)
    /\ \/ id < size /\ UNCHANGED <<size, capacity>>
       \/ id >= size /\ size < capacity /\ Resize(capacity)
       \/ id >= size /\ size >= capacity /\ Resize(RoundUp(id, Block))
    /\ used' = IF id < size THEN used \cup {id} ELSE used
    /\ held' = held \cup {id}
    /\ UNCHANGED <<frees, raced>>

\* GenerateInstanceId: the result is _nextInstanceId; the vector grows if the
\* result has no place in it.
GenerateInstanceId ==
    LET id == next IN
    /\ Idle
    /\ id <= MaxId
    /\ next' \in Following(id)
    /\ \/ id < size /\ UNCHANGED <<size, capacity>>
       \/ id >= size /\ size < capacity /\ Resize(capacity)
       \/ id >= size /\ size >= capacity /\ Resize(RoundUp(id, Block))
    /\ used' = IF id < size' THEN used \cup {id} ELSE used
    /\ held' = held \cup {id}
    /\ UNCHANGED <<frees, raced>>

\* Mutant: a freed id does not become the next one.
CompareNever(t, id) ==
    /\ pc[t] = "idle"
    /\ id \in held
    /\ held' = held \ {id}
    /\ freeing' = [freeing EXCEPT ![t] = id]
    /\ pc' = [pc EXCEPT ![t] = "readWord"]
    /\ raced' = (raced \/ ~Idle)
    /\ UNCHANGED <<next, storage, word>>

\* Mutant: the id is not passed on.
CompareUnset(t, id) ==
    /\ pc[t] = "idle"
    /\ id \in held
    /\ held' = held \ {id}
    /\ pc' = [pc EXCEPT ![t] = IF id < next THEN "setNext" ELSE "readWord"]
    /\ raced' = (raced \/ ~Idle)
    /\ UNCHANGED <<next, storage, freeing, word>>

(***************************************************************************)
(* FreeInstanceId: compare with _nextInstanceId, set it, and clear a bit,  *)
(* which reads and writes the word that holds it.                          *)
(***************************************************************************)
Compare(t, id) ==
    /\ pc[t] = "idle"
    /\ id \in held
    /\ held' = held \ {id}
    /\ freeing' = [freeing EXCEPT ![t] = id]
    /\ pc' = [pc EXCEPT ![t] = IF id < next THEN "setNext" ELSE "readWord"]
    /\ raced' = (raced \/ ~Idle)
    /\ UNCHANGED <<next, storage, word>>

SetNextInstanceId(t) ==
    /\ pc[t] = "setNext"
    /\ next' = freeing[t]
    /\ pc' = [pc EXCEPT ![t] = "readWord"]
    /\ UNCHANGED <<storage, freeing, word, held, raced>>

ReadWord(t) ==
    /\ pc[t] = "readWord"
    /\ word' = [word EXCEPT ![t] = WordOf(freeing[t])]
    /\ pc' = [pc EXCEPT ![t] = "writeWord"]
    /\ UNCHANGED <<next, storage, freeing, held, raced>>

\* Mutant: the bit is not cleared.
WriteWordKeeps(t) ==
    /\ pc[t] = "writeWord"
    /\ used' = (used \ WordOf(freeing[t])) \cup word[t]
    /\ pc' = [pc EXCEPT ![t] = "idle"]
    /\ freeing' = [freeing EXCEPT ![t] = NoId]
    /\ word' = [word EXCEPT ![t] = {}]
    /\ UNCHANGED <<next, size, capacity, held, raced>>

WriteWord(t) ==
    /\ pc[t] = "writeWord"
    /\ used' = (used \ WordOf(freeing[t])) \cup (word[t] \ {freeing[t]})
    /\ pc' = [pc EXCEPT ![t] = "idle"]
    /\ freeing' = [freeing EXCEPT ![t] = NoId]
    /\ word' = [word EXCEPT ![t] = {}]
    /\ UNCHANGED <<next, size, capacity, held, raced>>

FreeInstanceId(t) ==
    \/ \E id \in held : Compare(t, id)
    \/ SetNextInstanceId(t) \/ ReadWord(t) \/ WriteWord(t)

Next ==
    \/ GenerateInstanceId
    \/ \E db \in SUBSET held : \E maxId \in db \cup {0} : Restart(db, maxId)
    \/ \E t \in Threads : FreeInstanceId(t)

Spec == Init /\ [][Next]_vars

-----------------------------------------------------------------------------
\* Every variable has its type: an id is a natural number wherever it is kept.
TypeOK ==
    /\ next \in Nat /\ size \in Nat /\ capacity \in Nat
    /\ used \subseteq Nat /\ held \subseteq Nat
    /\ pc \in [Threads -> {"idle", "setNext", "readWord", "writeWord"}]
    /\ freeing \in [Threads -> Nat \cup {NoId}]
    /\ word \in [Threads -> SUBSET Nat] /\ raced \in BOOLEAN

\* Only the mark of a multiple of Block can be missing: it is the only id the
\* vector may not have room for after it has grown.
MarksAreKept == \A id \in held : id % Block # 0 => id \in used

\* Nobody is given the id of an existing instance, unless it is such a
\* multiple; this holds however the frees of several threads interleave.
NextIsFreeOffBlocks == next \in held => next % Block = 0

\* What GenerateInstanceId's comment promises: the next id is available.
NextIsFree == Idle => next \notin held

\* What GenerateInstanceId's comment promises, as long as no two frees overlap:
\* the next id is the lowest one.
NextIsLowest == Idle /\ ~raced => \A i \in 1..next - 1 : i \in held

\* As long as no two frees overlap, a freed id loses its mark, so that it can be
\* handed out again.
FreedIsReusable == Idle /\ ~raced => used \subseteq held
=============================================================================
