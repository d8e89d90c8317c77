---------------------------- MODULE WorldSessions ----------------------------
(***************************************************************************)
(* The sessions of the world server (World.cpp, WorldSession.cpp and the   *)
(* side of WorldSocket.cpp that they see): who is let in, who waits, which *)
(* thread handles a packet, and when a session and its character end.      *)
(*                                                                         *)
(* Network threads create sessions, push packets and close sockets at any  *)
(* time.  The world thread admits new sessions, then updates each; then    *)
(* the map threads update those with a character.  The updates of a phase  *)
(* touch nothing of each other, so they are taken one after the other.     *)
(* The character database executes in order (one asynchronous connection). *)
(***************************************************************************)
EXTENDS Integers, Sequences, FiniteSets, SequencesExt

CONSTANTS
    Accounts,
    Privileged,        \* accounts with RBAC_PERM_SKIP_QUEUE
    PlayerLimit,       \* m_playerLimit, 0 for none
    Tolerance,         \* whether DisconnectToleranceInterval is set
    Kinds,             \* kinds of packets that clients send
    PacketsPerUpdate,  \* 101 in the code
    MaxSessions,       \* bounds: on sessions,
    MaxInputs          \* and on sessions and packets together

ASSUME SessionsAssumption ==
    /\ Privileged \subseteq Accounts /\ Tolerance \in BOOLEAN
    /\ PlayerLimit \in Nat /\ PacketsPerUpdate \in Nat /\ MaxSessions \in Nat /\ MaxInputs \in Nat

VARIABLES
    session,           \* every WorldSession so far
    addSessQueue,
    m_sessions,        \* the session of an account, or None
    m_QueuedPlayer,
    m_disconnects,     \* accounts that have been disconnected
    phase,             \* what the server is at: new sessions, the world's, the maps'
    left,              \* sessions that are still to be updated in this phase
    updating,          \* the session in Update, firstDelayedPacket and processedPackets
    sent,              \* packets so far
    queries,           \* queue of the character database
    stored,            \* progress of an account's character in the database
    played             \* history: and the furthest that it got in the game

vars == <<session, addSessQueue, m_sessions, m_QueuedPlayer, m_disconnects,
          phase, left, updating, sent, queries, stored, played>>
world == <<m_sessions, m_QueuedPlayer, m_disconnects>>
loop == <<phase, left, updating, sent>>

Ids == 1..MaxSessions
None == 0

\* Only the fields that tell something: place is where the session is known,
\* account data and character are asked from the database, then there.
Unborn == [place |-> "none", account |-> None, open |-> FALSE, forceExit |-> FALSE,
           expired |-> FALSE, inQueue |-> FALSE, data |-> "none", loading |-> FALSE,
           login |-> "none", player |-> FALSE, progress |-> 0, logout |-> "no",
           recentlyLogout |-> FALSE, recvQueue |-> <<>>]
Deleted == [Unborn EXCEPT !.place = "deleted"]

NotUpdating == [id |-> None, first |-> None, processed |-> 0]

\* Clients have not yet sent all that they may.
Inputs == sent + Cardinality({i \in Ids : session[i].place # "none"})

Init ==
    /\ session = [i \in Ids |-> Unborn]
    /\ addSessQueue = <<>>
    /\ m_sessions = [a \in Accounts |-> None]
    /\ m_QueuedPlayer = <<>> /\ m_disconnects = {}
    /\ phase = "add" /\ left = {} /\ updating = NotUpdating /\ sent = 0
    /\ queries = <<>>
    /\ stored = [a \in Accounts |-> 0] /\ played = [a \in Accounts |-> 0]

Listed == {i \in Ids : session[i].place = "listed"}
GetActiveSessionCount == Cardinality(Listed) - Len(m_QueuedPlayer)

-----------------------------------------------------------------------------
\* The network threads.

\* LoadSessionPermissionsCallback: AddSession.
AddSession(i, a) ==
    /\ Inputs < MaxInputs
    /\ \A j \in Ids : session[j].place = "none" <=> j >= i
    /\ session' = [session EXCEPT ![i] = [@ EXCEPT !.place = "adding", !.account = a, !.open = TRUE]]
    /\ addSessQueue' = Append(addSessQueue, i)
    /\ UNCHANGED <<world, loop, queries, stored, played>>

\* ReadDataHandler, QueuePacket.
QueuePacket(i, kind) ==
    /\ session[i].open
    /\ Inputs < MaxInputs /\ sent' = sent + 1
    /\ session' = [session EXCEPT ![i].recvQueue =
           Append(@, [n |-> sent', kind |-> kind, delayed |-> FALSE])]
    /\ UNCHANGED <<addSessQueue, world, phase, left, updating, queries, stored, played>>

\* The client goes away, or says nothing for too long (IsConnectionIdle).
CloseSocket(i) ==
    /\ session[i].open
    /\ session' = [session EXCEPT ![i].open = FALSE]
    /\ UNCHANGED <<addSessQueue, world, loop, queries, stored, played>>

\* expireTime, a minute after the loss of the socket.
Expire(i) ==
    /\ session[i].player /\ ~session[i].open /\ ~session[i].expired
    /\ session' = [session EXCEPT ![i].expired = TRUE]
    /\ UNCHANGED <<addSessQueue, world, loop, queries, stored, played>>

\* ShouldLogOut, 20 seconds after the request.
LogOutDue(i) ==
    /\ session[i].logout = "asked"
    /\ session' = [session EXCEPT ![i].logout = "due"]
    /\ UNCHANGED <<addSessQueue, world, loop, queries, stored, played>>

-----------------------------------------------------------------------------
\* The database's thread.

Query(what, i) == [what |-> what, id |-> i, account |-> session[i].account, progress |-> 0]

ExecuteQuery ==
    /\ queries # <<>>
    /\ queries' = Tail(queries)
    /\ LET q == Head(queries)
           waits == session[q.id].place = "listed"     \* otherwise its futures are gone
       IN
       \/ /\ q.what = "save"
          /\ stored' = [stored EXCEPT ![q.account] = q.progress]
          /\ UNCHANGED session
       \/ /\ q.what = "data"
          /\ session' = IF waits THEN [session EXCEPT ![q.id].data = "there"] ELSE session
          /\ UNCHANGED stored
       \/ /\ q.what = "login"
          /\ session' = IF waits THEN [session EXCEPT ![q.id].login = "there",
                                                      ![q.id].progress = stored[q.account]]
                                 ELSE session
          /\ UNCHANGED stored
    /\ UNCHANGED <<addSessQueue, world, loop, played>>

-----------------------------------------------------------------------------
\* What happens to a session r that is number i; its queries are added to the queue.

KickPlayer(r) == [r EXCEPT !.open = FALSE, !.forceExit = TRUE]

\* Mutant: a session is deleted without its character being logged out.
SavesIfAsked(i, r) ==
    IF r.player /\ r.logout # "no" THEN <<[Query("save", i) EXCEPT !.progress = r.progress]>> ELSE <<>>

\* LogoutPlayer(true), which the destructor calls too: SaveToDB, if there is a character.
Saves(i, r) ==
    IF r.player THEN <<[Query("save", i) EXCEPT !.progress = r.progress]>> ELSE <<>>

LoggedOut(r) ==
    [r EXCEPT !.player = FALSE, !.progress = 0, !.logout = "no", !.recentlyLogout = TRUE]

\* InitializeSession of sessions that have waited.
Initialized(ids) == [j \in Ids |-> IF j \in ids THEN [session[j] EXCEPT !.data = "asked"] ELSE session[j]]
DataQueries(ids) == [k \in DOMAIN ids |-> Query("data", ids[k])]

(***************************************************************************)
(* RemoveQueuedPlayer: takes session i off the queue, if it is there, and  *)
(* lets the first one in if there is room without i.  The limit is over    *)
(* the sessions that do not wait.                                          *)
(***************************************************************************)
RemoveQueuedPlayer(queue, i) ==
    LET found    == Contains(queue, i)
        others   == RemoveFirst(queue, i)
        sessions == Cardinality(Listed) - Len(queue)
        without  == IF ~found /\ sessions > 0 THEN sessions - 1 ELSE sessions
        admits   == (PlayerLimit = 0 \/ without < PlayerLimit) /\ others # <<>>
    IN [found |-> found,
        queue |-> IF admits THEN Tail(others) ELSE others,
        admitted |-> IF admits THEN <<Head(others)>> ELSE <<>>]

-----------------------------------------------------------------------------
\* World::UpdateSessions: new sessions first.

Adding == phase = "add" /\ addSessQueue # <<>>
Added == Head(addSessQueue)

\* AddSession_, with the character of the account being loaded.
RefuseSession ==
    /\ Adding
    /\ LET old == m_sessions[session[Added].account]
       IN  old # None /\ session[old].loading
    /\ session' = [session EXCEPT ![Added] = Deleted]
    /\ addSessQueue' = Tail(addSessQueue)
    /\ UNCHANGED <<world, loop, queries, stored, played>>

\* Mutant: the replaced session stays in the queue.
StaysQueued(old) == [found |-> FALSE, queue |-> m_QueuedPlayer, admitted |-> <<>>]

Unqueued(old) ==
    IF old = None THEN [found |-> FALSE, queue |-> m_QueuedPlayer, admitted |-> <<>>]
                  ELSE RemoveQueuedPlayer(m_QueuedPlayer, old)

\* Mutant: one too many.
WaitsAbove(a, sessions) ==
    /\ PlayerLimit > 0 /\ sessions > PlayerLimit
    /\ a \notin Privileged
    /\ ~(Tolerance /\ a \in m_disconnects)

(***************************************************************************)
(* The new session waits.  HasRecentlyDisconnected subtracts now from the  *)
(* time of the disconnect, so what it remembers never becomes old.         *)
(***************************************************************************)
Waits(a, sessions) ==
    /\ PlayerLimit > 0 /\ sessions >= PlayerLimit
    /\ a \notin Privileged
    /\ ~(Tolerance /\ a \in m_disconnects)

(***************************************************************************)
(* AddSession_: a session of the account is kicked, taken off the queue    *)
(* and deleted, which logs its character out.  The count of sessions then  *)
(* leaves the new one out, but not when the old one was in the queue.      *)
(***************************************************************************)
AddSession_ ==
    LET i   == Added
        a   == session[i].account
        old == m_sessions[a]
        removed == Unqueued(old)
        known == (Listed \ {old}) \cup {i}
        waits == Waits(a, Cardinality(known) - (IF removed.found THEN 0 ELSE 1))
        after == [j \in Ids |-> IF j = old THEN Deleted ELSE Initialized(Range(removed.admitted))[j]]
    IN
    /\ Adding
    /\ old # None => ~session[old].loading
    /\ addSessQueue' = Tail(addSessQueue)
    /\ m_sessions' = [m_sessions EXCEPT ![a] = i]
    /\ session' = [after EXCEPT ![i].place = "listed", ![i].inQueue = waits,
                                ![i].data = IF waits THEN "none" ELSE "there"]
    /\ m_QueuedPlayer' = IF waits THEN Append(removed.queue, i) ELSE removed.queue
    /\ queries' = queries \o DataQueries(removed.admitted)
                          \o (IF old # None THEN Saves(old, session[old]) ELSE <<>>)
    /\ UNCHANGED <<m_disconnects, loop, stored, played>>

-----------------------------------------------------------------------------
\* One phase after the other.

InWorld == {i \in Listed : session[i].player}

NextPhase ==
    /\ left = {}
    /\ \/ phase = "add"   /\ addSessQueue = <<>> /\ phase' = "world" /\ left' = Listed
       \/ phase = "world" /\ phase' = "maps" /\ left' = InWorld
       \/ phase = "maps"  /\ phase' = "add"  /\ left' = {}
    /\ UNCHANGED <<session, addSessQueue, world, updating, sent, queries, stored, played>>

\* The session is in WorldSession::Update, or comes next.
Updates(i) == i \in left /\ updating.id \in {i, None}

(***************************************************************************)
(* WorldSessionFilter and MapSessionFilter: movements are thread-safe, and *)
(* left to the map threads when there is a character; the rest is not.     *)
(***************************************************************************)
Process(r, packet) ==
    IF phase = "maps" THEN packet.kind = "move" /\ r.player
                      ELSE packet.kind # "move" \/ ~r.player

\* Mutant: next looks for a packet that this thread may handle.
NextAny(r) ==
    IF \E k \in DOMAIN r.recvQueue : Process(r, r.recvQueue[k])
    THEN Min({k \in DOMAIN r.recvQueue : Process(r, r.recvQueue[k])}) ELSE 0

\* LockedQueue::next: the place of the first packet, if this thread may handle it.
NextPacket(r) == IF r.recvQueue # <<>> /\ Process(r, Head(r.recvQueue)) THEN 1 ELSE 0

\* The condition of the loop over packets; the socket is kept until the session ends.
MorePackets(r) ==
    /\ updating.processed < PacketsPerUpdate
    /\ r.recvQueue # <<>> /\ Head(r.recvQueue).n # updating.first
    /\ NextPacket(r) # 0

\* A packet for a character that is not there goes back into the queue.
Requeues(r, packet) == packet.kind # "login" /\ ~r.player /\ ~r.recentlyLogout

Requeued(r, packet) == [r EXCEPT !.recvQueue = Append(@, [packet EXCEPT !.delayed = TRUE])]

\* The handlers: what may become of the session, and its queries.
Only(r) == [session |-> r, queries |-> <<>>]

\* HandlePlayerLoginOpcode; the character may not be one of the account's.
HandlePlayerLogin(i, r) ==
    LET loads == [r EXCEPT !.loading = TRUE]
    IN  IF r.inQueue THEN {Only(r)}
        ELSE IF r.loading \/ r.player THEN {Only(KickPlayer(r))}
        ELSE {[session |-> [loads EXCEPT !.login = "asked"], queries |-> <<Query("login", i)>>],
              Only(KickPlayer(loads))}

\* HandleLogoutRequestOpcode: not now, at once, or in 20 seconds.
HandleLogoutRequest(i, r) ==
    {Only([r EXCEPT !.logout = "no"]),
     [session |-> LoggedOut(r), queries |-> Saves(i, r)],
     Only([r EXCEPT !.logout = "asked"])}

Handled(i, r, packet) ==
    CASE packet.kind = "login"                -> HandlePlayerLogin(i, r)
      [] packet.kind = "logout" /\ r.player  -> HandleLogoutRequest(i, r)
      [] packet.kind = "move" /\ r.player    -> {Only([r EXCEPT !.progress = @ + 1])}
      [] OTHER -> {Only(IF Requeues(r, packet) THEN Requeued(r, packet) ELSE r)}

\* One packet of the loop in WorldSession::Update.
HandlePacket(i) ==
    LET k == NextPacket(session[i])
        packet == session[i].recvQueue[k]
        taken == [session[i] EXCEPT !.recvQueue = RemoveAt(@, k)]
    IN
    /\ Updates(i) /\ MorePackets(session[i])
    /\ \E done \in Handled(i, taken, packet) :
         /\ session' = [session EXCEPT ![i] = done.session]
         /\ queries' = queries \o done.queries
         /\ played' = IF done.session.player
                      THEN [played EXCEPT ![taken.account] = Max({@, done.session.progress})]
                      ELSE played
    /\ updating' = [updating EXCEPT !.id = i, !.processed = @ + 1, !.first =
           IF @ = None /\ Requeues(taken, packet) THEN packet.n ELSE @]
    /\ UNCHANGED <<addSessQueue, world, phase, left, sent, stored>>

-----------------------------------------------------------------------------
\* InitializeSessionCallback.
WithData(r) == [r EXCEPT !.inQueue = @ /\ r.data # "there"]

\* ProcessQueryCallbacks; the character may turn out not to load.
CalledBack(r) ==
    IF r.login # "there" THEN {WithData(r)}
    ELSE LET s == [WithData(r) EXCEPT !.login = "none", !.loading = FALSE]
         IN {[s EXCEPT !.player = TRUE], KickPlayer([s EXCEPT !.progress = 0])}

LogsOut(r) == phase = "world" /\ r.logout = "due" /\ ~r.loading

\* Mutant: a session without a character stays unless it was kicked.
EndsKicked(r) == phase = "world" /\ ~r.open /\ (r.expired \/ r.forceExit)

\* The socket is given up, and Update returns false.
Ends(r) == phase = "world" /\ ~r.open /\ (r.expired \/ r.forceExit \/ ~r.player)

Updated(i) ==
    /\ Updates(i) /\ ~MorePackets(session[i])
    /\ left' = left \ {i} /\ updating' = NotUpdating

\* What is left of Update for a session that remains.
EndUpdate(i) ==
    /\ Updated(i)
    /\ \E r \in CalledBack(session[i]) :
         LET s == IF LogsOut(r) THEN LoggedOut(r) ELSE r IN
         /\ ~Ends(s)
         /\ session' = [session EXCEPT ![i] = s]
         /\ queries' = IF LogsOut(r) THEN queries \o Saves(i, r) ELSE queries
    /\ UNCHANGED <<addSessQueue, world, phase, sent, stored, played>>

(***************************************************************************)
(* And for one that UpdateSessions deletes: RemoveQueuedPlayer is called   *)
(* twice, with the session still in m_sessions.                            *)
(***************************************************************************)
DeleteSession(i) ==
    LET removed == RemoveQueuedPlayer(m_QueuedPlayer, i)
        again == RemoveQueuedPlayer(removed.queue, i)
        admitted == removed.admitted \o again.admitted
    IN
    /\ Updated(i)
    /\ \E r \in CalledBack(session[i]) :
         LET s == IF LogsOut(r) THEN LoggedOut(r) ELSE r IN
         /\ Ends(s)
         /\ queries' = queries \o (IF LogsOut(r) THEN Saves(i, r) ELSE <<>>)
                               \o DataQueries(admitted) \o Saves(i, s)
    /\ session' = [Initialized(Range(admitted)) EXCEPT ![i] = Deleted]
    /\ m_QueuedPlayer' = again.queue
    /\ m_sessions' = [m_sessions EXCEPT ![session[i].account] = None]
    /\ m_disconnects' = IF Tolerance /\ ~removed.found THEN m_disconnects \cup {session[i].account}
                                                       ELSE m_disconnects
    /\ UNCHANGED <<addSessQueue, phase, sent, stored, played>>

Network ==
    \E i \in Ids :
      \/ \E a \in Accounts : AddSession(i, a)
      \/ \E kind \in Kinds : QueuePacket(i, kind)
      \/ CloseSocket(i)

Time == \E i \in Ids : Expire(i) \/ LogOutDue(i)

Server ==
    \/ RefuseSession \/ AddSession_ \/ NextPhase
    \/ \E i \in Ids : HandlePacket(i) \/ EndUpdate(i) \/ DeleteSession(i)

Next == Network \/ Time \/ ExecuteQuery \/ Server

\* The server's loop goes on, the database answers, time passes; clients do as they like.
Fairness == WF_vars(Server) /\ WF_vars(ExecuteQuery) /\ WF_vars(Time)

Spec == Init /\ [][Next]_vars /\ Fairness

-----------------------------------------------------------------------------
(***************************************************************************)
(* m_QueuedPlayer points to sessions that are listed and wait, each once,  *)
(* through reconnects, kicks and both calls of RemoveQueuedPlayer; whoever *)
(* has not been let in is there; and nobody waits while there is room.     *)
(***************************************************************************)
QueueIsExact ==
    /\ IsInjective(m_QueuedPlayer)
    /\ Range(m_QueuedPlayer) = {i \in Listed : session[i].data = "none"}
    /\ \A i \in Range(m_QueuedPlayer) : session[i].inQueue /\ m_sessions[session[i].account] = i
    /\ m_QueuedPlayer # <<>> => GetActiveSessionCount >= PlayerLimit

(***************************************************************************)
(* worldserver.conf.dist:280, PlayerLimit: "Maximum number of players in   *)
(* the world. Excluding Mods, GMs and Admins": the sessions let in that    *)
(* neither skip the queue nor come back after a disconnect.                *)
(***************************************************************************)
LimitHolds ==
    PlayerLimit > 0 =>
      Cardinality({i \in Listed \ Range(m_QueuedPlayer) :
                     session[i].account \notin Privileged \cup m_disconnects}) <= PlayerLimit

(***************************************************************************)
(* A character is in the game once, and with all it ever achieved: however *)
(* its last session ended, it is saved before the next one loads it.       *)
(***************************************************************************)
CharacterIsKept ==
    \A i \in InWorld : session[i].progress = played[session[i].account]

\* The packets in the queue that have not been put back.
Undelayed(r) == {p \in Range(r.recvQueue) : ~p.delayed}

(***************************************************************************)
(* The world thread and the map threads share the queue of packets, and    *)
(* put some back: of the others, it is the first sent that leaves it.      *)
(***************************************************************************)
NoOvertaking ==
    [][\A i \in Ids :
         \/ session'[i] = Deleted
         \/ \A p \in Undelayed(session[i]) \ Undelayed(session'[i]), q \in Undelayed(session[i]) :
               p.n <= q.n]_vars

\* Sessions that the world knows of, and that have lost their socket.
Lost == {i \in Ids : session[i].place \in {"adding", "listed"} /\ ~session[i].open}

(***************************************************************************)
(* They are all deleted in the end, those with a character, those in the   *)
(* queue and those whose character is being loaded.                        *)
(***************************************************************************)
SessionsEnd == Lost # {} ~> Lost = {}

=============================================================================
