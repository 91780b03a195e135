--------------------------- MODULE TerminalRuntime ---------------------------
(***************************************************************************)
(* The terminal runtime of the API process: the registry of terminal       *)
(* records, the PTY sessions that run behind them, the WebSockets attached *)
(* to those sessions and the operating-system processes the PTYs started.  *)
(*                                                                         *)
(* The API is one Node.js process, so a handler runs to its end before the *)
(* next one starts: every action below is one whole handler.  What can     *)
(* interleave are the handlers themselves, the timers, and the events that *)
(* arrive later than what caused them (a process that has exited, a socket *)
(* that was closed).                                                       *)
(***************************************************************************)
EXTENDS Naturals, FiniteSets

CONSTANTS
    Ids,              \* terminal ids
    Sockets,          \* WebSocket connections
    Pids,             \* processes; every spawn takes one that was never used
    NoId, NoPid,      \* no terminal, no process
    SentiphId,        \* the terminal id "__sentiph__", or NoId: it is not among Ids
    ClaudeIds,        \* ids of Claude conversations
    NoClaude,         \* no conversation
    SessionLimit,     \* sessionLimit of createSessionRuntime
    MaxChildren,      \* MAX_CHILDREN_PER_PARENT
    Requests,         \* the kinds of terminal POST /api/terminals asks for
    RemovalMayFail,   \* can `git worktree remove` fail?
    SpawnMayFail,     \* can the spawn of a PTY fail?
    LogMayFail        \* can opening the PTY debug log fail?

\* tentacle: the id that is asked for, "own" when none is and the terminal's is taken.
Request ==
    [prompt : BOOLEAN, tentacle : {"own", "sentiph", "other"}, worktree : BOOLEAN]

ASSUME RuntimeAssumption ==
    /\ NoId \notin Ids
    /\ NoPid \notin Pids
    /\ SentiphId \in Ids \cup {NoId}
    /\ NoClaude \notin ClaudeIds
    /\ IsFiniteSet(Ids)
    /\ SessionLimit \in Nat \ {0}
    /\ MaxChildren \in Nat
    /\ Requests \subseteq Request
    /\ RemovalMayFail \in BOOLEAN
    /\ SpawnMayFail \in BOOLEAN
    /\ LogMayFail \in BOOLEAN

VARIABLES
    terminals,   \* terminals[t]: the record of t, or NoTerminal
    sessions,    \* sessions[t]: the session of t in the sessions map, or NoSession
    sockets,     \* sockets[c]: the session (named by its process) that the
                 \*   handlers of an open socket captured, or NoPid
    procs,       \* procs[p]: what has become of process p, and whose it was
    worktrees,   \* the ids that have a worktree directory
    saved        \* the records last handed to schedulePersist

vars == <<terminals, sessions, sockets, procs, worktrees, saved>>

-----------------------------------------------------------------------------
LifecycleStates == {"none", "registered", "running", "stopped", "exited", "stale"}

Record ==
    [state : LifecycleStates, pid : Pids \cup {NoPid}, parent : Ids \cup {NoId},
     prompt : BOOLEAN, sentiph : BOOLEAN, worktree : BOOLEAN,
     claude : ClaudeIds \cup {NoClaude}]

\* "none" marks an id that is not a key of the terminals map.
NoTerminal ==
    [state |-> "none", pid |-> NoPid, parent |-> NoId,
     prompt |-> FALSE, sentiph |-> FALSE, worktree |-> FALSE, claude |-> NoClaude]

Session ==
    [pid : Pids \cup {NoPid}, keepAlive : BOOLEAN,
     clients : SUBSET Sockets, idleTimer : BOOLEAN]

NoSession == [pid |-> NoPid, keepAlive |-> FALSE, clients |-> {}, idleTimer |-> FALSE]

Process == [status : {"unused", "alive", "signalled", "dead"}, owner : Ids \cup {NoId}]

TypeOK ==
    /\ terminals \in [Ids -> Record]
    /\ sessions \in [Ids -> Session]
    /\ sockets \in [Sockets -> Pids \cup {NoPid}]
    /\ procs \in [Pids -> Process]
    /\ worktrees \subseteq Ids
    /\ saved \in [Ids -> Record]

Init ==
    /\ terminals = [t \in Ids |-> NoTerminal]
    /\ sessions = [t \in Ids |-> NoSession]
    /\ sockets = [c \in Sockets |-> NoPid]
    /\ procs = [p \in Pids |-> [status |-> "unused", owner |-> NoId]]
    /\ worktrees = {}
    /\ saved = terminals

-----------------------------------------------------------------------------
Known(t) == terminals[t].state # "none"
Live(t) == sessions[t].pid # NoPid

KnownIds == {t \in Ids : Known(t)}
LiveIds == {t \in Ids : Live(t)}

HasCapacity == Cardinality(LiveIds) < SessionLimit

\* Mutant: the PTY of a process that has exited is used again.
UnusedOrDead(p) == procs[p].status \in {"unused", "dead"}

Unused(p) == procs[p].status = "unused"

\* isProcessAlive: signal 0 reaches a process that has not exited yet.
Alive(p) == p # NoPid /\ procs[p].status \in {"alive", "signalled"}

\* markTerminalRunning on the record r.
Running(r, p) == [r EXCEPT !.state = "running", !.pid = p]

\* Mutants: the reason is stored as the state; an exit is not recorded.
EndedWithReason(r, how) ==
    IF r.state = "none" THEN r ELSE [r EXCEPT !.state = "session_close", !.pid = NoPid]
EndedUnlessExit(r, how) ==
    IF r.state = "none" \/ how = "exited" THEN r
    ELSE [r EXCEPT !.state = how, !.pid = NoPid]

\* markTerminalEnded on the record r; a record that is gone stays gone.
Ended(r, how) ==
    IF r.state = "none" THEN r ELSE [r EXCEPT !.state = how, !.pid = NoPid]

\* A session stays up without clients when its terminal has an initial prompt,
\* or when the tentacle id it was resolved to is Sentiph's; a worktree terminal
\* is resolved to its worktree id, that is its terminal id, instead.
KeepsAlive(t, r) == r.prompt \/ IF r.worktree THEN t = SentiphId ELSE r.sentiph

NewSession(t, r, p, C) ==
    [pid |-> p, keepAlive |-> KeepsAlive(t, r), clients |-> C, idleTimer |-> FALSE]

\* planClaudeBootstrap, as for the id that a start of r leaves in the record: an
\* id that is there is resumed, or replaced when its conversation is gone; a
\* terminal that ran before continues without one; a new one is given an id.
\* Sentiph and the terminals of other agents have none.
PlannedIds(r) ==
    IF r.sentiph THEN {r.claude}
    ELSE IF r.claude # NoClaude THEN ClaudeIds
    ELSE IF r.state \in {"stopped", "exited", "stale"} THEN {NoClaude}
    ELSE ClaudeIds \cup {NoClaude}

WithId(r, id) == [r EXCEPT !.claude = id]

\* The session s after the socket c has joined it, and after c has closed: the
\* last client to leave arms the idle timer (scheduleIdleCloseIfNeeded).
JoinLate(s, c) == [s EXCEPT !.clients = @ \cup {c}]
Join(s, c) == [s EXCEPT !.clients = @ \cup {c}, !.idleTimer = FALSE]

\* Mutants of Leave: the client stays listed; the timer is not armed.
LeaveListed(s, c) == [s EXCEPT !.idleTimer = IF s.keepAlive THEN @ ELSE TRUE]
LeaveUntimed(s, c) == [s EXCEPT !.clients = @ \ {c}]
Leave(s, c) ==
    LET rest == s.clients \ {c}
    IN [s EXCEPT !.clients = rest,
                 !.idleTimer = IF s.keepAlive \/ rest # {} THEN @ ELSE TRUE]

Spawned(t) == [status |-> "alive", owner |-> t]

\* Mutant: the PTY is never killed.
NotSignalled(P) == procs

\* The processes P are signalled; one that is gone already takes no harm.
Signalled(P) ==
    [p \in Pids |-> IF p \in P /\ Alive(p) THEN [procs[p] EXCEPT !.status = "signalled"]
                                           ELSE procs[p]]

SessionPids(S) == {sessions[t].pid : t \in S} \ {NoPid}

ChildrenOf(S) == {t \in KnownIds : terminals[t].parent \in S}

\* May a child of par be created?
HasRoomFor(par) == Cardinality(ChildrenOf({par})) < MaxChildren

\* Mutant: only a running Sentiph is found.
SentiphExistsLive == \E u \in LiveIds : terminals[u].sentiph

SentiphExists == \E u \in KnownIds : terminals[u].sentiph

\* Mutant: the worktrees of the next members go too.
WorktreesEarly(D) == worktrees \ {x \in D \cup ChildrenOf(D) : terminals[x].worktree}

\* The worktree directories that are left when those of D have been removed.
WorktreesWithout(D) == worktrees \ {x \in D : terminals[x].worktree}

\* Mutant: grandchildren are missed.
CascadeShallow(t) == {t} \cup ChildrenOf({t})

\* collectTerminalCascade: t and everything reached from it over parentTerminalId,
\* that is, the least set that holds t and the children of its members.
Cascade(t) ==
    {x \in KnownIds : \A S \in SUBSET KnownIds : (t \in S /\ ChildrenOf(S) \subseteq S) => x \in S}

-----------------------------------------------------------------------------
(* What the handlers have in common. *)

\* ensureSession starts a session for t, with the clients C: the record gets the
\* planned id and is marked running before the session enters the map.
StartWith(t, r, C) ==
    /\ HasCapacity
    /\ \E p \in Pids, id \in PlannedIds(r) :
        /\ Unused(p)
        /\ terminals' = [terminals EXCEPT ![t] = Running(WithId(r, id), p)]
        /\ sessions' = [sessions EXCEPT ![t] = NewSession(t, r, p, C)]
        /\ sockets' = [c \in Sockets |-> IF c \in C THEN p ELSE sockets[c]]
        /\ procs' = [procs EXCEPT ![p] = Spawned(t)]
    /\ saved' = terminals'

\* ensureSession fails when the planned id is in the record already, which
\* nobody persists: the spawn throws, or, with PTY logging on, createDebugLog
\* does, when the process runs and nothing refers to it yet.
FailedStart(t, r) ==
    /\ HasCapacity
    /\ \E id \in PlannedIds(r) : terminals' = [terminals EXCEPT ![t] = WithId(r, id)]
    /\ \/ SpawnMayFail /\ UNCHANGED procs
       \/ LogMayFail /\ \E p \in Pids : Unused(p) /\ procs' = [procs EXCEPT ![p] = Spawned(t)]
    /\ UNCHANGED <<sessions, sockets>>

\* Mutant: the end is not persisted.
TeardownUnsaved(t, how) ==
    /\ terminals' = [terminals EXCEPT ![t] = Ended(terminals[t], how)]
    /\ sessions' = [sessions EXCEPT ![t] = NoSession]
    /\ UNCHANGED <<sockets, worktrees, saved>>

\* teardownSession for the session of t.  Its clients are asked to close; their
\* close events come later and find a closed session.
Teardown(t, how) ==
    /\ terminals' = [terminals EXCEPT ![t] = Ended(terminals[t], how)]
    /\ sessions' = [sessions EXCEPT ![t] = NoSession]
    /\ saved' = IF Known(t) THEN terminals' ELSE saved
    /\ UNCHANGED <<sockets, worktrees>>

-----------------------------------------------------------------------------
(* Requests. *)

\* The record of a terminal that is created.  Its tentacle id is Sentiph's when
\* the request says so, or when the request has none and the terminal id is.
Fresh(t, k, par) ==
    [state |-> "registered", pid |-> NoPid, parent |-> par, prompt |-> k.prompt,
     sentiph |-> k.tentacle = "sentiph" \/ (k.tentacle = "own" /\ t = SentiphId),
     worktree |-> k.worktree, claude |-> NoClaude]

\* POST /api/terminals for a new record; Sentiph is looked for only when its
\* tentacle id is asked for.  Starting the session that a prompt or Sentiph
\* needs may fail; the terminal is created all the same.
Create(t, k, par) ==
    /\ ~Known(t)
    /\ k.tentacle = "sentiph" => ~SentiphExists
    /\ par # NoId => HasRoomFor(par)
    /\ k.prompt => HasCapacity
    /\ k.worktree => t \notin worktrees
    /\ worktrees' = IF k.worktree THEN worktrees \cup {t} ELSE worktrees
    /\ LET fresh == Fresh(t, k, par)
       IN \/ /\ terminals' = [terminals EXCEPT ![t] = fresh]
             /\ saved' = terminals'
             /\ UNCHANGED <<sessions, sockets, procs>>
          \/ /\ k.prompt \/ fresh.sentiph
             /\ StartWith(t, fresh, {})
          \/ /\ k.prompt \/ fresh.sentiph
             /\ FailedStart(t, fresh)
             /\ saved' = [terminals EXCEPT ![t] = fresh]

\* POST /api/terminals for Sentiph when its record exists: only its session is
\* started, or kept from closing if it runs.  Of two Sentiphs the older one is
\* found: the one that has not got Sentiph's terminal id.
ReopenSentiph(t) ==
    /\ Known(t) /\ terminals[t].sentiph
    /\ t = SentiphId => ~\E u \in KnownIds \ {t} : terminals[u].sentiph
    /\ \/ /\ Live(t)
          /\ sessions' = [sessions EXCEPT ![t].idleTimer = FALSE]
          /\ UNCHANGED <<terminals, sockets, procs, saved>>
       \/ /\ ~Live(t)
          /\ StartWith(t, terminals[t], {})
    /\ UNCHANGED worktrees

\* A WebSocket for t: it joins the running session or starts one.
Attach(c, t) ==
    /\ Known(t)
    /\ sockets[c] = NoPid
    /\ \/ /\ Live(t)
          /\ sessions' = [sessions EXCEPT ![t] = Join(@, c)]
          /\ sockets' = [sockets EXCEPT ![c] = sessions[t].pid]
          /\ UNCHANGED <<terminals, procs, saved>>
       \/ /\ ~Live(t)
          /\ StartWith(t, terminals[t], {c})
    /\ UNCHANGED worktrees

\* A WebSocket, or a request to open Sentiph, whose session cannot be started.
StartFails(t) ==
    /\ Known(t) /\ ~Live(t)
    /\ FailedStart(t, terminals[t])
    /\ UNCHANGED <<worktrees, saved>>

\* The close event of a socket.  The handler works on the session it captured,
\* which may have been torn down, and replaced, since.
Detach(c) ==
    /\ sockets[c] # NoPid
    /\ sockets' = [sockets EXCEPT ![c] = NoPid]
    /\ sessions' = [t \in Ids |->
          IF Live(t) /\ sessions[t].pid = sockets[c] THEN Leave(sessions[t], c)
                                                     ELSE sessions[t]]
    /\ UNCHANGED <<terminals, procs, worktrees, saved>>

\* POST .../stop: the session, or the process recorded for a stale terminal.
Stop(t) ==
    /\ Known(t)
    /\ Teardown(t, "stopped")
    /\ procs' = Signalled(IF Live(t) THEN {sessions[t].pid} ELSE {terminals[t].pid})

\* POST .../kill: the same with SIGKILL, which a process cannot outlive.
Kill(t) ==
    /\ Known(t)
    /\ Teardown(t, "stopped")
    /\ LET p == IF Live(t) THEN sessions[t].pid ELSE terminals[t].pid
       IN procs' = [q \in Pids |-> IF q = p /\ Alive(q) THEN [procs[q] EXCEPT !.status = "dead"]
                                                        ELSE procs[q]]

\* POST /api/terminals/prune.
Prunable(t) == terminals[t].state \in {"stale", "exited", "stopped"} /\ ~Live(t)

\* Mutant: the registry is not persisted.
PruneUnsaved ==
    /\ \E t \in Ids : Prunable(t)
    /\ terminals' = [t \in Ids |-> IF Prunable(t) THEN NoTerminal ELSE terminals[t]]
    /\ UNCHANGED <<sessions, sockets, procs, worktrees, saved>>

Prune ==
    /\ \E t \in Ids : Prunable(t)
    /\ terminals' = [t \in Ids |-> IF Prunable(t) THEN NoTerminal ELSE terminals[t]]
    /\ saved' = terminals'
    /\ UNCHANGED <<sessions, sockets, procs, worktrees>>

\* DELETE /api/terminals/:id: each member of the cascade loses its session, its
\* worktree and its record.
Delete(t) ==
    /\ Known(t)
    /\ LET D == Cascade(t)
       IN /\ terminals' = [x \in Ids |-> IF x \in D THEN NoTerminal ELSE terminals[x]]
          /\ sessions' = [x \in Ids |-> IF x \in D THEN NoSession ELSE sessions[x]]
          /\ procs' = Signalled(SessionPids(D))
          /\ worktrees' = WorktreesWithout(D)
    /\ saved' = terminals'
    /\ UNCHANGED sockets

\* What the queue of collectTerminalCascade reaches from t in n generations.
Reached(t) ==
    LET reached[n \in Nat] == IF n = 0 THEN {t}
                              ELSE reached[n - 1] \cup ChildrenOf(reached[n - 1])
    IN reached

\* The cascade visits generation after generation: S is what it has visited at some time.
Visited(S, t) ==
    \/ S = {}
    \/ \E n \in 0..Cardinality(Ids) :
         Reached(t)[n] \subseteq S /\ S \subseteq Reached(t)[n + 1]

\* What schedulePersist holds when a cascade stops after the members D: the
\* records as they were when the last session of D ended.
SavedMidway(D, t) ==
    IF ~\E x \in D : Live(x) THEN saved' = saved
    ELSE \E m \in {x \in D : Live(x)}, B \in SUBSET D :
            /\ m \notin B /\ {x \in D : Live(x)} \subseteq B \cup {m}
            /\ Visited(B, t) /\ Visited(B \cup {m}, t)
            /\ saved' = [x \in Ids |-> IF x \in B THEN NoTerminal
                                       ELSE IF x = m THEN Ended(terminals[m], "stopped")
                                       ELSE terminals[x]]

\* The same request when the worktree of f cannot be removed: the members before
\* f are gone, f has lost its session only, and the final persist is not reached.
DeleteFails(t, f) ==
    /\ RemovalMayFail
    /\ Known(t) /\ f \in Cascade(t) /\ terminals[f].worktree
    /\ \E D \in SUBSET (Cascade(t) \ {f}) :
        /\ Visited(D, t) /\ Visited(D \cup {f}, t)
        /\ terminals' = [x \in Ids |-> IF x \in D THEN NoTerminal
                                       ELSE IF x = f /\ Live(f) THEN Ended(terminals[f], "stopped")
                                       ELSE terminals[x]]
        /\ sessions' = [x \in Ids |-> IF x \in D \cup {f} THEN NoSession ELSE sessions[x]]
        /\ procs' = Signalled(SessionPids(D \cup {f}))
        /\ worktrees' = WorktreesWithout(D)
        /\ IF Live(f) THEN saved' = terminals' ELSE SavedMidway(D, t)
    /\ UNCHANGED sockets

-----------------------------------------------------------------------------
(* Timers and the operating system. *)

\* The idle-grace timer fires.
IdleExpire(t) ==
    /\ Live(t) /\ sessions[t].idleTimer
    /\ Teardown(t, "stopped")
    /\ procs' = Signalled({sessions[t].pid})

\* A process exits, of itself or because it was signalled.
ProcessExits(p) ==
    /\ Alive(p)
    /\ procs' = [procs EXCEPT ![p].status = "dead"]
    /\ UNCHANGED <<terminals, sessions, sockets, worktrees, saved>>

\* Mutant: the exit is handled for attended sessions only.
PtyExitAttended(t) ==
    /\ Live(t) /\ procs[sessions[t].pid].status = "dead"
    /\ sessions[t].clients # {}
    /\ Teardown(t, "exited")
    /\ UNCHANGED procs

\* The exit event of a PTY reaches the session that still listens for it.
PtyExit(t) ==
    /\ Live(t) /\ procs[sessions[t].pid].status = "dead"
    /\ Teardown(t, "exited")
    /\ UNCHANGED procs

-----------------------------------------------------------------------------
Next ==
    \/ \E t \in Ids, k \in Requests, par \in Ids \cup {NoId} : Create(t, k, par)
    \/ \E t \in Ids : ReopenSentiph(t)
    \/ \E c \in Sockets, t \in Ids : Attach(c, t)
    \/ \E t \in Ids : StartFails(t)
    \/ \E c \in Sockets : Detach(c)
    \/ \E t \in Ids : Stop(t)
    \/ \E t \in Ids : Kill(t)
    \/ Prune
    \/ \E t \in Ids : Delete(t)
    \/ \E t, f \in Ids : DeleteFails(t, f)
    \/ \E t \in Ids : IdleExpire(t)
    \/ \E p \in Pids : ProcessExits(p)
    \/ \E t \in Ids : PtyExit(t)

\* Node's timers fire and the PTY reports an exit; nothing makes a user act.
Fairness ==
    /\ \A t \in Ids : WF_vars(IdleExpire(t))
    /\ \A t \in Ids : WF_vars(PtyExit(t))

Spec == Init /\ [][Next]_vars /\ Fairness

-----------------------------------------------------------------------------
(* Safety. *)

\* A record says "running", with the process of its session, exactly while a
\* session for it is in the map: onSessionStart and onSessionEnd never let the
\* registry and the sessions drift apart, whatever ends the session.
RunningMatchesSession ==
    \A t \in Ids :
        /\ Live(t) <=> terminals[t].state = "running"
        /\ Live(t) => terminals[t].pid = sessions[t].pid

\* No mix of prompted creations, attaching sockets and reopened sessions gets
\* past the limit of concurrent sessions.
CapacityRespected == Cardinality(LiveIds) <= SessionLimit

\* Two sessions never share a process, and a session never drives a process
\* that was started for another terminal or that has been told to go.
SessionsOwnTheirProcess ==
    \A t \in LiveIds :
        /\ procs[sessions[t].pid].owner = t
        /\ procs[sessions[t].pid].status \in {"alive", "dead"}

\* Every process that runs and was not told to end is driven by a session: none
\* is left behind by a stop, a delete, an idle close or a restarted session.
NoLeakedProcess ==
    \A p \in Pids : procs[p].status = "alive" => \E t \in Ids : sessions[t].pid = p

\* Sessions and processes account for each other, whatever ends a session and
\* however soon the terminal is started again: as many as the limit allows, each
\* with a process of its own, and no process besides.
ProcessesAccountedFor == CapacityRespected /\ SessionsOwnTheirProcess /\ NoLeakedProcess

\* Over time: the runtime implements a pool of processes.  A process that a
\* session has let go, or lost, is never driven again, not by the session that
\* the same terminal starts next either; whatever ends several sessions at a time
\* signals the processes of just these; and a process that is driven is signalled
\* by nothing but the end of its session.
Pool == INSTANCE ProcessPool WITH
    Users <- Ids, Workers <- Pids, None <- NoPid, Limit <- SessionLimit, MayFail <- LogMayFail,
    drives <- [t \in Ids |-> sessions[t].pid],
    status <- [p \in Pids |-> procs[p].status]

ProcessesArePooled == Pool!PoolSpec

\* The clients of a session are the open sockets whose handlers captured it: a
\* socket of a session that ended never counts as a client of its successor.
ClientsMatchSockets ==
    \A t \in Ids, c \in Sockets :
        c \in sessions[t].clients <=> Live(t) /\ sockets[c] = sessions[t].pid

\* An armed idle timer can only ever close a session nobody is attached to and
\* that is not kept alive.
IdleTimerSpares ==
    \A t \in Ids : sessions[t].idleTimer =>
        Live(t) /\ sessions[t].clients = {} /\ ~sessions[t].keepAlive

\* A session nobody is attached to is kept alive on purpose or is about to be
\* closed.  Sentiph's session in a worktree is the exception the code makes: it
\* is started with neither a client nor a timer.
Unattended(t) ==
    /\ Live(t) /\ sessions[t].clients = {} /\ ~sessions[t].keepAlive
    /\ ~(terminals[t].sentiph /\ terminals[t].worktree)

UnattendedIsTimed == \A t \in Ids : Unattended(t) => sessions[t].idleTimer

\* Sockets, sessions and idle timers account for each other: late close events,
\* sessions that were replaced and sockets that come back never leave a client
\* too many, a session that nobody attends and nothing will close, or a timer
\* that will close one under an attached user.
SocketsAccountedFor == ClientsMatchSockets /\ UnattendedIsTimed /\ IdleTimerSpares

\* Sentiph is a singleton: terminalFactory.ts promises it of creations, whatever
\* is created, deleted and created again.
SentiphIsSingleton ==
    \A t, u \in KnownIds : terminals[t].sentiph /\ terminals[u].sentiph => t = u

\* What the code keeps of it: beside a terminal that has Sentiph's terminal id
\* there is never more than one Sentiph, whatever ids are asked for and however
\* often either is deleted and created again.
AtMostOneBeside(records) ==
    \A t, u \in Ids \ {SentiphId} : records[t].sentiph /\ records[u].sentiph => t = u

SentiphHasOneDouble == AtMostOneBeside(terminals)

\* No terminal has more children than the limit, also when an id is used again
\* and the new terminal inherits the children of its predecessor.
ChildLimitRespected ==
    \A t \in Ids : Cardinality(ChildrenOf({t})) <= MaxChildren

\* The agent of a worktree terminal never runs without its worktree: the runtime
\* would silently run it in the workspace root instead.
WorktreeIsolation ==
    \A t \in KnownIds : terminals[t].worktree => t \in worktrees

\* What creations, deletions that fail half way and ids that are used again
\* leave of a family is still within the limits.
FamiliesAreSound == ChildLimitRespected /\ WorktreeIsolation

\* The record of t differs from what was handed to the registry writer in its
\* conversation alone, and has no session that goes on with that conversation.
IdUnsaved(t) ==
    /\ ~Live(t)
    /\ saved[t] = WithId(terminals[t], saved[t].claude)

\* What is handed to the registry writer is what the runtime holds, up to the
\* conversation that a failed start planned: no handler changes a record in any
\* other way and returns without scheduling it, and a session that runs has the
\* conversation scheduled that it runs with.
OnlyIdsUnsaved ==
    \A t \in Ids : saved[t] # terminals[t] => IdUnsaved(t)

\* When the removal of a worktree interrupts a delete, the deletions it made are
\* not scheduled either; but no other change to a record that is still there is
\* ever withheld from the registry.
OnlyDeletionsUnsaved ==
    \A t \in Ids : saved[t] # terminals[t] => ~Known(t) \/ IdUnsaved(t)

\* A terminal that was running disappears together with its descendants; only
\* pruning takes a parent away from its children.
DeleteTakesDescendants ==
    [][\A t \in Ids :
         Live(t) /\ terminals'[t].state = "none"
            => \A x \in Cascade(t) : terminals'[x].state = "none"]_vars

\* When the removal of a worktree fails, descendants can outlive a terminal that
\* was running; but then a terminal of the family that was deleted is still there,
\* with its worktree and without a session, to be deleted again.  Otherwise all
\* descendants go.
SurvivorsKeepTheFailure ==
    [][\A t \in Ids :
         Live(t) /\ terminals'[t].state = "none"
            => \/ \A x \in Cascade(t) : terminals'[x].state = "none"
               \/ \E root \in Ids : t \in Cascade(root) /\ \E x \in Cascade(root) \cap worktrees' :
                    terminals'[x].state # "none" /\ sessions'[x] = NoSession]_vars

(* Liveness. *)

\* A session that nobody attends and nothing keeps alive is closed, unless
\* somebody attaches to it again.
UnattendedSessionEnds ==
    \A t \in Ids :
        Unattended(t) ~> (~Live(t) \/ sessions[t].clients # {})

\* A process that exits under its session does not leave the record "running".
ExitIsNoticed ==
    \A p \in Pids :
        (procs[p].status = "dead") ~> (\A t \in Ids : sessions[t].pid # p)
=============================================================================
