------------------------ MODULE TerminalRuntime_proofs ------------------------
(***************************************************************************)
(* Proofs about TerminalRuntime for every number of terminals, sockets and *)
(* processes, every limit and every mix of requests.                       *)
(***************************************************************************)
EXTENDS TerminalRuntime, FiniteSetTheorems, TLAPS

-----------------------------------------------------------------------------
(* The values the helpers return. *)

LEMMA NullRecords == NoTerminal \in Record /\ NoSession \in Session
  BY DEF NoTerminal, NoSession, Record, Session, LifecycleStates

LEMMA RunningType ==
  ASSUME NEW r \in Record, NEW p \in Pids
  PROVE  /\ Running(r, p) \in Record
         /\ Running(r, p).state = "running" /\ Running(r, p).pid = p
         /\ Running(r, p).prompt = r.prompt /\ Running(r, p).sentiph = r.sentiph
         /\ Running(r, p).worktree = r.worktree /\ Running(r, p).parent = r.parent
  BY DEF Running, Record, LifecycleStates

LEMMA EndedType ==
  ASSUME NEW r \in Record, NEW how \in LifecycleStates
  PROVE  /\ Ended(r, how) \in Record
         /\ Ended(r, how).state = IF r.state = "none" THEN "none" ELSE how
         /\ Ended(r, how).sentiph = r.sentiph /\ Ended(r, how).parent = r.parent
         /\ Ended(r, how).worktree = r.worktree
  BY DEF Ended, Record, LifecycleStates

\* Planning a conversation changes nothing else in a record.
LEMMA PlannedType ==
  ASSUME NEW r \in Record, NEW id \in PlannedIds(r)
  PROVE  /\ WithId(r, id) \in Record
         /\ WithId(r, id).state = r.state /\ WithId(r, id).pid = r.pid
         /\ WithId(r, id).prompt = r.prompt /\ WithId(r, id).sentiph = r.sentiph
         /\ WithId(r, id).worktree = r.worktree /\ WithId(r, id).parent = r.parent
  <1>1. id \in ClaudeIds \cup {NoClaude} BY DEF PlannedIds, Record
  <1> QED BY <1>1 DEF WithId, Record

LEMMA FreshType ==
  ASSUME RuntimeAssumption, NEW t \in Ids, NEW k \in Requests, NEW par \in Ids \cup {NoId}
  PROVE  /\ Fresh(t, k, par) \in Record
         /\ Fresh(t, k, par).state = "registered" /\ Fresh(t, k, par).pid = NoPid
         /\ Fresh(t, k, par).parent = par /\ Fresh(t, k, par).worktree = k.worktree
         /\ Fresh(t, k, par).prompt = k.prompt
  BY DEF RuntimeAssumption, Request, Record, LifecycleStates, Fresh

LEMMA SessionTypes ==
  ASSUME NEW r \in Record, NEW p \in Pids, NEW C \in SUBSET Sockets,
         NEW s \in Session, NEW c \in Sockets, NEW t \in Ids
  PROVE  /\ NewSession(t, r, p, C) \in Session
         /\ Join(s, c) \in Session
         /\ Leave(s, c) \in Session
         /\ Join(s, c).pid = s.pid
         /\ Leave(s, c).pid = s.pid
  BY DEF NewSession, KeepsAlive, Join, Leave, Session, Record

LEMMA SpawnedType ==
  ASSUME NEW t \in Ids
  PROVE  Spawned(t) \in Process
  BY DEF Spawned, Process

LEMMA SignalledType ==
  ASSUME procs \in [Pids -> Process], NEW P
  PROVE  Signalled(P) \in [Pids -> Process]
  BY DEF Signalled, Process

LEMMA StartWithType ==
  ASSUME TypeOK, NEW t \in Ids, NEW r \in Record, NEW C \in SUBSET Sockets,
         StartWith(t, r, C), worktrees' \subseteq Ids
  PROVE  TypeOK'
  <1> PICK p \in Pids, id \in PlannedIds(r) :
        /\ Unused(p)
        /\ terminals' = [terminals EXCEPT ![t] = Running(WithId(r, id), p)]
        /\ sessions' = [sessions EXCEPT ![t] = NewSession(t, r, p, C)]
        /\ sockets' = [c \in Sockets |-> IF c \in C THEN p ELSE sockets[c]]
        /\ procs' = [procs EXCEPT ![p] = Spawned(t)]
    BY DEF StartWith
  <1>1. terminals' \in [Ids -> Record]
    <2>1. Running(WithId(r, id), p) \in Record BY PlannedType, RunningType
    <2> QED BY <2>1 DEF TypeOK
  <1>2. sessions' \in [Ids -> Session]
    <2>1. NewSession(t, r, p, C) \in Session BY DEF NewSession, KeepsAlive, Session, Record
    <2> QED BY <2>1 DEF TypeOK
  <1>3. sockets' \in [Sockets -> Pids \cup {NoPid}] BY DEF TypeOK
  <1>4. procs' \in [Pids -> Process] BY SpawnedType DEF TypeOK
  <1>5. saved' = terminals' BY DEF StartWith
  <1> QED BY <1>1, <1>2, <1>3, <1>4, <1>5 DEF TypeOK

\* A start that fails leaves a conversation in the record, and perhaps a process.
LEMMA FailedStartType ==
  ASSUME TypeOK, NEW t \in Ids, NEW r \in Record, FailedStart(t, r)
  PROVE  /\ terminals' \in [Ids -> Record] /\ procs' \in [Pids -> Process]
         /\ UNCHANGED <<sessions, sockets>> /\ HasCapacity
         /\ \A u \in Ids \ {t} : terminals'[u] = terminals[u]
         /\ \E id \in PlannedIds(r) : terminals'[t] = WithId(r, id)
         /\ terminals'[t].state = r.state /\ terminals'[t].pid = r.pid
         /\ terminals'[t].sentiph = r.sentiph /\ terminals'[t].parent = r.parent
         /\ terminals'[t].worktree = r.worktree
  <1> PICK id \in PlannedIds(r) : terminals' = [terminals EXCEPT ![t] = WithId(r, id)]
    BY DEF FailedStart
  <1>1. /\ WithId(r, id) \in Record
        /\ WithId(r, id).state = r.state /\ WithId(r, id).pid = r.pid
        /\ WithId(r, id).sentiph = r.sentiph /\ WithId(r, id).worktree = r.worktree
        /\ WithId(r, id).parent = r.parent
    BY PlannedType
  <1>2. terminals'[t] = WithId(r, id) BY DEF TypeOK
  <1>3. procs' \in [Pids -> Process] BY SpawnedType DEF FailedStart, TypeOK
  <1>4. terminals' \in [Ids -> Record] /\ \A u \in Ids \ {t} : terminals'[u] = terminals[u]
    BY <1>1 DEF TypeOK
  <1> QED BY <1>1, <1>2, <1>3, <1>4 DEF FailedStart

LEMMA TeardownType ==
  ASSUME TypeOK, NEW t \in Ids, NEW how \in LifecycleStates, Teardown(t, how),
         procs' \in [Pids -> Process]
  PROVE  TypeOK'
  <1>1. terminals' \in [Ids -> Record] BY EndedType DEF Teardown, TypeOK
  <1>2. sessions' \in [Ids -> Session] BY NullRecords DEF Teardown, TypeOK
  <1>3. saved' \in [Ids -> Record] BY <1>1 DEF Teardown, TypeOK
  <1> QED BY <1>1, <1>2, <1>3 DEF Teardown, TypeOK

-----------------------------------------------------------------------------
(* Type correctness. *)

LEMMA InitType == Init => TypeOK
  BY NullRecords DEF Init, TypeOK, Process

LEMMA NextType ==
  ASSUME TypeOK, [Next]_vars, RuntimeAssumption
  PROVE  TypeOK'
  <1>1. ASSUME NEW t \in Ids, NEW k \in Requests, NEW par \in Ids \cup {NoId}, Create(t, k, par)
        PROVE  TypeOK'
    <2> DEFINE fresh == Fresh(t, k, par)
    <2>1. fresh \in Record BY FreshType
    <2>2. worktrees' \subseteq Ids BY <1>1 DEF Create, TypeOK
    <2>3. CASE StartWith(t, fresh, {}) BY <2>1, <2>2, <2>3, StartWithType
    <2>4. CASE /\ terminals' = [terminals EXCEPT ![t] = fresh]
               /\ saved' = terminals'
               /\ UNCHANGED <<sessions, sockets, procs>>
      BY <2>1, <2>2, <2>4 DEF TypeOK
    <2>5. CASE FailedStart(t, fresh) /\ saved' = [terminals EXCEPT ![t] = fresh]
      BY <2>1, <2>2, <2>5, FailedStartType DEF TypeOK
    <2> QED BY <1>1, <2>3, <2>4, <2>5 DEF Create
  <1>2. ASSUME NEW t \in Ids, ReopenSentiph(t)
        PROVE  TypeOK'
    <2>1. CASE Live(t)
      <3>1. /\ sessions' = [sessions EXCEPT ![t].idleTimer = FALSE]
            /\ UNCHANGED <<terminals, sockets, procs, worktrees, saved>>
        BY <1>2, <2>1 DEF ReopenSentiph
      <3> QED BY <3>1 DEF TypeOK, Session
    <2>2. CASE ~Live(t)
      <3>1. StartWith(t, terminals[t], {}) /\ terminals[t] \in Record /\ worktrees' \subseteq Ids
        BY <1>2, <2>2 DEF ReopenSentiph, TypeOK
      <3> QED BY <3>1, StartWithType
    <2> QED BY <2>1, <2>2
  <1>3. ASSUME NEW c \in Sockets, NEW t \in Ids, Attach(c, t)
        PROVE  TypeOK'
    <2>1. CASE Live(t)
      <3>1. /\ sessions' = [sessions EXCEPT ![t] = Join(@, c)]
            /\ sockets' = [sockets EXCEPT ![c] = sessions[t].pid]
            /\ UNCHANGED <<terminals, procs, worktrees, saved>>
        BY <1>3, <2>1 DEF Attach
      <3>2. sessions[t] \in Session BY DEF TypeOK
      <3>3. Join(sessions[t], c) \in Session /\ sessions[t].pid \in Pids \cup {NoPid}
        BY <3>2 DEF Join, Session
      <3> QED BY <3>1, <3>3 DEF TypeOK
    <2>2. CASE ~Live(t)
      <3>1. StartWith(t, terminals[t], {c}) /\ terminals[t] \in Record /\ worktrees' \subseteq Ids
        BY <1>3, <2>2 DEF Attach, TypeOK
      <3> QED BY <3>1, StartWithType
    <2> QED BY <2>1, <2>2
  <1>4. ASSUME NEW t \in Ids, StartFails(t)
        PROVE  TypeOK'
    BY <1>4, FailedStartType DEF StartFails, TypeOK
  <1>5. ASSUME NEW c \in Sockets, Detach(c)
        PROVE  TypeOK'
    <2>1. \A s \in Session : Leave(s, c) \in Session BY DEF Leave, Session
    <2> QED BY <1>5, <2>1 DEF Detach, TypeOK
  <1>6. ASSUME NEW t \in Ids, Stop(t)
        PROVE  TypeOK'
    <2>1. Teardown(t, "stopped") /\ "stopped" \in LifecycleStates
      BY <1>6 DEF Stop, LifecycleStates
    <2>2. procs' \in [Pids -> Process] BY <1>6, SignalledType DEF Stop, TypeOK
    <2> QED BY <2>1, <2>2, TeardownType
  <1>7. ASSUME NEW t \in Ids, Kill(t)
        PROVE  TypeOK'
    <2>1. Teardown(t, "stopped") /\ "stopped" \in LifecycleStates
      BY <1>7 DEF Kill, LifecycleStates
    <2>2. procs' \in [Pids -> Process] BY <1>7 DEF Kill, TypeOK, Process
    <2> QED BY <2>1, <2>2, TeardownType
  <1>8. ASSUME Prune
        PROVE  TypeOK'
    BY <1>8, NullRecords DEF Prune, TypeOK
  <1>9. ASSUME NEW t \in Ids, Delete(t)
        PROVE  TypeOK'
    <2>1. procs' \in [Pids -> Process] BY <1>9, SignalledType DEF Delete, TypeOK
    <2>2. worktrees' \subseteq Ids BY <1>9 DEF Delete, WorktreesWithout, TypeOK
    <2> QED BY <1>9, <2>1, <2>2, NullRecords DEF Delete, TypeOK
  <1>10. ASSUME NEW t \in Ids, NEW f \in Ids, DeleteFails(t, f)
         PROVE  TypeOK'
    <2> PICK D \in SUBSET (Cascade(t) \ {f}) :
          /\ terminals' = [x \in Ids |-> IF x \in D THEN NoTerminal
                                       ELSE IF x = f /\ Live(f) THEN Ended(terminals[f], "stopped")
                                       ELSE terminals[x]]
          /\ sessions' = [x \in Ids |-> IF x \in D \cup {f} THEN NoSession ELSE sessions[x]]
          /\ procs' = Signalled(SessionPids(D \cup {f}))
          /\ worktrees' = WorktreesWithout(D)
          /\ IF Live(f) THEN saved' = terminals' ELSE SavedMidway(D, t)
      BY <1>10 DEF DeleteFails
    <2>1. \A x \in Ids : Ended(terminals[x], "stopped") \in Record
      BY EndedType DEF TypeOK, LifecycleStates
    <2>2. terminals' \in [Ids -> Record] BY <2>1, NullRecords DEF TypeOK
    <2>3. sessions' \in [Ids -> Session] BY NullRecords DEF TypeOK
    <2>4. procs' \in [Pids -> Process] BY SignalledType DEF TypeOK
    <2>5. worktrees' \subseteq Ids BY DEF WorktreesWithout, TypeOK
    <2>6. saved' \in [Ids -> Record]
      <3>1. CASE Live(f) BY <2>2, <3>1
      <3>2. CASE saved' = saved BY <3>2 DEF TypeOK
      <3>3. ASSUME NEW m \in D, NEW B,
                   saved' = [x \in Ids |-> IF x \in B THEN NoTerminal
                                          ELSE IF x = m THEN Ended(terminals[m], "stopped")
                                          ELSE terminals[x]]
            PROVE  saved' \in [Ids -> Record]
        <4>1. m \in Ids BY DEF Cascade, KnownIds
        <4> QED BY <2>1, <3>3, <4>1, NullRecords DEF TypeOK
      <3> QED BY <3>1, <3>2, <3>3 DEF SavedMidway
    <2>7. sockets' = sockets BY <1>10 DEF DeleteFails
    <2> QED BY <2>2, <2>3, <2>4, <2>5, <2>6, <2>7 DEF TypeOK
  <1>11. ASSUME NEW t \in Ids, IdleExpire(t)
         PROVE  TypeOK'
    <2>1. Teardown(t, "stopped") /\ "stopped" \in LifecycleStates
      BY <1>11 DEF IdleExpire, LifecycleStates
    <2>2. procs' \in [Pids -> Process] BY <1>11, SignalledType DEF IdleExpire, TypeOK
    <2> QED BY <2>1, <2>2, TeardownType
  <1>12. ASSUME NEW p \in Pids, ProcessExits(p)
         PROVE  TypeOK'
    BY <1>12 DEF ProcessExits, TypeOK, Process
  <1>13. ASSUME NEW t \in Ids, PtyExit(t)
         PROVE  TypeOK'
    <2>1. Teardown(t, "exited") /\ "exited" \in LifecycleStates
      BY <1>13 DEF PtyExit, LifecycleStates
    <2>2. procs' \in [Pids -> Process] BY <1>13 DEF PtyExit, TypeOK
    <2> QED BY <2>1, <2>2, TeardownType
  <1>14. CASE UNCHANGED vars BY <1>14 DEF vars, TypeOK
  <1> QED
    BY <1>1, <1>2, <1>3, <1>4, <1>5, <1>6, <1>7, <1>8, <1>9, <1>10, <1>11, <1>12,
       <1>13, <1>14 DEF Next

\* Every record, session and process has its shape in every reachable state,
\* whatever handlers, timers and exits interleave.
THEOREM TypeCorrect == Spec => []TypeOK
  <1>1. RuntimeAssumption BY RuntimeAssumption
  <1> QED BY <1>1, InitType, NextType, PTL DEF Spec

-----------------------------------------------------------------------------
(* The registry and the sessions map agree. *)

\* What RunningMatchesSession says of one terminal.
Matches(t) ==
    /\ Live(t) <=> terminals[t].state = "running"
    /\ Live(t) => terminals[t].pid = sessions[t].pid

LEMMA StartWithMatches ==
  ASSUME TypeOK, RunningMatchesSession, RuntimeAssumption,
         NEW t \in Ids, NEW r \in Record, NEW C, StartWith(t, r, C)
  PROVE  RunningMatchesSession'
  <1> PICK p \in Pids, id \in PlannedIds(r) :
        /\ terminals' = [terminals EXCEPT ![t] = Running(WithId(r, id), p)]
        /\ sessions' = [sessions EXCEPT ![t] = NewSession(t, r, p, C)]
    BY DEF StartWith
  <1>1. NewSession(t, r, p, C).pid = p /\ p # NoPid BY DEF NewSession, RuntimeAssumption
  <1>2. sessions'[t].pid = p /\ terminals'[t].state = "running" /\ terminals'[t].pid = p
    BY <1>1, PlannedType, RunningType DEF TypeOK
  <1>3. \A u \in Ids \ {t} : sessions'[u] = sessions[u] /\ terminals'[u] = terminals[u]
    BY DEF TypeOK
  <1>4. ASSUME NEW u \in Ids PROVE Matches(u)'
    BY <1>1, <1>2, <1>3 DEF Matches, RunningMatchesSession, Live
  <1> QED BY <1>4 DEF RunningMatchesSession, Matches

LEMMA FailedStartMatches ==
  ASSUME TypeOK, RunningMatchesSession, NEW t \in Ids, NEW r \in Record, FailedStart(t, r),
         ~Live(t), r.state # "running"
  PROVE  RunningMatchesSession'
  <1>1. /\ UNCHANGED sessions /\ terminals'[t].state # "running"
        /\ \A u \in Ids \ {t} : terminals'[u] = terminals[u]
    BY FailedStartType
  <1> QED BY <1>1 DEF RunningMatchesSession, Live

LEMMA TeardownMatches ==
  ASSUME TypeOK, RunningMatchesSession,
         NEW t \in Ids, NEW how \in {"stopped", "exited"}, Teardown(t, how)
  PROVE  RunningMatchesSession'
  <1>1. sessions'[t].pid = NoPid BY DEF Teardown, TypeOK, NoSession
  <1>2. terminals'[t].state # "running"
    BY EndedType DEF Teardown, TypeOK, LifecycleStates
  <1>3. \A u \in Ids \ {t} : sessions'[u] = sessions[u] /\ terminals'[u] = terminals[u]
    BY DEF Teardown, TypeOK
  <1>4. ASSUME NEW u \in Ids PROVE Matches(u)'
    BY <1>1, <1>2, <1>3 DEF Matches, RunningMatchesSession, Live
  <1> QED BY <1>4 DEF RunningMatchesSession, Matches

LEMMA NextMatches ==
  ASSUME TypeOK, RunningMatchesSession, [Next]_vars, RuntimeAssumption
  PROVE  RunningMatchesSession'
  <1>1. ASSUME NEW t \in Ids, NEW k \in Requests, NEW par \in Ids \cup {NoId}, Create(t, k, par)
        PROVE  RunningMatchesSession'
    <2> DEFINE fresh == Fresh(t, k, par)
    <2>1. fresh \in Record BY FreshType
    <2>2. CASE StartWith(t, fresh, {}) BY <2>1, <2>2, StartWithMatches
    <2>3. CASE terminals' = [terminals EXCEPT ![t] = fresh] /\ UNCHANGED sessions
      <3>1. ~Live(t) /\ fresh.state # "running"
        BY <1>1, FreshType DEF Create, Known, RunningMatchesSession
      <3>2. ASSUME NEW u \in Ids PROVE Matches(u)'
        BY <2>3, <3>1 DEF Matches, RunningMatchesSession, Live, TypeOK
      <3> QED BY <3>2 DEF RunningMatchesSession, Matches
    <2>4. CASE FailedStart(t, fresh)
      <3>1. ~Live(t) /\ fresh.state # "running"
        BY <1>1, FreshType DEF Create, Known, RunningMatchesSession
      <3> QED BY <2>1, <2>4, <3>1, FailedStartMatches
    <2> QED BY <1>1, <2>2, <2>3, <2>4 DEF Create
  <1>2. ASSUME NEW t \in Ids, ReopenSentiph(t)
        PROVE  RunningMatchesSession'
    <2>1. CASE StartWith(t, terminals[t], {})
      BY <2>1, StartWithMatches DEF TypeOK
    <2>2. CASE sessions' = [sessions EXCEPT ![t].idleTimer = FALSE] /\ UNCHANGED terminals
      <3>1. \A u \in Ids : sessions'[u].pid = sessions[u].pid BY <2>2 DEF TypeOK, Session
      <3> QED BY <2>2, <3>1 DEF RunningMatchesSession, Live
    <2> QED BY <1>2, <2>1, <2>2 DEF ReopenSentiph
  <1>3. ASSUME NEW c \in Sockets, NEW t \in Ids, Attach(c, t)
        PROVE  RunningMatchesSession'
    <2>1. CASE StartWith(t, terminals[t], {c})
      BY <2>1, StartWithMatches DEF TypeOK
    <2>2. CASE sessions' = [sessions EXCEPT ![t] = Join(@, c)] /\ UNCHANGED terminals
      <3>1. \A u \in Ids : sessions'[u].pid = sessions[u].pid
        BY <2>2 DEF TypeOK, Session, Join
      <3> QED BY <2>2, <3>1 DEF RunningMatchesSession, Live
    <2> QED BY <1>3, <2>1, <2>2 DEF Attach
  <1>4. ASSUME NEW c \in Sockets, Detach(c)
        PROVE  RunningMatchesSession'
    <2>1. \A u \in Ids : sessions'[u].pid = sessions[u].pid
      BY <1>4 DEF Detach, TypeOK, Session, Leave
    <2> QED BY <1>4, <2>1 DEF Detach, RunningMatchesSession, Live
  <1>5. ASSUME NEW t \in Ids, Stop(t) \/ Kill(t) \/ IdleExpire(t) \/ PtyExit(t)
        PROVE  RunningMatchesSession'
    BY <1>5, TeardownMatches DEF Stop, Kill, IdleExpire, PtyExit
  <1>6. ASSUME Prune
        PROVE  RunningMatchesSession'
    <2>1. ASSUME NEW u \in Ids PROVE Matches(u)'
      BY <1>6, <2>1 DEF Prune, Prunable, Matches, RunningMatchesSession, Live, TypeOK, NoTerminal
    <2> QED BY <2>1 DEF RunningMatchesSession, Matches
  <1>7. ASSUME NEW t \in Ids, Delete(t)
        PROVE  RunningMatchesSession'
    <2>1. ASSUME NEW u \in Ids PROVE Matches(u)'
      BY <1>7, <2>1 DEF Delete, Matches, RunningMatchesSession, Live, TypeOK, NoTerminal, NoSession
    <2> QED BY <2>1 DEF RunningMatchesSession, Matches
  <1>8. ASSUME NEW t \in Ids, NEW f \in Ids, DeleteFails(t, f)
        PROVE  RunningMatchesSession'
    <2> PICK D \in SUBSET (Cascade(t) \ {f}) :
          /\ terminals' = [x \in Ids |-> IF x \in D THEN NoTerminal
                                       ELSE IF x = f /\ Live(f) THEN Ended(terminals[f], "stopped")
                                       ELSE terminals[x]]
          /\ sessions' = [x \in Ids |-> IF x \in D \cup {f} THEN NoSession ELSE sessions[x]]
      BY <1>8 DEF DeleteFails
    <2>1. Ended(terminals[f], "stopped").state # "running"
      BY EndedType DEF TypeOK, LifecycleStates
    <2>2. ASSUME NEW u \in Ids PROVE Matches(u)'
      <3>1. CASE u \in D BY <3>1 DEF Matches, Live, NoTerminal, NoSession
      <3>2. CASE u \notin D /\ u = f
        BY <2>1, <3>2 DEF Matches, RunningMatchesSession, Live, NoSession
      <3>3. CASE u \notin D /\ u # f
        BY <3>3 DEF Matches, RunningMatchesSession, Live
      <3> QED BY <3>1, <3>2, <3>3
    <2> QED BY <2>2 DEF RunningMatchesSession, Matches
  <1>9. CASE UNCHANGED <<terminals, sessions>>
    BY <1>9 DEF RunningMatchesSession, Live
  <1>10. ASSUME NEW t \in Ids, StartFails(t)
         PROVE  RunningMatchesSession'
    BY <1>10, FailedStartMatches DEF StartFails, RunningMatchesSession, TypeOK
  <1> QED
    BY <1>1, <1>2, <1>3, <1>4, <1>5, <1>6, <1>7, <1>8, <1>9, <1>10
    DEF Next, ProcessExits, vars

\* The registry says "running", with the right process, exactly for the
\* terminals that have a session, under every interleaving of requests, timers,
\* exits and half-finished deletions.
THEOREM RegistryMatchesSessions == Spec => []RunningMatchesSession
  <1>1. RuntimeAssumption BY RuntimeAssumption
  <1>2. Init => RunningMatchesSession
    BY DEF Init, RunningMatchesSession, Live, NoTerminal, NoSession
  <1> QED BY <1>1, <1>2, InitType, NextType, NextMatches, PTL DEF Spec

-----------------------------------------------------------------------------
(* What one step can do to the sessions. *)

\* A session is left alone, ended, kept from closing, joined, left or started.
SessionStep(u) ==
    \/ sessions'[u] = sessions[u]
    \/ sessions'[u] = NoSession
    \/ sessions'[u] = [sessions[u] EXCEPT !.idleTimer = FALSE]
    \/ Live(u) /\ \E c \in Sockets : sessions'[u] \in {Join(sessions[u], c), Leave(sessions[u], c)}
    \/ \E r \in Record, p \in Pids, C \in SUBSET Sockets : sessions'[u] = NewSession(u, r, p, C)

\* At most the session of t is new, and there was room for it.
OneStart ==
    /\ HasCapacity
    /\ \E t \in Ids : \A u \in Ids \ {t} : sessions'[u] = sessions[u]

NoStart == \A u \in Ids : Live(u)' => Live(u)

LEMMA StartWithSteps ==
  ASSUME TypeOK, NEW t \in Ids, NEW r \in Record, NEW C \in SUBSET Sockets, StartWith(t, r, C)
  PROVE  OneStart /\ \A u \in Ids : SessionStep(u)
  <1> PICK p \in Pids : sessions' = [sessions EXCEPT ![t] = NewSession(t, r, p, C)]
    BY DEF StartWith
  <1>1. \A u \in Ids \ {t} : sessions'[u] = sessions[u] BY DEF TypeOK
  <1>2. sessions'[t] = NewSession(t, r, p, C) BY DEF TypeOK
  <1> QED BY <1>1, <1>2 DEF OneStart, SessionStep, StartWith

LEMMA EndingSteps ==
  ASSUME \A u \in Ids : sessions'[u] = sessions[u] \/ sessions'[u] = NoSession
  PROVE  NoStart /\ \A u \in Ids : SessionStep(u)
  <1>1. NoSession.pid = NoPid BY DEF NoSession
  <1>2. NoStart BY <1>1 DEF NoStart, Live
  <1>3. \A u \in Ids : SessionStep(u) BY DEF SessionStep
  <1> QED BY <1>2, <1>3

LEMMA TeardownSteps ==
  ASSUME TypeOK, NEW t \in Ids, NEW how, Teardown(t, how)
  PROVE  NoStart /\ \A u \in Ids : SessionStep(u)
  <1>1. \A u \in Ids : sessions'[u] = sessions[u] \/ sessions'[u] = NoSession
    BY DEF Teardown, TypeOK
  <1> QED BY <1>1, EndingSteps

LEMMA NextSteps ==
  ASSUME TypeOK, [Next]_vars, RuntimeAssumption
  PROVE  (OneStart \/ NoStart) /\ \A u \in Ids : SessionStep(u)
  <1>1. ASSUME NEW t \in Ids, NEW k \in Requests, NEW par \in Ids \cup {NoId}, Create(t, k, par)
        PROVE  (OneStart \/ NoStart) /\ \A u \in Ids : SessionStep(u)
    <2> DEFINE fresh == Fresh(t, k, par)
    <2>1. fresh \in Record BY FreshType
    <2>2. CASE StartWith(t, fresh, {}) BY <2>1, <2>2, StartWithSteps
    <2>3. CASE UNCHANGED sessions BY <2>3 DEF NoStart, SessionStep, Live
    <2> QED BY <1>1, <2>2, <2>3 DEF Create, FailedStart
  <1>2. ASSUME NEW t \in Ids, ReopenSentiph(t)
        PROVE  (OneStart \/ NoStart) /\ \A u \in Ids : SessionStep(u)
    <2>1. CASE StartWith(t, terminals[t], {}) BY <2>1, StartWithSteps DEF TypeOK
    <2>2. CASE sessions' = [sessions EXCEPT ![t].idleTimer = FALSE]
      <3>1. \A u \in Ids \ {t} : sessions'[u] = sessions[u] BY <2>2 DEF TypeOK
      <3>2. sessions'[t] = [sessions[t] EXCEPT !.idleTimer = FALSE] BY <2>2 DEF TypeOK
      <3>3. sessions'[t].pid = sessions[t].pid BY <3>2 DEF TypeOK, Session
      <3> QED BY <3>1, <3>2, <3>3 DEF NoStart, SessionStep, Live
    <2> QED BY <1>2, <2>1, <2>2 DEF ReopenSentiph
  <1>3. ASSUME NEW c \in Sockets, NEW t \in Ids, Attach(c, t)
        PROVE  (OneStart \/ NoStart) /\ \A u \in Ids : SessionStep(u)
    <2>1. CASE StartWith(t, terminals[t], {c}) BY <2>1, StartWithSteps DEF TypeOK
    <2>2. CASE Live(t) /\ sessions' = [sessions EXCEPT ![t] = Join(@, c)]
      <3>1. \A u \in Ids \ {t} : sessions'[u] = sessions[u] BY <2>2 DEF TypeOK
      <3>2. sessions'[t] = Join(sessions[t], c) BY <2>2 DEF TypeOK
      <3> QED BY <2>2, <3>1, <3>2 DEF NoStart, SessionStep, Live
    <2> QED BY <1>3, <2>1, <2>2 DEF Attach
  <1>4. ASSUME NEW c \in Sockets, Detach(c)
        PROVE  (OneStart \/ NoStart) /\ \A u \in Ids : SessionStep(u)
    <2>1. \A u \in Ids : sessions'[u] = sessions[u]
              \/ (Live(u) /\ sessions'[u] = Leave(sessions[u], c))
      BY <1>4 DEF Detach
    <2> QED BY <2>1 DEF NoStart, SessionStep, Live
  <1>5. ASSUME NEW t \in Ids, Stop(t) \/ Kill(t) \/ IdleExpire(t) \/ PtyExit(t)
        PROVE  NoStart /\ \A u \in Ids : SessionStep(u)
    BY <1>5, TeardownSteps DEF Stop, Kill, IdleExpire, PtyExit
  <1>6. CASE \A u \in Ids : sessions'[u] = sessions[u] \/ sessions'[u] = NoSession
    BY <1>6, EndingSteps
  <1>7. ASSUME NEW t \in Ids, NEW f \in Ids, Delete(t) \/ DeleteFails(t, f)
        PROVE  \A u \in Ids : sessions'[u] = sessions[u] \/ sessions'[u] = NoSession
    <2>1. CASE Delete(t) BY <2>1 DEF Delete
    <2>2. CASE DeleteFails(t, f) BY <2>2 DEF DeleteFails
    <2> QED BY <1>7, <2>1, <2>2
  <1>8. CASE UNCHANGED sessions BY <1>6, <1>8
  <1> QED
    BY <1>1, <1>2, <1>3, <1>4, <1>5, <1>6, <1>7, <1>8
    DEF Next, Prune, StartFails, FailedStart, ProcessExits, vars

-----------------------------------------------------------------------------
(* The session limit. *)

LEMMA NextCapacity ==
  ASSUME TypeOK, CapacityRespected, OneStart \/ NoStart, RuntimeAssumption
  PROVE  CapacityRespected'
  <1>1. IsFiniteSet(LiveIds) /\ LiveIds \subseteq Ids
    BY FS_Subset DEF LiveIds, RuntimeAssumption
  <1>2. Cardinality(LiveIds) \in Nat BY <1>1, FS_CardinalityType
  <1>3. CASE NoStart
    <2>1. LiveIds' \subseteq LiveIds BY <1>3 DEF NoStart, LiveIds
    <2>2. Cardinality(LiveIds') <= Cardinality(LiveIds) BY <1>1, <2>1, FS_Subset
    <2>3. Cardinality(LiveIds') \in Nat BY <1>1, <2>1, FS_Subset, FS_CardinalityType
    <2> QED BY <1>2, <2>2, <2>3 DEF CapacityRespected, RuntimeAssumption
  <1>4. CASE OneStart
    <2> PICK t \in Ids : \A u \in Ids \ {t} : sessions'[u] = sessions[u] BY <1>4 DEF OneStart
    <2>1. LiveIds' \subseteq LiveIds \cup {t} BY DEF LiveIds, Live
    <2>2. /\ IsFiniteSet(LiveIds \cup {t})
          /\ Cardinality(LiveIds \cup {t}) \in {Cardinality(LiveIds), Cardinality(LiveIds) + 1}
      BY <1>1, FS_AddElement
    <2>3. Cardinality(LiveIds') <= Cardinality(LiveIds \cup {t}) BY <2>1, <2>2, FS_Subset
    <2>4. Cardinality(LiveIds') \in Nat BY <2>1, <2>2, FS_Subset, FS_CardinalityType
    <2>5. Cardinality(LiveIds) < SessionLimit BY <1>4 DEF OneStart, HasCapacity
    <2> QED BY <1>2, <2>2, <2>3, <2>4, <2>5 DEF CapacityRespected, RuntimeAssumption
  <1> QED BY <1>3, <1>4

\* No interleaving of prompted creations, attaching sockets and reopened
\* sessions gets past the session limit, whatever its value.
THEOREM CapacityHolds == Spec => []CapacityRespected
  <1>1. RuntimeAssumption BY RuntimeAssumption
  <1>2. Init => CapacityRespected
    <2> SUFFICES ASSUME Init PROVE CapacityRespected OBVIOUS
    <2>1. LiveIds = {} BY DEF Init, LiveIds, Live, NoSession
    <2> QED BY <1>1, <2>1, FS_EmptySet DEF CapacityRespected, RuntimeAssumption
  <1>3. TypeOK /\ CapacityRespected /\ [Next]_vars => CapacityRespected'
    BY <1>1, NextSteps, NextCapacity
  <1> QED BY <1>1, <1>2, <1>3, InitType, NextType, PTL DEF Spec

-----------------------------------------------------------------------------
(* The idle timer. *)

\* What IdleTimerSpares says of one session.
TimerSpares(s) == s.idleTimer => s.pid # NoPid /\ s.clients = {} /\ ~s.keepAlive

LEMMA NextTimer ==
  ASSUME TypeOK, NEW u \in Ids, TimerSpares(sessions[u]), SessionStep(u), RuntimeAssumption
  PROVE  TimerSpares(sessions'[u])
  <1> DEFINE s == sessions[u]
  <1>0. s \in Session BY DEF TypeOK
  <1>1. CASE sessions'[u] = s BY <1>1
  <1>2. CASE sessions'[u] = NoSession BY <1>2 DEF NoSession, TimerSpares
  <1>3. CASE sessions'[u] = [s EXCEPT !.idleTimer = FALSE]
    BY <1>0, <1>3 DEF TimerSpares, Session
  <1>4. ASSUME NEW c \in Sockets, Live(u), sessions'[u] = Join(s, c)
        PROVE  TimerSpares(sessions'[u])
    BY <1>0, <1>4 DEF TimerSpares, Session, Join
  <1>5. ASSUME NEW c \in Sockets, Live(u), sessions'[u] = Leave(s, c)
        PROVE  TimerSpares(sessions'[u])
    BY <1>0, <1>5 DEF TimerSpares, Session, Leave, Live
  <1>6. ASSUME NEW r \in Record, NEW p \in Pids, NEW C \in SUBSET Sockets,
               sessions'[u] = NewSession(u, r, p, C)
        PROVE  TimerSpares(sessions'[u])
    BY <1>6 DEF TimerSpares, NewSession
  <1> QED BY <1>1, <1>2, <1>3, <1>4, <1>5, <1>6 DEF SessionStep

\* However attaching, detaching and reopening interleave, an armed idle timer
\* never belongs to a session that has a client or is kept alive.
THEOREM IdleTimerIsSafe == Spec => []IdleTimerSpares
  <1>1. RuntimeAssumption BY RuntimeAssumption
  <1>2. IdleTimerSpares <=> \A t \in Ids : TimerSpares(sessions[t])
    BY DEF IdleTimerSpares, TimerSpares, Live
  <1>3. Init => IdleTimerSpares BY DEF Init, IdleTimerSpares, NoSession
  <1>4. ASSUME TypeOK, IdleTimerSpares, [Next]_vars
        PROVE  IdleTimerSpares'
    <2>1. \A u \in Ids : TimerSpares(sessions'[u]) BY <1>1, <1>2, <1>4, NextSteps, NextTimer
    <2> QED BY <2>1 DEF IdleTimerSpares, TimerSpares, Live
  <1> QED BY <1>1, <1>3, <1>4, InitType, NextType, PTL DEF Spec

-----------------------------------------------------------------------------
(* Processes and sockets: they and the sessions account for each other.     *)

(* What one step can do to the processes. *)

\* A record holds the process of its session and no other: what makes it safe
\* to signal the process that a record names.
PidsMatch == \A t \in Ids : terminals[t].pid = sessions[t].pid

\* The processes of S that have not exited are signalled, or killed.
LetGo(S, how) ==
    \A p \in Pids :
       /\ procs'[p].owner = procs[p].owner
       /\ procs'[p].status = IF p \in SessionPids(S) /\ Alive(p) THEN how ELSE procs[p].status

\* The sessions of S end and so do their processes.
Ending(S) ==
    /\ \A u \in Ids :
         /\ sessions'[u].pid = (IF u \in S THEN NoPid ELSE sessions[u].pid)
         /\ terminals'[u].pid = (IF u \in S THEN NoPid ELSE terminals[u].pid)
    /\ \E how \in {"signalled", "dead"} : LetGo(S, how)

\* A process exits.
Exiting(p) ==
    /\ UNCHANGED <<terminals, sessions>>
    /\ Alive(p) /\ procs' = [procs EXCEPT ![p].status = "dead"]

\* A session of t starts, with a process that was never used.
Starting(t) ==
    /\ HasCapacity /\ ~Live(t)
    /\ \E p \in Pids :
         /\ Unused(p) /\ procs' = [procs EXCEPT ![p] = Spawned(t)]
         /\ sessions'[t].pid = p /\ terminals'[t].pid = p
    /\ \A u \in Ids \ {t} :
         sessions'[u].pid = sessions[u].pid /\ terminals'[u].pid = terminals[u].pid

\* A start for t fails, with a process that was never used.
Aborting(t) ==
    /\ LogMayFail /\ HasCapacity
    /\ \A u \in Ids : sessions'[u].pid = sessions[u].pid /\ terminals'[u].pid = terminals[u].pid
    /\ \E p \in Pids : Unused(p) /\ procs' = [procs EXCEPT ![p] = Spawned(t)]

LEMMA EndedPid ==
  ASSUME NEW r \in Record, NEW how \in LifecycleStates, r.state = "none" => r.pid = NoPid
  PROVE  Ended(r, how).pid = NoPid
  BY DEF Ended, Record

\* What is signalled is what was alive among P.
LEMMA SignalledSteps ==
  ASSUME procs \in [Pids -> Process], NEW P, procs' = Signalled(P), NEW p \in Pids
  PROVE  /\ procs'[p].owner = procs[p].owner
         /\ procs'[p].status = IF p \in P /\ Alive(p) THEN "signalled" ELSE procs[p].status
  <1>1. procs[p] \in Process OBVIOUS
  <1>2. procs'[p] = IF p \in P /\ Alive(p) THEN [procs[p] EXCEPT !.status = "signalled"]
            ELSE procs[p]
    BY DEF Signalled
  <1> QED BY <1>1, <1>2 DEF Process, Alive

LEMMA StartWithStarts ==
  ASSUME TypeOK, NEW t \in Ids, NEW r \in Record, NEW C, ~Live(t), StartWith(t, r, C)
  PROVE  Starting(t)
  <1> PICK p \in Pids, id \in PlannedIds(r) :
        /\ Unused(p)
        /\ terminals' = [terminals EXCEPT ![t] = Running(WithId(r, id), p)]
        /\ sessions' = [sessions EXCEPT ![t] = NewSession(t, r, p, C)]
        /\ procs' = [procs EXCEPT ![p] = Spawned(t)]
    BY DEF StartWith
  <1>1. sessions'[t].pid = p BY DEF TypeOK, NewSession
  <1>2. terminals'[t].pid = p BY PlannedType, RunningType DEF TypeOK
  <1>3. \A u \in Ids \ {t} : sessions'[u] = sessions[u] /\ terminals'[u] = terminals[u]
    BY DEF TypeOK
  <1> QED BY <1>1, <1>2, <1>3 DEF Starting, StartWith

\* Teardown ends the session of t; one that does not run has no process.
LEMMA TeardownPids ==
  ASSUME TypeOK, PidsMatch, RunningMatchesSession, NEW t \in Ids, NEW how \in LifecycleStates,
         Teardown(t, how), NEW u \in Ids
  PROVE  /\ sessions'[u].pid = (IF u \in {t} THEN NoPid ELSE sessions[u].pid)
         /\ terminals'[u].pid = (IF u \in {t} THEN NoPid ELSE terminals[u].pid)
  <1>1. CASE u = t
    <2>1. terminals[t].state = "none" => terminals[t].pid = NoPid
      BY DEF RunningMatchesSession, PidsMatch, Live
    <2>2. terminals'[t] = Ended(terminals[t], how) /\ sessions'[t] = NoSession
      BY DEF Teardown, TypeOK
    <2>3. terminals'[t].pid = NoPid BY <2>1, <2>2, EndedPid DEF TypeOK
    <2> QED BY <1>1, <2>2, <2>3 DEF NoSession
  <1>2. CASE u # t BY <1>2 DEF Teardown, TypeOK
  <1> QED BY <1>1, <1>2

LEMMA QuietEnding ==
  ASSUME \A u \in Ids : sessions'[u].pid = sessions[u].pid /\ terminals'[u].pid = terminals[u].pid,
         UNCHANGED procs
  PROVE  Ending({})
  BY DEF Ending, LetGo, SessionPids

LEMMA FailedStartQuiet ==
  ASSUME TypeOK, NEW t \in Ids, NEW r \in Record, FailedStart(t, r), r.pid = terminals[t].pid
  PROVE  Ending({}) \/ Aborting(t)
  <1>1. \A u \in Ids : sessions'[u].pid = sessions[u].pid /\ terminals'[u].pid = terminals[u].pid
    BY FailedStartType
  <1> QED BY <1>1, QuietEnding DEF FailedStart, Aborting

\* The processes of the sessions of S are signalled.
LEMMA SignalledEnding ==
  ASSUME TypeOK, NEW S,
         \A u \in Ids : /\ sessions'[u].pid = (IF u \in S THEN NoPid ELSE sessions[u].pid)
                        /\ terminals'[u].pid = (IF u \in S THEN NoPid ELSE terminals[u].pid),
         procs' = Signalled(SessionPids(S))
  PROVE  Ending(S)
  <1>1. LetGo(S, "signalled") BY SignalledSteps DEF TypeOK, LetGo
  <1> QED BY <1>1 DEF Ending

LEMMA NextProcesses ==
  ASSUME TypeOK, PidsMatch, RunningMatchesSession, [Next]_vars, RuntimeAssumption
  PROVE  \/ \E S \in SUBSET Ids : Ending(S)
         \/ \E p \in Pids : Exiting(p)
         \/ \E t \in Ids : Starting(t) \/ Aborting(t)
  <1> DEFINE Goal == \/ \E S \in SUBSET Ids : Ending(S)
                     \/ \E p \in Pids : Exiting(p)
                     \/ \E t \in Ids : Starting(t) \/ Aborting(t)
  <1>0. "stopped" \in LifecycleStates /\ "exited" \in LifecycleStates BY DEF LifecycleStates
  <1>1. ASSUME NEW t \in Ids, NEW k \in Requests, NEW par \in Ids \cup {NoId}, Create(t, k, par)
        PROVE  Goal
    <2> DEFINE fresh == Fresh(t, k, par)
    <2>1. fresh \in Record BY FreshType
    <2>2. ~Live(t) BY <1>1 DEF Create, Known, RunningMatchesSession
    <2>3. CASE StartWith(t, fresh, {}) BY <2>1, <2>2, <2>3, StartWithStarts
    <2>4. CASE terminals' = [terminals EXCEPT ![t] = fresh] /\ UNCHANGED <<sessions, procs>>
      <3>1. terminals'[t].pid = NoPid BY <2>4, FreshType DEF TypeOK
      <3>2. terminals[t].pid = NoPid BY <2>2 DEF PidsMatch, Live
      <3>3. \A u \in Ids : sessions'[u].pid = sessions[u].pid
                /\ terminals'[u].pid = terminals[u].pid
        BY <2>4, <3>1, <3>2 DEF TypeOK
      <3> QED BY <2>4, <3>3, QuietEnding
    <2>5. CASE FailedStart(t, fresh)
      <3>1. fresh.pid = terminals[t].pid BY <2>2, FreshType DEF PidsMatch, Live
      <3> QED BY <2>1, <2>5, <3>1, FailedStartQuiet
    <2> QED BY <1>1, <2>3, <2>4, <2>5 DEF Create
  <1>2. ASSUME NEW t \in Ids, ReopenSentiph(t)
        PROVE  Goal
    <2>1. CASE ~Live(t) /\ StartWith(t, terminals[t], {}) BY <2>1, StartWithStarts DEF TypeOK
    <2>2. CASE sessions' = [sessions EXCEPT ![t].idleTimer = FALSE]
              /\ UNCHANGED <<terminals, procs>>
      <3>1. \A u \in Ids : sessions'[u].pid = sessions[u].pid BY <2>2 DEF TypeOK, Session
      <3> QED BY <2>2, <3>1, QuietEnding
    <2> QED BY <1>2, <2>1, <2>2 DEF ReopenSentiph
  <1>3. ASSUME NEW c \in Sockets, NEW t \in Ids, Attach(c, t)
        PROVE  Goal
    <2>1. CASE ~Live(t) /\ StartWith(t, terminals[t], {c}) BY <2>1, StartWithStarts DEF TypeOK
    <2>2. CASE sessions' = [sessions EXCEPT ![t] = Join(@, c)] /\ UNCHANGED <<terminals, procs>>
      <3>1. \A u \in Ids : sessions'[u].pid = sessions[u].pid BY <2>2 DEF TypeOK, Session, Join
      <3> QED BY <2>2, <3>1, QuietEnding
    <2> QED BY <1>3, <2>1, <2>2 DEF Attach
  <1>4. ASSUME NEW t \in Ids, StartFails(t)
        PROVE  Goal
    BY <1>4, FailedStartQuiet DEF StartFails, TypeOK
  <1>5. ASSUME NEW c \in Sockets, Detach(c)
        PROVE  Goal
    <2>1. \A u \in Ids : sessions'[u].pid = sessions[u].pid
      BY <1>5 DEF Detach, TypeOK, Session, Leave
    <2> QED BY <1>5, <2>1, QuietEnding DEF Detach
  <1>6. ASSUME NEW t \in Ids, Stop(t)
        PROVE  Goal
    <2>1. \A u \in Ids : /\ sessions'[u].pid = (IF u \in {t} THEN NoPid ELSE sessions[u].pid)
                         /\ terminals'[u].pid = (IF u \in {t} THEN NoPid ELSE terminals[u].pid)
      BY <1>0, <1>6, TeardownPids DEF Stop
    <2>2. procs' = Signalled({sessions[t].pid}) BY <1>6 DEF Stop, PidsMatch
    <2>3. procs' = Signalled(SessionPids({t})) BY <2>2 DEF Signalled, SessionPids, Alive
    <2> QED BY <2>1, <2>3, SignalledEnding
  <1>7. ASSUME NEW t \in Ids, Kill(t)
        PROVE  Goal
    <2>1. \A u \in Ids : /\ sessions'[u].pid = (IF u \in {t} THEN NoPid ELSE sessions[u].pid)
                         /\ terminals'[u].pid = (IF u \in {t} THEN NoPid ELSE terminals[u].pid)
      BY <1>0, <1>7, TeardownPids DEF Kill
    <2>2. procs' = [q \in Pids |-> IF q = sessions[t].pid /\ Alive(q)
                                   THEN [procs[q] EXCEPT !.status = "dead"] ELSE procs[q]]
      BY <1>7 DEF Kill, PidsMatch
    <2>3. ASSUME NEW p \in Pids
          PROVE  /\ procs'[p].owner = procs[p].owner
                 /\ procs'[p].status = IF p \in SessionPids({t}) /\ Alive(p) THEN "dead"
                                       ELSE procs[p].status
      <3>1. procs[p] \in Process /\ p # NoPid BY DEF TypeOK, RuntimeAssumption
      <3>2. p \in SessionPids({t}) <=> p = sessions[t].pid BY <3>1 DEF SessionPids
      <3> QED BY <2>2, <3>1, <3>2 DEF Process
    <2>4. Ending({t}) BY <2>1, <2>3 DEF Ending, LetGo
    <2> QED BY <2>4
  <1>8. ASSUME Prune
        PROVE  Goal
    <2>1. \A u \in Ids : Prunable(u) => terminals[u].pid = NoPid BY DEF Prunable, PidsMatch, Live
    <2>2. \A u \in Ids : terminals'[u].pid = terminals[u].pid BY <1>8, <2>1 DEF Prune, NoTerminal
    <2> QED BY <1>8, <2>2, QuietEnding DEF Prune
  <1>9. ASSUME NEW t \in Ids, Delete(t)
        PROVE  Goal
    <2>1. Cascade(t) \in SUBSET Ids BY DEF Cascade, KnownIds
    <2>2. Ending(Cascade(t)) BY <1>9, SignalledEnding DEF Delete, NoTerminal, NoSession
    <2> QED BY <2>1, <2>2
  <1>10. ASSUME NEW t \in Ids, NEW f \in Ids, DeleteFails(t, f)
         PROVE  Goal
    <2> PICK D \in SUBSET (Cascade(t) \ {f}) :
          /\ terminals' = [x \in Ids |-> IF x \in D THEN NoTerminal
                                       ELSE IF x = f /\ Live(f) THEN Ended(terminals[f], "stopped")
                                       ELSE terminals[x]]
          /\ sessions' = [x \in Ids |-> IF x \in D \cup {f} THEN NoSession ELSE sessions[x]]
          /\ procs' = Signalled(SessionPids(D \cup {f}))
      BY <1>10 DEF DeleteFails
    <2>1. D \cup {f} \in SUBSET Ids BY DEF Cascade, KnownIds
    <2>2. \A u \in Ids : sessions'[u].pid = (IF u \in D \cup {f} THEN NoPid ELSE sessions[u].pid)
      BY DEF NoSession
    <2>3. ASSUME NEW u \in Ids
          PROVE  terminals'[u].pid = (IF u \in D \cup {f} THEN NoPid ELSE terminals[u].pid)
      <3>1. CASE u \in D BY <3>1 DEF NoTerminal
      <3>2. CASE u \notin D /\ u = f /\ Live(f)
        <4>1. terminals[f].state = "none" => terminals[f].pid = NoPid
          BY <3>2 DEF RunningMatchesSession
        <4>2. Ended(terminals[f], "stopped").pid = NoPid BY <1>0, <4>1, EndedPid DEF TypeOK
        <4> QED BY <3>2, <4>2
      <3>3. CASE u \notin D /\ u = f /\ ~Live(f) BY <3>3 DEF PidsMatch, Live
      <3>4. CASE u \notin D /\ u # f BY <3>4
      <3> QED BY <3>1, <3>2, <3>3, <3>4
    <2>4. Ending(D \cup {f}) BY <2>2, <2>3, SignalledEnding
    <2> QED BY <2>1, <2>4
  <1>11. ASSUME NEW t \in Ids, IdleExpire(t)
         PROVE  Goal
    <2>1. \A u \in Ids : /\ sessions'[u].pid = (IF u \in {t} THEN NoPid ELSE sessions[u].pid)
                         /\ terminals'[u].pid = (IF u \in {t} THEN NoPid ELSE terminals[u].pid)
      BY <1>0, <1>11, TeardownPids DEF IdleExpire
    <2>2. procs' = Signalled(SessionPids({t}))
      BY <1>11 DEF IdleExpire, Signalled, SessionPids, Alive
    <2> QED BY <2>1, <2>2, SignalledEnding
  <1>12. ASSUME NEW p \in Pids, ProcessExits(p)
         PROVE  Goal
    BY <1>12 DEF ProcessExits, Exiting
  <1>13. ASSUME NEW t \in Ids, PtyExit(t)
         PROVE  Goal
    <2>1. \A u \in Ids : /\ sessions'[u].pid = (IF u \in {t} THEN NoPid ELSE sessions[u].pid)
                         /\ terminals'[u].pid = (IF u \in {t} THEN NoPid ELSE terminals[u].pid)
      BY <1>0, <1>13, TeardownPids DEF PtyExit
    <2>2. LetGo({t}, "dead") BY <1>13 DEF PtyExit, LetGo, SessionPids, Alive
    <2> QED BY <2>1, <2>2 DEF Ending
  <1>14. CASE UNCHANGED vars BY <1>14, QuietEnding DEF vars
  <1> QED
    BY <1>1, <1>2, <1>3, <1>4, <1>5, <1>6, <1>7, <1>8, <1>9, <1>10, <1>11, <1>12,
       <1>13, <1>14 DEF Next

-----------------------------------------------------------------------------
(* Sessions and processes. *)

OwnInv == PidsMatch /\ SessionsOwnTheirProcess

\* What SessionsOwnTheirProcess says of one terminal.
Owns(t) == Live(t) => procs[sessions[t].pid].owner = t
                      /\ procs[sessions[t].pid].status \in {"alive", "dead"}

LEMMA OneOwner ==
  ASSUME TypeOK, SessionsOwnTheirProcess, NEW t \in Ids, NEW u \in Ids, Live(t), t # u
  PROVE  sessions[t].pid \in Pids /\ sessions[t].pid # sessions[u].pid
  <1>1. sessions[t].pid \in Pids BY DEF Live, TypeOK, Session
  <1> QED BY <1>1 DEF SessionsOwnTheirProcess, LiveIds, Live

LEMMA EndingOwns ==
  ASSUME TypeOK, OwnInv, NEW S \in SUBSET Ids, Ending(S)
  PROVE  OwnInv'
  <1>1. PidsMatch' BY DEF Ending, PidsMatch, OwnInv
  <1>2. ASSUME NEW t \in Ids PROVE Owns(t)'
    <2>1. CASE t \in S BY <2>1 DEF Ending, Owns, Live
    <2>2. CASE t \notin S /\ Live(t)
      <3> DEFINE p == sessions[t].pid
      <3>1. p \in Pids /\ p \notin SessionPids(S)
        <4>1. p \in Pids BY <2>2 DEF Live, TypeOK, Session
        <4>2. \A u \in S : p # sessions[u].pid BY <2>2, OneOwner DEF OwnInv
        <4> QED BY <4>1, <4>2 DEF SessionPids
      <3>2. procs[p].owner = t /\ procs[p].status \in {"alive", "dead"}
        BY <2>2 DEF OwnInv, SessionsOwnTheirProcess, LiveIds
      <3>3. sessions'[t].pid = p BY <2>2 DEF Ending
      <3>4. procs'[p].owner = t /\ procs'[p].status \in {"alive", "dead"}
        BY <3>1, <3>2 DEF Ending, LetGo
      <3> QED BY <3>3, <3>4 DEF Owns
    <2>3. CASE t \notin S /\ ~Live(t) BY <2>3 DEF Ending, Owns, Live
    <2> QED BY <2>1, <2>2, <2>3
  <1> QED BY <1>1, <1>2 DEF OwnInv, SessionsOwnTheirProcess, LiveIds, Owns

LEMMA ExitingOwns ==
  ASSUME TypeOK, OwnInv, NEW p \in Pids, Exiting(p)
  PROVE  OwnInv'
  <1>1. PidsMatch' BY DEF Exiting, PidsMatch, OwnInv
  <1>2. \A q \in Pids : procs'[q].owner = procs[q].owner
                        /\ procs'[q].status \in {procs[q].status, "dead"}
    BY DEF Exiting, TypeOK, Process
  <1>3. \A t \in Ids : Live(t) => sessions[t].pid \in Pids BY DEF Live, TypeOK, Session
  <1> QED BY <1>1, <1>2, <1>3 DEF Exiting, OwnInv, SessionsOwnTheirProcess, LiveIds, Live

\* A spawn disturbs no session: it takes an unused process.
LEMMA SpawnSpares ==
  ASSUME TypeOK, OwnInv, NEW t \in Ids, NEW p \in Pids, Unused(p),
         procs' = [procs EXCEPT ![p] = Spawned(t)], NEW u \in Ids, Live(u)
  PROVE  sessions[u].pid # p /\ procs'[sessions[u].pid] = procs[sessions[u].pid]
  <1>1. sessions[u].pid # p BY DEF OwnInv, SessionsOwnTheirProcess, LiveIds, Unused
  <1> QED BY <1>1 DEF TypeOK

LEMMA StartingOwns ==
  ASSUME TypeOK, OwnInv, NEW t \in Ids, Starting(t)
  PROVE  OwnInv'
  <1> PICK p \in Pids : /\ Unused(p) /\ procs' = [procs EXCEPT ![p] = Spawned(t)]
                        /\ sessions'[t].pid = p /\ terminals'[t].pid = p
    BY DEF Starting
  <1>1. PidsMatch' BY DEF Starting, PidsMatch, OwnInv
  <1>2. ASSUME NEW u \in Ids PROVE Owns(u)'
    <2>1. CASE u = t
      <3>1. procs'[p] = Spawned(t) BY DEF TypeOK
      <3> QED BY <2>1, <3>1 DEF Owns, Spawned
    <2>2. CASE u # t /\ Live(u)
      <3>1. sessions'[u].pid = sessions[u].pid BY <2>2 DEF Starting
      <3>2. procs'[sessions[u].pid] = procs[sessions[u].pid] BY <2>2, SpawnSpares
      <3> QED BY <2>2, <3>1, <3>2 DEF Owns, OwnInv, SessionsOwnTheirProcess, LiveIds
    <2>3. CASE u # t /\ ~Live(u) BY <2>3 DEF Starting, Owns, Live
    <2> QED BY <2>1, <2>2, <2>3
  <1> QED BY <1>1, <1>2 DEF OwnInv, SessionsOwnTheirProcess, LiveIds, Owns

LEMMA AbortingOwns ==
  ASSUME TypeOK, OwnInv, NEW t \in Ids, Aborting(t)
  PROVE  OwnInv'
  <1> PICK p \in Pids : Unused(p) /\ procs' = [procs EXCEPT ![p] = Spawned(t)]
    BY DEF Aborting
  <1>1. PidsMatch' BY DEF Aborting, PidsMatch, OwnInv
  <1>2. ASSUME NEW u \in Ids PROVE Owns(u)'
    <2>1. CASE Live(u)
      <3>1. procs'[sessions[u].pid] = procs[sessions[u].pid] BY <2>1, SpawnSpares
      <3> QED BY <2>1, <3>1 DEF Aborting, Owns, OwnInv, SessionsOwnTheirProcess, LiveIds
    <2>2. CASE ~Live(u) BY <2>2 DEF Aborting, Owns, Live
    <2> QED BY <2>1, <2>2
  <1> QED BY <1>1, <1>2 DEF OwnInv, SessionsOwnTheirProcess, LiveIds, Owns

LEMMA NextOwns ==
  ASSUME TypeOK, OwnInv, RunningMatchesSession, [Next]_vars, RuntimeAssumption
  PROVE  OwnInv'
  <1>1. \/ \E S \in SUBSET Ids : Ending(S)
        \/ \E p \in Pids : Exiting(p)
        \/ \E t \in Ids : Starting(t) \/ Aborting(t)
    BY NextProcesses DEF OwnInv
  <1> QED BY <1>1, EndingOwns, ExitingOwns, StartingOwns, AbortingOwns

LEMMA NextLeaks ==
  ASSUME ~LogMayFail, TypeOK, OwnInv, NoLeakedProcess, RunningMatchesSession, [Next]_vars,
         RuntimeAssumption
  PROVE  NoLeakedProcess'
  <1>1. ASSUME NEW S \in SUBSET Ids, Ending(S), NEW p \in Pids, procs'[p].status = "alive"
        PROVE  \E t \in Ids : sessions'[t].pid = p
    <2>1. p \notin SessionPids(S) /\ procs[p].status = "alive"
      BY <1>1 DEF Ending, LetGo, Alive, RuntimeAssumption
    <2>2. PICK t \in Ids : sessions[t].pid = p BY <2>1 DEF NoLeakedProcess
    <2>3. t \notin S BY <2>1, <2>2 DEF SessionPids, RuntimeAssumption
    <2> QED BY <1>1, <2>2, <2>3 DEF Ending
  <1>2. ASSUME NEW t \in Ids, Starting(t), NEW q \in Pids, procs'[q].status = "alive"
        PROVE  \E u \in Ids : sessions'[u].pid = q
    <2> PICK p \in Pids : /\ Unused(p) /\ procs' = [procs EXCEPT ![p] = Spawned(t)]
                          /\ sessions'[t].pid = p
      BY <1>2 DEF Starting
    <2>1. CASE q = p BY <2>1
    <2>2. CASE q # p
      <3>1. procs[q].status = "alive" BY <1>2, <2>2 DEF TypeOK
      <3>2. PICK u \in Ids : sessions[u].pid = q BY <3>1 DEF NoLeakedProcess
      <3>3. u # t BY <1>2, <3>2 DEF Starting, Live, RuntimeAssumption
      <3> QED BY <1>2, <3>2, <3>3 DEF Starting
    <2> QED BY <2>1, <2>2
  <1>3. \/ \E S \in SUBSET Ids : Ending(S)
        \/ \E p \in Pids : Exiting(p)
        \/ \E t \in Ids : Starting(t)
    BY NextProcesses DEF OwnInv, Aborting
  <1>4. ASSUME NEW q \in Pids, Exiting(q), NEW p \in Pids, procs'[p].status = "alive"
        PROVE  \E t \in Ids : sessions'[t].pid = p
    BY <1>4 DEF Exiting, TypeOK, Process, NoLeakedProcess
  <1> QED BY <1>1, <1>2, <1>3, <1>4 DEF NoLeakedProcess

LEMMA InitOwns == Init => OwnInv /\ NoLeakedProcess
  BY DEF Init, OwnInv, PidsMatch, SessionsOwnTheirProcess, NoLeakedProcess, LiveIds, Live,
         NoTerminal, NoSession

LEMMA ProcessesOwned == Spec => [](TypeOK /\ RunningMatchesSession /\ OwnInv)
  <1>1. RuntimeAssumption BY RuntimeAssumption
  <1>2. TypeOK /\ RunningMatchesSession /\ OwnInv /\ [Next]_vars => OwnInv' BY <1>1, NextOwns
  <1> QED BY <1>1, <1>2, InitOwns, TypeCorrect, RegistryMatchesSessions, PTL DEF Spec

\* As long as the PTY log can be opened, sessions and processes account for each
\* other under every interleaving of stops, kills, deletions, idle timers, exits
\* and restarts: within the limit, each its own process, and none left behind.
THEOREM ProcessesHaveSessions ==
  ASSUME ~LogMayFail
  PROVE  Spec => []ProcessesAccountedFor
  <1>1. RuntimeAssumption BY RuntimeAssumption
  <1>2. TypeOK /\ RunningMatchesSession /\ OwnInv /\ NoLeakedProcess /\ [Next]_vars
            => NoLeakedProcess'
    BY <1>1, NextLeaks
  <1>3. CapacityRespected /\ OwnInv /\ NoLeakedProcess => ProcessesAccountedFor
    BY DEF OwnInv, ProcessesAccountedFor
  <1> QED BY <1>2, <1>3, InitOwns, ProcessesOwned, CapacityHolds, PTL DEF Spec

-----------------------------------------------------------------------------
(* The pool of processes. *)

Driven == [t \in Ids |-> sessions[t].pid]
Statuses == [p \in Pids |-> procs[p].status]

LEMMA RoomInPool == HasCapacity => Pool!HasRoom
  <1>1. Pool!Drivers = LiveIds BY DEF Pool!Drivers, LiveIds, Live
  <1>2. \A S : Pool!Cardinality(S) = Cardinality(S) BY Zenon DEF Pool!Cardinality, Cardinality
  <1> QED BY <1>1, <1>2, Zenon DEF HasCapacity, Pool!HasRoom

LEMMA StartingPools ==
  ASSUME TypeOK, NEW t \in Ids, Starting(t)
  PROVE  \E p \in Pids : Pool!Start(t, p)
  <1> PICK p \in Pids : /\ Unused(p) /\ procs' = [procs EXCEPT ![p] = Spawned(t)]
                        /\ sessions'[t].pid = p
    BY DEF Starting
  <1>1. Driven' = [Driven EXCEPT ![t] = p] BY DEF Starting, Driven
  <1>2. Statuses' = [Statuses EXCEPT ![p] = "alive"] BY DEF TypeOK, Process, Spawned, Statuses
  <1>3. Driven[t] = NoPid /\ Statuses[p] = "unused"
    BY DEF Starting, Live, Unused, Driven, Statuses
  <1>4. Pool!HasRoom BY RoomInPool DEF Starting
  <1> QED BY <1>1, <1>2, <1>3, <1>4 DEF Pool!Start, Driven, Statuses

LEMMA AbortingPools ==
  ASSUME TypeOK, NEW t \in Ids, Aborting(t)
  PROVE  \E p \in Pids : Pool!StartFails(p)
  <1> PICK p \in Pids : Unused(p) /\ procs' = [procs EXCEPT ![p] = Spawned(t)]
    BY DEF Aborting
  <1>1. Driven' = Driven BY DEF Aborting, Driven
  <1>2. Statuses' = [Statuses EXCEPT ![p] = "alive"] BY DEF TypeOK, Process, Spawned, Statuses
  <1>3. Statuses[p] = "unused" BY DEF Unused, Statuses
  <1>4. Pool!HasRoom /\ LogMayFail BY RoomInPool DEF Aborting
  <1> QED BY <1>1, <1>2, <1>3, <1>4 DEF Pool!StartFails, Driven, Statuses

LEMMA ExitingPools ==
  ASSUME TypeOK, NEW p \in Pids, Exiting(p)
  PROVE  Pool!Exit(p)
  <1>1. Driven' = Driven BY DEF Exiting, Driven
  <1>2. Statuses' = [Statuses EXCEPT ![p] = "dead"] BY DEF Exiting, TypeOK, Process, Statuses
  <1>3. Statuses[p] \in {"alive", "signalled"} BY DEF Exiting, Alive, Statuses
  <1> QED BY <1>1, <1>2, <1>3 DEF Pool!Exit, Driven, Statuses

\* A process that is driven was started, so it is alive unless it has exited.
LEMMA EndingPools ==
  ASSUME TypeOK, OwnInv, RuntimeAssumption, NEW S \in SUBSET Ids, Ending(S)
  PROVE  \/ \E U \in SUBSET Pool!Drivers : Pool!Stop(U)
         \/ UNCHANGED <<Driven, Statuses>>
  <1> PICK U : U = {u \in S : Live(u)} OBVIOUS
  <1>0. U \in SUBSET Pool!Drivers BY DEF Pool!Drivers, Live
  <1> PICK how \in {"signalled", "dead"} : LetGo(S, how) BY DEF Ending
  <1>1. Driven' = [u \in Ids |-> IF u \in U THEN NoPid ELSE Driven[u]]
    BY DEF Ending, Driven, Live
  <1>2. ASSUME NEW p \in Pids
        PROVE  Statuses'[p] = IF Statuses[p] # "dead" /\ \E u \in U : Driven[u] = p
                              THEN how ELSE Statuses[p]
    <2>1. p \in SessionPids(S) <=> \E u \in U : Driven[u] = p
      BY DEF SessionPids, Driven, Live, RuntimeAssumption
    <2>2. p \in SessionPids(S) => procs[p].status \in {"alive", "dead"}
      BY <2>1 DEF Driven, OwnInv, SessionsOwnTheirProcess, LiveIds, Live, RuntimeAssumption
    <2>3. p # NoPid BY DEF RuntimeAssumption
    <2> QED BY <2>1, <2>2, <2>3 DEF LetGo, Alive, Statuses
  <1>3. Statuses' = [p \in Pids |-> IF Statuses[p] # "dead" /\ \E u \in U : Driven[u] = p
                                    THEN how ELSE Statuses[p]]
    BY <1>2 DEF Statuses
  <1>4. CASE U # {}
    <2>1. Pool!Stop(U) BY <1>1, <1>3, <1>4, Zenon DEF Pool!Stop, Driven, Statuses
    <2> QED BY <1>0, <2>1
  <1>5. CASE U = {}
    <2>1. Driven' = Driven BY <1>1, <1>5 DEF Driven
    <2>2. Statuses' = Statuses BY <1>3, <1>5 DEF Statuses
    <2> QED BY <2>1, <2>2
  <1> QED BY <1>4, <1>5

\* Sessions and processes are a pool, also when the PTY log cannot be opened: the
\* handlers, timers and events of the runtime come to starts, failed starts, ends
\* and exits of workers, or leave the pool alone.
THEOREM RuntimeIsProcessPool == Spec => ProcessesArePooled
  <1>1. RuntimeAssumption BY RuntimeAssumption
  <1>2. Init => Pool!PoolInit
    <2>1. Init => Driven = [t \in Ids |-> NoPid] BY DEF Init, Driven, NoSession
    <2>2. Init => Statuses = [p \in Pids |-> "unused"] BY DEF Init, Statuses
    <2> QED BY <2>1, <2>2, Zenon DEF Pool!PoolInit, Driven, Statuses
  <1>3. TypeOK /\ RunningMatchesSession /\ OwnInv /\ [Next]_vars
            => [Pool!PoolNext]_<<Driven, Statuses>>
    <2> SUFFICES ASSUME TypeOK, RunningMatchesSession, OwnInv, [Next]_vars
                 PROVE  Pool!PoolNext \/ UNCHANGED <<Driven, Statuses>>
      OBVIOUS
    <2> QED
      BY <1>1, NextProcesses, EndingPools, ExitingPools, StartingPools, AbortingPools
      DEF OwnInv, Pool!PoolNext
  <1>4. TypeOK /\ RunningMatchesSession /\ OwnInv /\ [Next]_vars
            => [Pool!PoolNext]_Pool!poolVars
    BY <1>3 DEF Pool!poolVars, Driven, Statuses
  <1> QED
    BY <1>2, <1>4, ProcessesOwned, PTL DEF Spec, ProcessesArePooled, Pool!PoolSpec

-----------------------------------------------------------------------------
(* Sessions and sockets. *)

\* A socket names a process that was started: no session to come can get it.
SocketsWereServed == \A c \in Sockets : sockets[c] # NoPid => ~Unused(sockets[c])

\* A session is kept alive because of what its terminal is.
KeptByKind == \A t \in Ids : Live(t) => sessions[t].keepAlive = KeepsAlive(t, terminals[t])

SocketInv == ClientsMatchSockets /\ SocketsWereServed /\ KeptByKind /\ UnattendedIsTimed

\* What SocketInv says of one terminal.
Attends(t) ==
    /\ \A c \in Sockets : c \in sessions[t].clients <=> Live(t) /\ sockets[c] = sessions[t].pid
    /\ Live(t) => sessions[t].keepAlive = KeepsAlive(t, terminals[t])
    /\ Unattended(t) => sessions[t].idleTimer

LEMMA AttendsAll ==
  SocketInv <=> SocketsWereServed /\ \A t \in Ids : Attends(t)
  BY DEF SocketInv, ClientsMatchSockets, KeptByKind, UnattendedIsTimed, Attends

\* Nothing that a process goes through makes it unused again.
LEMMA NeverUnusedAgain ==
  ASSUME TypeOK, OwnInv, RunningMatchesSession, [Next]_vars, RuntimeAssumption,
         NEW p \in Pids, ~Unused(p)
  PROVE  procs'[p].status # "unused"
  <1>1. CASE \E S \in SUBSET Ids : Ending(S)
    BY <1>1 DEF Ending, LetGo, Unused
  <1>2. CASE \E t \in Ids : Starting(t) \/ Aborting(t)
    BY <1>2 DEF Starting, Aborting, Spawned, Unused, TypeOK
  <1>3. CASE \E q \in Pids : Exiting(q)
    BY <1>3 DEF Exiting, Unused, TypeOK, Process
  <1> QED BY <1>1, <1>2, <1>3, NextProcesses DEF OwnInv

\* A terminal whose session, sockets and kind stay as they are, or that has no
\* session any more.
Untouched(u) ==
    \/ sessions'[u] = NoSession
    \/ sessions'[u] = sessions[u] /\ (Live(u) => terminals'[u] = terminals[u])

LEMMA UntouchedAttends ==
  ASSUME TypeOK, NEW u \in Ids, Attends(u), Untouched(u), UNCHANGED sockets
  PROVE  Attends(u)'
  <1>1. CASE sessions'[u] = NoSession BY <1>1 DEF Attends, NoSession, Live, Unattended
  <1>2. CASE sessions'[u] = sessions[u] /\ Live(u) /\ terminals'[u] = terminals[u]
    BY <1>2 DEF Attends, Live, Unattended
  <1>3. CASE sessions'[u] = sessions[u] /\ ~Live(u)
    BY <1>3 DEF Attends, Live, Unattended
  <1> QED BY <1>1, <1>2, <1>3 DEF Untouched

\* A session starts, attended by C or kept alive for itself, or Sentiph's in a
\* worktree.
LEMMA StartWithAttends ==
  ASSUME TypeOK, OwnInv, SocketInv, RuntimeAssumption,
         NEW t \in Ids, NEW r \in Record, NEW C \in SUBSET Sockets, StartWith(t, r, C),
         \A c \in C : sockets[c] = NoPid,
         C # {} \/ r.prompt \/ r.sentiph
  PROVE  \A u \in Ids : Attends(u)'
  <1> PICK p \in Pids, id \in PlannedIds(r) :
        /\ Unused(p)
        /\ terminals' = [terminals EXCEPT ![t] = Running(WithId(r, id), p)]
        /\ sessions' = [sessions EXCEPT ![t] = NewSession(t, r, p, C)]
        /\ sockets' = [c \in Sockets |-> IF c \in C THEN p ELSE sockets[c]]
        /\ procs' = [procs EXCEPT ![p] = Spawned(t)]
    BY DEF StartWith
  <1>0. p # NoPid BY DEF RuntimeAssumption
  <1>1. Attends(t)'
    <2>1. /\ sessions'[t] = NewSession(t, r, p, C)
          /\ terminals'[t] = Running(WithId(r, id), p)
      BY DEF TypeOK
    <2>2. /\ sessions'[t].pid = p /\ sessions'[t].clients = C
          /\ sessions'[t].keepAlive = KeepsAlive(t, r)
      BY <2>1 DEF NewSession
    <2>3. /\ terminals'[t].prompt = r.prompt /\ terminals'[t].sentiph = r.sentiph
          /\ terminals'[t].worktree = r.worktree
      BY <2>1, PlannedType, RunningType
    <2>4. \A c \in Sockets : sockets[c] # p BY <1>0 DEF SocketInv, SocketsWereServed
    <2>5. \A c \in Sockets : c \in C <=> sockets'[c] = p BY <2>4
    <2>6. KeepsAlive(t, terminals[t])' = KeepsAlive(t, r) BY <2>3 DEF KeepsAlive
    <2>7. ~Unattended(t)' BY <2>2, <2>3 DEF Unattended, KeepsAlive, Record
    <2> QED BY <1>0, <2>2, <2>5, <2>6, <2>7 DEF Attends, Live
  <1>2. ASSUME NEW u \in Ids \ {t} PROVE Attends(u)'
    <2>1. sessions'[u] = sessions[u] /\ terminals'[u] = terminals[u] BY DEF TypeOK
    <2>2. Attends(u) BY AttendsAll
    <2>3. CASE ~Live(u) BY <2>1, <2>2, <2>3 DEF Attends, Live, Unattended
    <2>4. CASE Live(u)
      <3>1. sessions[u].pid # p BY <2>4, SpawnSpares
      <3>2. \A c \in Sockets : c \in sessions[u].clients <=> sockets'[c] = sessions[u].pid
        BY <2>2, <2>4, <3>1 DEF Attends, Live
      <3> QED BY <2>1, <2>2, <2>4, <3>2 DEF Attends, Live, Unattended, KeepsAlive
    <2> QED BY <2>3, <2>4
  <1> QED BY <1>1, <1>2

LEMMA JoinAttends ==
  ASSUME TypeOK, OwnInv, SocketInv, NEW c \in Sockets, NEW t \in Ids, Live(t), sockets[c] = NoPid,
         sessions' = [sessions EXCEPT ![t] = Join(@, c)],
         sockets' = [sockets EXCEPT ![c] = sessions[t].pid], UNCHANGED terminals
  PROVE  \A u \in Ids : Attends(u)'
  <1>1. Attends(t)'
    <2>1. sessions'[t] = Join(sessions[t], c) /\ sessions[t] \in Session BY DEF TypeOK
    <2>2. /\ sessions'[t].pid = sessions[t].pid
          /\ sessions'[t].clients = sessions[t].clients \cup {c}
          /\ sessions'[t].keepAlive = sessions[t].keepAlive
      BY <2>1 DEF Join, Session
    <2>3. \A d \in Sockets : d \in sessions'[t].clients <=> sockets'[d] = sessions[t].pid
      BY <2>2 DEF SocketInv, ClientsMatchSockets, TypeOK
    <2> QED BY <2>2, <2>3 DEF Attends, Live, Unattended, SocketInv, KeptByKind, KeepsAlive
  <1>2. ASSUME NEW u \in Ids \ {t} PROVE Attends(u)'
    <2>1. sessions'[u] = sessions[u] BY DEF TypeOK
    <2>2. Attends(u) BY AttendsAll
    <2>3. Live(u) => sessions[u].pid # sessions[t].pid BY OneOwner DEF OwnInv
    <2>4. \A d \in Sockets : (Live(u) /\ sockets[d] = sessions[u].pid)
                               <=> (Live(u) /\ sockets'[d] = sessions[u].pid)
      BY <2>3 DEF Live, TypeOK
    <2> QED BY <2>1, <2>2, <2>4 DEF Attends, Live, Unattended
  <1> QED BY <1>1, <1>2

LEMMA DetachAttends ==
  ASSUME TypeOK, SocketInv, NEW c \in Sockets, Detach(c)
  PROVE  \A u \in Ids : Attends(u)'
  <1> SUFFICES ASSUME NEW u \in Ids PROVE Attends(u)' OBVIOUS
  <1>0. Attends(u) /\ sessions[u] \in Session BY AttendsAll DEF TypeOK
  <1>1. \A d \in Sockets : sockets'[d] = IF d = c THEN NoPid ELSE sockets[d]
    BY DEF Detach, TypeOK
  <1>2. CASE Live(u) /\ sessions[u].pid = sockets[c]
    <2>1. sessions'[u] = Leave(sessions[u], c) BY <1>2 DEF Detach
    <2>2. /\ sessions'[u].pid = sessions[u].pid /\ sessions'[u].clients = sessions[u].clients \ {c}
          /\ sessions'[u].keepAlive = sessions[u].keepAlive
          /\ sessions'[u].clients = {} /\ ~sessions[u].keepAlive => sessions'[u].idleTimer
      BY <1>0, <2>1 DEF Leave, Session
    <2>3. \A d \in Sockets : d \in sessions'[u].clients <=> Live(u) /\ sockets'[d] = sessions[u].pid
      BY <1>0, <1>1, <1>2, <2>2 DEF Attends, Live
    <2> QED BY <1>0, <1>2, <2>2, <2>3 DEF Attends, Live, Unattended, KeepsAlive, Detach
  <1>3. CASE ~(Live(u) /\ sessions[u].pid = sockets[c])
    <2>1. sessions'[u] = sessions[u] BY <1>3 DEF Detach
    <2>2. \A d \in Sockets : (Live(u) /\ sockets[d] = sessions[u].pid)
                               <=> (Live(u) /\ sockets'[d] = sessions[u].pid)
      BY <1>1, <1>3 DEF Live
    <2> QED BY <1>0, <2>1, <2>2 DEF Attends, Live, Unattended, KeepsAlive, Detach
  <1> QED BY <1>2, <1>3

LEMMA NextAttends ==
  ASSUME TypeOK, RunningMatchesSession, OwnInv, SocketInv, [Next]_vars, RuntimeAssumption
  PROVE  \A u \in Ids : Attends(u)'
  <1> DEFINE Goal == \A u \in Ids : Attends(u)'
  <1>0. ASSUME \A u \in Ids : Untouched(u), UNCHANGED sockets
        PROVE  Goal
    BY <1>0, AttendsAll, UntouchedAttends
  <1>1. ASSUME NEW t \in Ids, NEW k \in Requests, NEW par \in Ids \cup {NoId}, Create(t, k, par)
        PROVE  Goal
    <2> DEFINE fresh == Fresh(t, k, par)
    <2>1. fresh \in Record BY FreshType
    <2>2. CASE (k.prompt \/ fresh.sentiph) /\ StartWith(t, fresh, {})
      BY <2>1, <2>2, FreshType, StartWithAttends
    <2>3. CASE terminals' = [terminals EXCEPT ![t] = fresh] /\ UNCHANGED <<sessions, sockets>>
      <3>1. ~Live(t) BY <1>1 DEF Create, Known, RunningMatchesSession
      <3> QED BY <1>0, <2>3, <3>1 DEF Untouched, TypeOK
    <2>4. CASE FailedStart(t, fresh)
      <3>1. ~Live(t) BY <1>1 DEF Create, Known, RunningMatchesSession
      <3> QED BY <1>0, <2>1, <2>4, <3>1, FailedStartType DEF Untouched
    <2> QED BY <1>1, <2>2, <2>3, <2>4 DEF Create
  <1>2. ASSUME NEW t \in Ids, ReopenSentiph(t)
        PROVE  Goal
    <2>1. CASE StartWith(t, terminals[t], {})
      BY <1>2, <2>1, StartWithAttends DEF ReopenSentiph, TypeOK
    <2>2. CASE sessions' = [sessions EXCEPT ![t].idleTimer = FALSE]
              /\ UNCHANGED <<terminals, sockets>>
      <3>1. ASSUME NEW u \in Ids \ {t} PROVE Attends(u)'
        BY <2>2, AttendsAll, UntouchedAttends DEF Untouched, TypeOK
      <3>2. /\ sessions'[t].pid = sessions[t].pid /\ sessions'[t].clients = sessions[t].clients
            /\ sessions'[t].keepAlive = sessions[t].keepAlive
        BY <2>2 DEF TypeOK, Session
      <3>3. ~Unattended(t)'
        BY <1>2, <2>2, <3>2 DEF Unattended, ReopenSentiph, Live, SocketInv, KeptByKind, KeepsAlive
      <3>4. Attends(t)' BY <2>2, <3>2, <3>3, AttendsAll DEF Attends, Live, KeepsAlive
      <3> QED BY <3>1, <3>4
    <2> QED BY <1>2, <2>1, <2>2 DEF ReopenSentiph
  <1>3. ASSUME NEW c \in Sockets, NEW t \in Ids, Attach(c, t)
        PROVE  Goal
    <2>1. CASE StartWith(t, terminals[t], {c})
      <3>1. terminals[t] \in Record /\ {c} \in SUBSET Sockets /\ {c} # {} BY DEF TypeOK
      <3>2. \A d \in {c} : sockets[d] = NoPid BY <1>3 DEF Attach
      <3> QED BY <2>1, <3>1, <3>2, StartWithAttends
    <2>2. CASE ~StartWith(t, terminals[t], {c}) BY <1>3, <2>2, JoinAttends DEF Attach
    <2> QED BY <2>1, <2>2
  <1>4. ASSUME NEW c \in Sockets, Detach(c)
        PROVE  Goal
    BY <1>4, DetachAttends
  <1>5. ASSUME NEW t \in Ids, NEW how, Teardown(t, how)
        PROVE  Goal
    BY <1>0, <1>5 DEF Teardown, Untouched, TypeOK
  <1>6. ASSUME Prune
        PROVE  Goal
    BY <1>0, <1>6 DEF Prune, Prunable, Untouched
  <1>7. ASSUME NEW t \in Ids, NEW f \in Ids, Delete(t) \/ DeleteFails(t, f)
        PROVE  Goal
    <2>1. CASE Delete(t) BY <1>0, <2>1 DEF Delete, Untouched
    <2>2. CASE DeleteFails(t, f)
      <3>1. \A u \in Ids : Untouched(u) BY <2>2 DEF DeleteFails, Untouched
      <3> QED BY <1>0, <2>2, <3>1 DEF DeleteFails
    <2> QED BY <1>7, <2>1, <2>2
  <1>8. CASE UNCHANGED <<terminals, sessions, sockets>> BY <1>0, <1>8 DEF Untouched
  <1>9. ASSUME NEW t \in Ids, StartFails(t)
        PROVE  Goal
    <2>1. FailedStart(t, terminals[t]) /\ ~Live(t) /\ terminals[t] \in Record
      BY <1>9 DEF StartFails, TypeOK
    <2> QED BY <1>0, <2>1, FailedStartType DEF Untouched
  <1> QED
    BY <1>1, <1>2, <1>3, <1>4, <1>5, <1>6, <1>7, <1>8, <1>9
    DEF Next, Stop, Kill, IdleExpire, PtyExit, ProcessExits, vars

LEMMA NextServed ==
  ASSUME TypeOK, RunningMatchesSession, OwnInv, SocketsWereServed, [Next]_vars, RuntimeAssumption
  PROVE  SocketsWereServed'
  <1> DEFINE Served(p) == p # NoPid => procs'[p].status # "unused"
  <1>0. SocketsWereServed' <=> \A c \in Sockets : Served(sockets'[c])
    BY DEF SocketsWereServed, Unused
  <1>1. ASSUME NEW c \in Sockets, sockets'[c] \in {sockets[c], NoPid}
        PROVE  Served(sockets'[c])
    <2>1. CASE sockets[c] = NoPid BY <1>1, <2>1
    <2>2. CASE sockets[c] # NoPid
      <3>1. sockets[c] \in Pids /\ ~Unused(sockets[c]) BY <2>2 DEF SocketsWereServed, TypeOK
      <3>2. procs'[sockets[c]].status # "unused" BY <3>1, NeverUnusedAgain DEF Unused
      <3> QED BY <1>1, <3>2
    <2> QED BY <2>1, <2>2
  <1> HIDE DEF Served
  <1>2. ASSUME NEW t \in Ids, NEW r, NEW C, StartWith(t, r, C)
        PROVE  SocketsWereServed'
    <2> PICK p \in Pids : /\ sockets' = [c \in Sockets |-> IF c \in C THEN p ELSE sockets[c]]
                          /\ procs' = [procs EXCEPT ![p] = Spawned(t)]
      BY <1>2 DEF StartWith
    <2>1. Served(p) BY DEF Served, TypeOK, Spawned
    <2> QED BY <1>0, <1>1, <2>1
  <1>3. ASSUME NEW c \in Sockets, NEW t \in Ids, Live(t),
               sockets' = [sockets EXCEPT ![c] = sessions[t].pid]
        PROVE  SocketsWereServed'
    <2>1. sessions[t].pid \in Pids BY <1>3 DEF Live, TypeOK, Session
    <2>2. ~Unused(sessions[t].pid)
      BY <1>3 DEF OwnInv, SessionsOwnTheirProcess, LiveIds, Unused
    <2>3. Served(sessions[t].pid) BY <2>1, <2>2, NeverUnusedAgain DEF Unused, Served
    <2>4. \A d \in Sockets : sockets'[d] = IF d = c THEN sessions[t].pid ELSE sockets[d]
      BY <1>3 DEF TypeOK
    <2> QED BY <1>0, <1>1, <2>3, <2>4
  <1>4. CASE \A c \in Sockets : sockets'[c] \in {sockets[c], NoPid}
    BY <1>0, <1>1, <1>4
  <1>5. ASSUME NEW c \in Sockets, Detach(c)
        PROVE  SocketsWereServed'
    BY <1>4, <1>5 DEF Detach, TypeOK
  <1> QED
    BY <1>2, <1>3, <1>4, <1>5
    DEF Next, Create, ReopenSentiph, Attach, Stop, Kill, IdleExpire, PtyExit, Teardown, Prune,
        Delete,
        DeleteFails, StartFails, FailedStart, ProcessExits, vars

\* Late close events, sockets that come back and sessions that were replaced
\* never leave a client too many, nor a session that nobody attends and that
\* nothing will close, nor a timer that will close one under a user, for any
\* number of sockets and sessions.
THEOREM SocketsHaveSessions == Spec => []SocketsAccountedFor
  <1>1. RuntimeAssumption BY RuntimeAssumption
  <1>2. Init => SocketInv
    BY DEF Init, SocketInv, ClientsMatchSockets, SocketsWereServed, KeptByKind, UnattendedIsTimed,
           Unattended, Live, NoSession
  <1>3. TypeOK /\ RunningMatchesSession /\ OwnInv /\ SocketInv /\ [Next]_vars => SocketInv'
    <2> SUFFICES ASSUME TypeOK, RunningMatchesSession, OwnInv, SocketInv, [Next]_vars
                 PROVE  SocketInv'
      OBVIOUS
    <2>1. SocketsWereServed' BY <1>1, NextServed DEF SocketInv
    <2>2. \A u \in Ids : Attends(u)' BY <1>1, NextAttends
    <2> QED BY <2>1, <2>2 DEF SocketInv, ClientsMatchSockets, KeptByKind, UnattendedIsTimed, Attends
  <1>4. SocketInv /\ IdleTimerSpares => SocketsAccountedFor BY DEF SocketInv, SocketsAccountedFor
  <1> QED BY <1>2, <1>3, <1>4, ProcessesOwned, IdleTimerIsSafe, PTL DEF Spec

-----------------------------------------------------------------------------
(* Records: families, worktrees and what is saved of them.                  *)

(* What one step can do to the records. *)

\* The record of u is what it was made as, with its worktree, or it is gone.
Kept(u) ==
    \/ terminals'[u] = NoTerminal
    \/ ~Known(u) /\ terminals'[u] = terminals[u]
    \/ /\ Known(u) /\ terminals'[u].state # "none"
       /\ terminals'[u].parent = terminals[u].parent
       /\ terminals'[u].sentiph = terminals[u].sentiph
       /\ terminals'[u].worktree = terminals[u].worktree
       /\ u \in worktrees => u \in worktrees'

\* One record is new, and was allowed.
Made(t, k, par) ==
    /\ ~Known(t) /\ terminals'[t].state # "none"
    /\ k.tentacle = "sentiph" => ~SentiphExists
    /\ par # NoId => HasRoomFor(par)
    /\ terminals'[t].parent = par
    /\ terminals'[t].sentiph => k.tentacle = "sentiph" \/ t = SentiphId
    /\ terminals'[t].worktree = k.worktree
    /\ worktrees \subseteq worktrees'
    /\ k.worktree => t \in worktrees'
    /\ \A u \in Ids \ {t} : terminals'[u] = terminals[u]

\* Everything is saved, or what is not saved was not either.
Saves == saved' = terminals' \/ UNCHANGED <<saved, terminals>>

\* A start of t fails: only the conversation is not saved.
Plans(t, r) ==
    /\ ~Live(t) /\ UNCHANGED sessions
    /\ r.state \notin {"none", "running"} /\ \E id : terminals'[t] = WithId(r, id)
    /\ \A u \in Ids \ {t} : terminals'[u] = terminals[u]
    /\ \/ Known(t) /\ r = terminals[t] /\ saved' = saved
       \/ saved' = [terminals EXCEPT ![t] = r]

LEMMA StartWithKeeps ==
  ASSUME TypeOK, NEW t \in Ids, NEW C, Known(t), StartWith(t, terminals[t], C), UNCHANGED worktrees
  PROVE  Saves /\ \A u \in Ids : Kept(u)
  <1> PICK p \in Pids, id \in PlannedIds(terminals[t]) :
        terminals' = [terminals EXCEPT ![t] = Running(WithId(terminals[t], id), p)]
    BY DEF StartWith
  <1>1. \A u \in Ids \ {t} : terminals'[u] = terminals[u] BY DEF TypeOK
  <1>2. /\ terminals'[t].parent = terminals[t].parent
        /\ terminals'[t].sentiph = terminals[t].sentiph
        /\ terminals'[t].worktree = terminals[t].worktree
        /\ terminals'[t].state = "running"
    BY PlannedType, RunningType DEF TypeOK
  <1>3. ASSUME NEW u \in Ids PROVE Kept(u)
    BY <1>1, <1>2 DEF Kept, Known
  <1> QED BY <1>3 DEF StartWith, Saves

LEMMA TeardownKeeps ==
  ASSUME TypeOK, NEW t \in Ids, NEW how \in {"stopped", "exited"}, Teardown(t, how)
  PROVE  Saves /\ \A u \in Ids : Kept(u) /\ (terminals'[u].state = "none" => ~Known(u))
  <1>1. how \in LifecycleStates /\ how # "none" BY DEF LifecycleStates
  <1>2. \A u \in Ids \ {t} : terminals'[u] = terminals[u] BY DEF Teardown, TypeOK
  <1>3. terminals'[t] = Ended(terminals[t], how) BY DEF Teardown, TypeOK
  <1>4. terminals[t] \in Record BY DEF TypeOK
  <1>5. /\ terminals'[t].parent = terminals[t].parent
        /\ terminals'[t].sentiph = terminals[t].sentiph
        /\ terminals'[t].worktree = terminals[t].worktree
        /\ terminals'[t].state = IF terminals[t].state = "none" THEN "none" ELSE how
    BY <1>1, <1>3, <1>4, EndedType
  <1>6. ASSUME NEW u \in Ids
        PROVE  Kept(u) /\ (terminals'[u].state = "none" => ~Known(u))
    BY <1>1, <1>2, <1>3, <1>5 DEF Kept, Known, Ended, Teardown
  <1>7. CASE ~Known(t)
    <2>1. terminals'[t] = terminals[t] BY <1>3, <1>7 DEF Ended, Known
    <2>2. terminals' = terminals BY <2>1 DEF Teardown, TypeOK
    <2> QED BY <1>6, <1>7, <2>2 DEF Saves, Teardown
  <1>8. CASE Known(t) BY <1>6, <1>8 DEF Saves, Teardown
  <1> QED BY <1>7, <1>8

LEMMA CreateMakes ==
  ASSUME TypeOK, RuntimeAssumption, NEW t \in Ids, NEW k \in Requests, NEW par \in Ids \cup {NoId},
         Create(t, k, par)
  PROVE  /\ Made(t, k, par)
         /\ saved' = terminals'
              \/ \E r \in Record : /\ FailedStart(t, r) /\ r.state = "registered"
                                   /\ saved' = [terminals EXCEPT ![t] = r]
  <1> DEFINE fresh == Fresh(t, k, par)
  <1>1. fresh \in Record BY FreshType
  <1>2. /\ fresh.parent = par /\ fresh.worktree = k.worktree
        /\ fresh.sentiph => k.tentacle = "sentiph" \/ t = SentiphId
        /\ fresh.state = "registered"
    BY FreshType DEF Fresh
  <1>3. Create(t, k, par) =>
           \/ StartWith(t, fresh, {})
           \/ terminals' = [terminals EXCEPT ![t] = fresh] /\ saved' = terminals'
           \/ FailedStart(t, fresh) /\ saved' = [terminals EXCEPT ![t] = fresh]
    BY DEF Create
  <1> HIDE DEF fresh
  <1>4. /\ terminals'[t].parent = par /\ terminals'[t].worktree = k.worktree
        /\ terminals'[t].sentiph => k.tentacle = "sentiph" \/ t = SentiphId
        /\ terminals'[t].state # "none"
        /\ \A u \in Ids \ {t} : terminals'[u] = terminals[u]
    <2>1. CASE StartWith(t, fresh, {})
      <3> PICK p \in Pids, id \in PlannedIds(fresh) :
            terminals' = [terminals EXCEPT ![t] = Running(WithId(fresh, id), p)]
        BY <2>1 DEF StartWith
      <3> DEFINE r == WithId(fresh, id)
      <3>1. r \in Record /\ r.parent = par /\ r.worktree = k.worktree /\ r.sentiph = fresh.sentiph
        BY <1>1, <1>2, PlannedType
      <3>2. /\ Running(r, p).parent = par /\ Running(r, p).worktree = k.worktree
            /\ Running(r, p).sentiph = fresh.sentiph /\ Running(r, p).state = "running"
        BY <3>1, RunningType
      <3>3. terminals'[t] = Running(r, p) BY DEF TypeOK
      <3> HIDE DEF r
      <3>4. \A u \in Ids \ {t} : terminals'[u] = terminals[u] BY DEF TypeOK
      <3> QED BY <1>2, <3>2, <3>3, <3>4
    <2>2. CASE terminals' = [terminals EXCEPT ![t] = fresh] BY <1>2, <2>2 DEF TypeOK
    <2>3. CASE FailedStart(t, fresh) BY <1>1, <1>2, <2>3, FailedStartType
    <2> QED BY <1>3, <2>1, <2>2, <2>3
  <1>5. saved' = terminals'
           \/ \E r \in Record : /\ FailedStart(t, r) /\ r.state = "registered"
                                /\ saved' = [terminals EXCEPT ![t] = r]
    BY <1>1, <1>2, <1>3 DEF StartWith
  <1> QED BY <1>4, <1>5 DEF Made, Create

\* A start that fails plans.
LEMMA FailurePlans ==
  ASSUME TypeOK, NEW t \in Ids, NEW r \in Record, FailedStart(t, r), ~Live(t),
         r.state \notin {"none", "running"},
         \/ Known(t) /\ r = terminals[t] /\ saved' = saved
         \/ saved' = [terminals EXCEPT ![t] = r]
  PROVE  Plans(t, r)
  BY FailedStartType DEF Plans

\* The members that a delete has removed are gone; others keep their worktrees.
LEMMA DeletedKeeps ==
  ASSUME NEW D \in SUBSET Ids, worktrees' = WorktreesWithout(D),
         \A u \in D : terminals'[u] = NoTerminal, NEW u \in Ids,
         \/ u \in D
         \/ ~Known(u) /\ terminals'[u] = terminals[u]
         \/ /\ Known(u) /\ terminals'[u].state # "none"
            /\ terminals'[u].parent = terminals[u].parent
            /\ terminals'[u].sentiph = terminals[u].sentiph
            /\ terminals'[u].worktree = terminals[u].worktree
  PROVE  Kept(u)
  <1>1. CASE u \in D BY <1>1 DEF Kept
  <1>2. CASE u \notin D BY <1>2 DEF Kept, WorktreesWithout
  <1> QED BY <1>1, <1>2

\* What a delete that fails at f has done, D being the members before f.
Halted(t, f, D) ==
    /\ terminals' = [x \in Ids |-> IF x \in D THEN NoTerminal
                                   ELSE IF x = f /\ Live(f) THEN Ended(terminals[f], "stopped")
                                   ELSE terminals[x]]
    /\ sessions' = [x \in Ids |-> IF x \in D \cup {f} THEN NoSession ELSE sessions[x]]
    /\ worktrees' = WorktreesWithout(D)
    /\ IF Live(f) THEN saved' = terminals' ELSE SavedMidway(D, t)

LEMMA FailureHalts ==
  ASSUME NEW t \in Ids, NEW f \in Ids, DeleteFails(t, f)
  PROVE  /\ RemovalMayFail
         /\ f \in Cascade(t) /\ terminals[f].worktree
         /\ \E D \in SUBSET (Cascade(t) \ {f}) : Halted(t, f, D)
  BY DEF DeleteFails, Halted

LEMMA HaltedKeeps ==
  ASSUME TypeOK, NEW t \in Ids, NEW f \in Ids, NEW D \in SUBSET (Cascade(t) \ {f}),
         Halted(t, f, D), NEW u \in Ids
  PROVE  Kept(u) /\ (u \in D \/ (terminals'[u].state = "none" => ~Known(u)))
  <1>1. D \in SUBSET Ids BY DEF Cascade, KnownIds
  <1>2. "stopped" \in LifecycleStates BY DEF LifecycleStates
  <1>3. \A x \in D : terminals'[x] = NoTerminal BY <1>1 DEF Halted
  <1>4. CASE u \notin D
    <2>1. terminals'[u] \in {terminals[u], Ended(terminals[u], "stopped")} BY <1>4 DEF Halted
    <2>2. /\ terminals'[u].parent = terminals[u].parent
          /\ terminals'[u].sentiph = terminals[u].sentiph
          /\ terminals'[u].worktree = terminals[u].worktree
          /\ terminals'[u].state # "none" <=> Known(u)
      <3>1. terminals[u] \in Record BY DEF TypeOK
      <3> QED BY <1>2, <2>1, <3>1, EndedType DEF Known
    <2>3. ~Known(u) => terminals'[u] = terminals[u] BY <2>1 DEF Known, Ended
    <2> QED BY <1>1, <1>3, <2>2, <2>3, DeletedKeeps DEF Halted
  <1>5. CASE u \in D BY <1>1, <1>3, <1>5, DeletedKeeps DEF Halted
  <1> QED BY <1>4, <1>5

LEMMA NextRecords ==
  ASSUME TypeOK, [Next]_vars, RuntimeAssumption
  PROVE  \/ \A u \in Ids : Kept(u)
         \/ \E t \in Ids, k \in Requests, par \in Ids \cup {NoId} : Made(t, k, par)
  <1>1. ASSUME NEW t \in Ids, NEW k \in Requests, NEW par \in Ids \cup {NoId}, Create(t, k, par)
        PROVE  Made(t, k, par)
    BY <1>1, CreateMakes
  <1>2. ASSUME UNCHANGED <<terminals, worktrees>>
        PROVE  \A u \in Ids : Kept(u)
    BY <1>2 DEF Kept, Known
  <1>3. ASSUME NEW t \in Ids, ReopenSentiph(t)
        PROVE  \A u \in Ids : Kept(u)
    <2>1. CASE StartWith(t, terminals[t], {})
      BY <1>3, <2>1, StartWithKeeps DEF ReopenSentiph
    <2>2. CASE UNCHANGED terminals BY <1>2, <1>3, <2>2 DEF ReopenSentiph
    <2> QED BY <1>3, <2>1, <2>2 DEF ReopenSentiph
  <1>4. ASSUME NEW c \in Sockets, NEW t \in Ids, Attach(c, t)
        PROVE  \A u \in Ids : Kept(u)
    <2>1. CASE StartWith(t, terminals[t], {c})
      BY <1>4, <2>1, StartWithKeeps DEF Attach
    <2>2. CASE UNCHANGED terminals BY <1>2, <1>4, <2>2 DEF Attach
    <2> QED BY <1>4, <2>1, <2>2 DEF Attach
  <1>5. ASSUME NEW t \in Ids, Stop(t) \/ Kill(t) \/ IdleExpire(t) \/ PtyExit(t)
        PROVE  \A u \in Ids : Kept(u)
    BY <1>5, TeardownKeeps DEF Stop, Kill, IdleExpire, PtyExit
  <1>6. ASSUME Prune
        PROVE  \A u \in Ids : Kept(u)
    BY <1>6 DEF Prune, NoTerminal, Kept, Known
  <1>7. ASSUME NEW t \in Ids, Delete(t)
        PROVE  \A u \in Ids : Kept(u)
    <2>1. Cascade(t) \in SUBSET Ids BY DEF Cascade, KnownIds
    <2>2. ASSUME NEW u \in Ids PROVE Kept(u)
      BY <1>7, <2>1, DeletedKeeps DEF Delete, Known
    <2> QED BY <2>2
  <1>8. ASSUME NEW t \in Ids, NEW f \in Ids, DeleteFails(t, f)
        PROVE  \A u \in Ids : Kept(u)
    BY <1>8, FailureHalts, HaltedKeeps
  <1>9. ASSUME NEW t \in Ids, StartFails(t)
        PROVE  \A u \in Ids : Kept(u)
    <2>1. FailedStart(t, terminals[t]) /\ Known(t) /\ terminals[t] \in Record
              /\ UNCHANGED worktrees
      BY <1>9 DEF StartFails, TypeOK
    <2> QED BY <2>1, FailedStartType DEF Kept, Known
  <1> QED
    BY <1>1, <1>2, <1>3, <1>4, <1>5, <1>6, <1>7, <1>8, <1>9
    DEF Next, Detach, ProcessExits, vars

-----------------------------------------------------------------------------
(* Families. *)

\* A Sentiph is a terminal, and but for the one with Sentiph's id there is one.
SentiphSound(R) ==
    /\ \A t \in Ids : R[t].sentiph => R[t].state # "none"
    /\ AtMostOneBeside(R)

LEMMA NextSentiph ==
  ASSUME TypeOK, SentiphSound(terminals), [Next]_vars, RuntimeAssumption
  PROVE  SentiphSound(terminals')
  <1>1. CASE \A u \in Ids : Kept(u)
    <2>1. \A u \in Ids : terminals'[u].sentiph => terminals[u].sentiph
      BY <1>1 DEF Kept, NoTerminal
    <2>2. ASSUME NEW u \in Ids, terminals'[u].sentiph, terminals'[u].state = "none"
          PROVE  FALSE
      <3>1. terminals'[u] # NoTerminal BY <2>2 DEF NoTerminal
      <3> QED BY <1>1, <2>1, <2>2, <3>1 DEF Kept, Known, SentiphSound
    <2> QED BY <2>1, <2>2 DEF SentiphSound, AtMostOneBeside
  <1>2. ASSUME NEW t \in Ids, NEW k \in Requests, NEW par \in Ids \cup {NoId}, Made(t, k, par)
        PROVE  SentiphSound(terminals')
    <2>1. k.tentacle = "sentiph" => \A u \in Ids : ~terminals[u].sentiph
      BY <1>2 DEF Made, SentiphExists, KnownIds, Known, SentiphSound
    <2> QED BY <1>2, <2>1 DEF SentiphSound, AtMostOneBeside, Made
  <1> QED BY <1>1, <1>2, NextRecords

\* Whatever is created, deleted half way and created again, by however many
\* terminals and under whatever ids: beside the terminal that has Sentiph's id
\* there is never more than one Sentiph.
THEOREM OneSentiph == Spec => []SentiphHasOneDouble
  <1>1. RuntimeAssumption BY RuntimeAssumption
  <1>2. Init => SentiphSound(terminals)
    BY DEF Init, SentiphSound, AtMostOneBeside, NoTerminal
  <1>3. TypeOK /\ SentiphSound(terminals) /\ [Next]_vars => SentiphSound(terminals)'
    BY <1>1, NextSentiph DEF SentiphSound, AtMostOneBeside
  <1>4. SentiphSound(terminals) => SentiphHasOneDouble BY DEF SentiphSound, SentiphHasOneDouble
  <1> QED BY <1>2, <1>3, <1>4, TypeCorrect, PTL DEF Spec

LEMMA NextChildren ==
  ASSUME TypeOK, ChildLimitRespected, [Next]_vars, RuntimeAssumption
  PROVE  ChildLimitRespected'
  <1> SUFFICES ASSUME NEW u \in Ids
               PROVE  Cardinality(ChildrenOf({u})') <= MaxChildren
    BY DEF ChildLimitRespected
  <1>1. IsFiniteSet(ChildrenOf({u})) /\ IsFiniteSet(ChildrenOf({u})')
    <2>1. ChildrenOf({u}) \subseteq Ids /\ ChildrenOf({u})' \subseteq Ids
      BY DEF ChildrenOf, KnownIds
    <2> QED BY <2>1, FS_Subset DEF RuntimeAssumption
  <1>2. Cardinality(ChildrenOf({u})) \in Nat /\ Cardinality(ChildrenOf({u})') \in Nat
    BY <1>1, FS_CardinalityType
  <1>3. CASE ChildrenOf({u})' \subseteq ChildrenOf({u})
    <2>1. Cardinality(ChildrenOf({u})') <= Cardinality(ChildrenOf({u})) BY <1>1, <1>3, FS_Subset
    <2> QED BY <1>2, <2>1 DEF ChildLimitRespected, RuntimeAssumption
  <1>4. CASE \A x \in Ids : Kept(x)
    <2>1. ChildrenOf({u})' \subseteq ChildrenOf({u})
      BY <1>4 DEF ChildrenOf, KnownIds, Known, Kept, NoTerminal
    <2> QED BY <1>3, <2>1
  <1>5. ASSUME NEW t \in Ids, NEW k \in Requests, NEW par \in Ids \cup {NoId}, Made(t, k, par)
        PROVE  Cardinality(ChildrenOf({u})') <= MaxChildren
    <2>1. CASE u # par
      <3>1. ChildrenOf({u})' \subseteq ChildrenOf({u})
        BY <1>5, <2>1 DEF ChildrenOf, KnownIds, Known, Made
      <3> QED BY <1>3, <3>1
    <2>2. CASE u = par
      <3>1. Cardinality(ChildrenOf({u})) < MaxChildren
        BY <1>5, <2>2 DEF Made, HasRoomFor, RuntimeAssumption
      <3>2. ChildrenOf({u})' \subseteq ChildrenOf({u}) \cup {t}
        BY <1>5 DEF ChildrenOf, KnownIds, Known, Made
      <3>3. /\ IsFiniteSet(ChildrenOf({u}) \cup {t})
            /\ Cardinality(ChildrenOf({u}) \cup {t})
                 \in {Cardinality(ChildrenOf({u})), Cardinality(ChildrenOf({u})) + 1}
        BY <1>1, FS_AddElement
      <3>4. Cardinality(ChildrenOf({u})') <= Cardinality(ChildrenOf({u}) \cup {t})
        BY <3>2, <3>3, FS_Subset
      <3> QED BY <1>2, <3>1, <3>3, <3>4 DEF RuntimeAssumption
    <2> QED BY <2>1, <2>2
  <1> QED BY <1>4, <1>5, NextRecords

LEMMA NextIsolation ==
  ASSUME TypeOK, WorktreeIsolation, [Next]_vars, RuntimeAssumption
  PROVE  WorktreeIsolation'
  <1>1. CASE \A u \in Ids : Kept(u)
    BY <1>1 DEF WorktreeIsolation, KnownIds, Known, Kept, NoTerminal
  <1>2. ASSUME NEW t \in Ids, NEW k \in Requests, NEW par \in Ids \cup {NoId}, Made(t, k, par)
        PROVE  WorktreeIsolation'
    BY <1>2 DEF WorktreeIsolation, KnownIds, Known, Made
  <1> QED BY <1>1, <1>2, NextRecords

\* Families stay within the limit and worktree terminals keep their worktrees,
\* whatever a failing removal leaves behind and whichever ids are used again.
THEOREM FamiliesStaySound == Spec => []FamiliesAreSound
  <1>1. RuntimeAssumption BY RuntimeAssumption
  <1>2. Init => FamiliesAreSound
    <2> SUFFICES ASSUME Init PROVE FamiliesAreSound OBVIOUS
    <2>1. KnownIds = {} BY DEF Init, KnownIds, Known, NoTerminal
    <2>2. \A t \in Ids : ChildrenOf({t}) = {} BY <2>1 DEF ChildrenOf
    <2> QED BY <1>1, <2>1, <2>2, FS_EmptySet
        DEF FamiliesAreSound, ChildLimitRespected, WorktreeIsolation, RuntimeAssumption
  <1>3. TypeOK /\ FamiliesAreSound /\ [Next]_vars => FamiliesAreSound'
    BY <1>1, NextChildren, NextIsolation DEF FamiliesAreSound
  <1> QED BY <1>1, <1>2, <1>3, TypeCorrect, PTL DEF Spec

-----------------------------------------------------------------------------
(* What is saved. *)

LEMMA NextSaves ==
  ASSUME TypeOK, RunningMatchesSession, [Next]_vars, RuntimeAssumption
  PROVE  \/ Saves \/ \E t, f \in Ids : DeleteFails(t, f)
         \/ \E t \in Ids, r \in Record : Plans(t, r)
  <1>1. ASSUME NEW t \in Ids, NEW k \in Requests, NEW par \in Ids \cup {NoId}, Create(t, k, par)
        PROVE  Saves \/ \E r \in Record : Plans(t, r)
    <2>1. ~Live(t) BY <1>1 DEF Create, Known, RunningMatchesSession
    <2> QED BY <1>1, <2>1, CreateMakes, FailurePlans DEF Saves
  <1>2. ASSUME UNCHANGED <<terminals, saved>>
        PROVE  Saves
    BY <1>2 DEF Saves
  <1>3. ASSUME NEW t \in Ids, NEW r, NEW C, StartWith(t, r, C)
        PROVE  Saves
    BY <1>3 DEF StartWith, Saves
  <1>4. ASSUME NEW t \in Ids, ReopenSentiph(t)
        PROVE  Saves
    <2>1. StartWith(t, terminals[t], {}) \/ UNCHANGED <<terminals, saved>>
      BY <1>4 DEF ReopenSentiph
    <2> QED BY <1>2, <1>3, <2>1
  <1>5. ASSUME NEW c \in Sockets, NEW t \in Ids, Attach(c, t)
        PROVE  Saves
    <2>1. StartWith(t, terminals[t], {c}) \/ UNCHANGED <<terminals, saved>>
      BY <1>5 DEF Attach
    <2> QED BY <1>2, <1>3, <2>1
  <1>6. ASSUME NEW t \in Ids, Stop(t) \/ Kill(t) \/ IdleExpire(t) \/ PtyExit(t)
        PROVE  Saves
    BY <1>6, TeardownKeeps DEF Stop, Kill, IdleExpire, PtyExit
  <1>7. ASSUME NEW t \in Ids, Prune \/ Delete(t)
        PROVE  Saves
    BY <1>7 DEF Prune, Delete, Saves
  <1>8. ASSUME NEW t \in Ids, StartFails(t)
        PROVE  Plans(t, terminals[t]) /\ terminals[t] \in Record
    BY <1>8, FailurePlans DEF StartFails, Known, RunningMatchesSession, TypeOK
  <1> QED
    BY <1>1, <1>2, <1>4, <1>5, <1>6, <1>7, <1>8
    DEF Next, Detach, ProcessExits, Prune, Saves, vars

\* What is withheld from the writer of t's record: a deletion that a failing
\* removal interrupted, or the conversation of a start that failed.
Withheld(t) == saved[t] # terminals[t] => (RemovalMayFail /\ ~Known(t)) \/ IdUnsaved(t)

LEMMA WithIdTwice ==
  ASSUME NEW r \in Record, NEW q, NEW id
  PROVE  /\ r = WithId(WithId(r, id), r.claude)
         /\ q = WithId(r, q.claude) => q = WithId(WithId(r, id), q.claude)
  BY DEF WithId, Record

LEMMA PlansWithhold ==
  ASSUME TypeOK, NEW t \in Ids, NEW r \in Record, Plans(t, r), NEW u \in Ids, Withheld(u)
  PROVE  Withheld(u)'
  <1>1. CASE u # t
    <2>1. terminals'[u] = terminals[u] /\ saved'[u] \in {saved[u], terminals[u]}
      BY <1>1 DEF Plans, TypeOK
    <2> QED BY <2>1 DEF Plans, Withheld, IdUnsaved, Known, Live
  <1>2. CASE u = t
    <2> PICK id : terminals'[t] = WithId(r, id) BY DEF Plans
    <2>1. saved'[t] = r \/ saved'[t] = WithId(r, saved'[t].claude)
      <3>1. CASE Known(t) /\ r = terminals[t] /\ saved' = saved
        BY <1>2, <3>1 DEF Withheld, IdUnsaved
      <3>2. CASE saved' = [terminals EXCEPT ![t] = r] BY <3>2 DEF TypeOK
      <3> QED BY <3>1, <3>2 DEF Plans
    <2>2. saved'[t] = WithId(terminals'[t], saved'[t].claude) BY <2>1, WithIdTwice
    <2> QED BY <1>2, <2>2 DEF Plans, Withheld, IdUnsaved, Live
  <1> QED BY <1>1, <1>2

LEMMA HaltedWithholds ==
  ASSUME TypeOK, NEW t \in Ids, NEW f \in Ids, RemovalMayFail,
         NEW D \in SUBSET (Cascade(t) \ {f}), Halted(t, f, D), NEW u \in Ids, Withheld(u)
  PROVE  Withheld(u)'
  <1>1. CASE Live(f) BY <1>1 DEF Halted, Withheld
  <1>2. CASE ~Live(f) /\ u \in D
    BY <1>2 DEF Halted, Withheld, Known, NoTerminal
  <1>3. CASE ~Live(f) /\ u \notin D
    <2>1. terminals'[u] = terminals[u] /\ saved'[u] \in {saved[u], terminals[u]}
      BY <1>3 DEF Halted, SavedMidway
    <2>2. Live(u)' => Live(u) BY DEF Halted, Live, NoSession
    <2> QED BY <2>1, <2>2 DEF Withheld, IdUnsaved, Known
  <1> QED BY <1>1, <1>2, <1>3

LEMMA NextWithholds ==
  ASSUME TypeOK, RunningMatchesSession, RunningMatchesSession', [Next]_vars, RuntimeAssumption,
         \A u \in Ids : Withheld(u)
  PROVE  \A u \in Ids : Withheld(u)'
  <1> SUFFICES ASSUME NEW u \in Ids PROVE Withheld(u)' OBVIOUS
  <1>1. CASE saved' = terminals' BY <1>1 DEF Withheld
  <1>2. CASE UNCHANGED <<saved, terminals>>
    <2>1. Live(u)' => Live(u) BY <1>2 DEF RunningMatchesSession
    <2> QED BY <1>2, <2>1 DEF Withheld, IdUnsaved, Known
  <1>3. ASSUME NEW t \in Ids, NEW f \in Ids, DeleteFails(t, f)
        PROVE  Withheld(u)'
    BY <1>3, FailureHalts, HaltedWithholds
  <1>4. ASSUME NEW t \in Ids, NEW r \in Record, Plans(t, r)
        PROVE  Withheld(u)'
    BY <1>4, PlansWithhold
  <1> QED BY <1>1, <1>2, <1>3, <1>4, NextSaves DEF Saves

LEMMA AlwaysWithheld == Spec => [](\A u \in Ids : Withheld(u))
  <1>1. RuntimeAssumption BY RuntimeAssumption
  <1>2. Init => \A u \in Ids : Withheld(u) BY DEF Init, Withheld
  <1>3. TypeOK /\ RunningMatchesSession /\ RunningMatchesSession' /\ [Next]_vars
          /\ (\A u \in Ids : Withheld(u)) => (\A u \in Ids : Withheld(u))'
    BY <1>1, NextWithholds
  <1> QED BY <1>2, <1>3, TypeCorrect, RegistryMatchesSessions, PTL DEF Spec

\* As long as worktrees can be removed, all that a handler can change in a record
\* and not hand to the registry writer is the conversation of a start that
\* failed; the conversation of a session that runs is handed over.
THEOREM RecordsAreSaved ==
  ASSUME ~RemovalMayFail
  PROVE  Spec => []OnlyIdsUnsaved
  <1>1. (\A u \in Ids : Withheld(u)) => OnlyIdsUnsaved BY DEF Withheld, OnlyIdsUnsaved
  <1> QED BY <1>1, AlwaysWithheld, PTL

\* When a removal interrupts a delete, only deletions are withheld from the
\* registry writer besides: no other change to a record that is still there.
THEOREM OnlyDeletionsWithheld == Spec => []OnlyDeletionsUnsaved
  <1>1. (\A u \in Ids : Withheld(u)) => OnlyDeletionsUnsaved
    BY DEF Withheld, OnlyDeletionsUnsaved
  <1> QED BY <1>1, AlwaysWithheld, PTL

-----------------------------------------------------------------------------
(* What a failing delete leaves. *)

\* The cascade of a member is part of the cascade.
LEMMA CascadeWithin ==
  ASSUME NEW root \in Ids, NEW t \in Cascade(root), NEW x \in Cascade(t)
  PROVE  x \in Cascade(root)
  BY DEF Cascade

\* What SurvivorsKeepTheFailure says of t.
LeavesAFailure(t) ==
    Live(t) /\ terminals'[t].state = "none"
       => \/ \A x \in Cascade(t) : terminals'[x].state = "none"
          \/ \E root \in Ids : t \in Cascade(root) /\ \E x \in Cascade(root) \cap worktrees' :
               terminals'[x].state # "none" /\ sessions'[x] = NoSession

LEMMA NextFailure ==
  ASSUME TypeOK, RunningMatchesSession, WorktreeIsolation, [Next]_vars, RuntimeAssumption,
         NEW t \in Ids
  PROVE  LeavesAFailure(t)
  <1> SUFFICES ASSUME Live(t), terminals'[t].state = "none"
               PROVE  \/ \A x \in Cascade(t) : terminals'[x].state = "none"
                      \/ \E root \in Ids : t \in Cascade(root)
                          /\ \E x \in Cascade(root) \cap worktrees' :
                           terminals'[x].state # "none" /\ sessions'[x] = NoSession
    BY DEF LeavesAFailure
  <1>1. Known(t) BY DEF RunningMatchesSession, Known
  <1>2. ASSUME NEW root \in Ids, Delete(root)
        PROVE  \A x \in Cascade(t) : terminals'[x].state = "none"
    <2>1. t \in Cascade(root) BY <1>1, <1>2 DEF Delete, Known
    <2>2. \A x \in Cascade(root) : x \in Ids BY DEF Cascade, KnownIds
    <2> QED BY <1>2, <2>1, <2>2, CascadeWithin DEF Delete, NoTerminal
  <1>3. ASSUME NEW root \in Ids, NEW f \in Ids, DeleteFails(root, f)
        PROVE  \E r \in Ids : t \in Cascade(r) /\ \E x \in Cascade(r) \cap worktrees' :
                    terminals'[x].state # "none" /\ sessions'[x] = NoSession
    <2>1. f \in Cascade(root) /\ terminals[f].worktree BY <1>3, FailureHalts
    <2> PICK D \in SUBSET (Cascade(root) \ {f}) : Halted(root, f, D) BY <1>3, FailureHalts
    <2>2. t \in D BY <1>1, HaltedKeeps
    <2>3. f \in KnownIds /\ f \notin D BY <2>1 DEF Cascade
    <2>4. f \in worktrees' BY <2>1, <2>3 DEF WorktreeIsolation, WorktreesWithout, Halted
    <2>5. terminals'[f].state # "none" BY <2>3, HaltedKeeps DEF KnownIds
    <2>6. sessions'[f] = NoSession BY DEF Halted
    <2> QED BY <2>1, <2>2, <2>4, <2>5, <2>6
  <1>4. terminals'[t] # terminals[t] BY <1>1 DEF Known
  <1>5. ASSUME NEW u \in Ids, NEW k \in Requests, NEW par \in Ids \cup {NoId}, Create(u, k, par)
        PROVE  FALSE
    BY <1>1, <1>4, <1>5, CreateMakes DEF Made
  <1>6. ASSUME NEW u \in Ids, NEW C, StartWith(u, terminals[u], C)
        PROVE  FALSE
    <2> PICK p \in Pids, id \in PlannedIds(terminals[u]) :
          terminals' = [terminals EXCEPT ![u] = Running(WithId(terminals[u], id), p)]
      BY <1>6 DEF StartWith
    <2>1. Running(WithId(terminals[u], id), p).state = "running"
      BY PlannedType, RunningType DEF TypeOK
    <2> QED BY <1>4, <2>1 DEF TypeOK
  <1>7. ASSUME NEW u \in Ids, ReopenSentiph(u)
        PROVE  FALSE
    BY <1>4, <1>6, <1>7 DEF ReopenSentiph
  <1>8. ASSUME NEW c \in Sockets, NEW u \in Ids, Attach(c, u)
        PROVE  FALSE
    BY <1>4, <1>6, <1>8 DEF Attach
  <1>9. ASSUME NEW u \in Ids, Stop(u) \/ Kill(u) \/ IdleExpire(u) \/ PtyExit(u)
        PROVE  FALSE
    BY <1>1, <1>9, TeardownKeeps DEF Stop, Kill, IdleExpire, PtyExit
  <1>10. ASSUME Prune
         PROVE  FALSE
    BY <1>4, <1>10 DEF Prune, Prunable
  <1>11. ASSUME NEW u \in Ids, StartFails(u)
         PROVE  FALSE
    BY <1>1, <1>4, <1>11, FailedStartType DEF StartFails, Known, TypeOK
  <1> QED
    BY <1>2, <1>3, <1>4, <1>5, <1>7, <1>8, <1>9, <1>10, <1>11
    DEF Next, Detach, ProcessExits, vars

\* A delete that fails half way leaves the terminal whose worktree could not be
\* removed, however large the family is and wherever in it the failure comes.
THEOREM FailureStaysDeletable == Spec => SurvivorsKeepTheFailure
  <1>1. RuntimeAssumption BY RuntimeAssumption
  <1>2. TypeOK /\ RunningMatchesSession /\ FamiliesAreSound /\ [Next]_vars
           => \A t \in Ids : LeavesAFailure(t)
    BY <1>1, NextFailure DEF FamiliesAreSound
  <1>3. TypeOK /\ RunningMatchesSession /\ FamiliesAreSound /\ [Next]_vars
           => [\A t \in Ids :
                 Live(t) /\ terminals'[t].state = "none"
                    => \/ \A x \in Cascade(t) : terminals'[x].state = "none"
                       \/ \E root \in Ids : t \in Cascade(root)
                           /\ \E x \in Cascade(root) \cap worktrees' :
                            terminals'[x].state # "none" /\ sessions'[x] = NoSession]_vars
    BY <1>2 DEF LeavesAFailure
  <1> QED BY <1>3, TypeCorrect, RegistryMatchesSessions, FamiliesStaySound, PTL
          DEF Spec, SurvivorsKeepTheFailure
=============================================================================
