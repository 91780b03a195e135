----------------------- MODULE TerminalRecovery_proofs -----------------------
(***************************************************************************)
(* Crashes, restarts and shutdowns of the API at any moment: what it       *)
(* believes after it has read its registry back, for every number of       *)
(* terminals, sockets and processes.                                       *)
(***************************************************************************)
EXTENDS TerminalRecovery, TerminalRuntime_proofs

-----------------------------------------------------------------------------
(* Snapshots of the records. *)

\* A snapshot says "running" of nothing that does not run.
NothingFeigned == \A t \in Ids : saved[t].state = "running" => Live(t)

\* Nothing is withheld from the writer but what TerminalRuntime_proofs allows.
OnlyWithheld == \A t \in Ids : Withheld(t)

\* The invariant: three snapshots of the records are sound, the ones in memory,
\* in the writer and in the file; and nothing runs in a process that is gone.
RecoveryInv ==
    /\ RecoveryTypeOK
    /\ RunningMatchesSession
    /\ OnlyWithheld
    /\ SentiphSound(terminals) /\ SentiphSound(saved) /\ SentiphSound(disk)
    /\ NothingFeigned
    /\ phase = "down" => sessions = NoSessions

LEMMA SoundWithin ==
  ASSUME NEW R, NEW Q, SentiphSound(R),
         \A t \in Ids : Q[t].sentiph => R[t].sentiph /\ Q[t].state # "none"
  PROVE  SentiphSound(Q)
  BY DEF SentiphSound, AtMostOneBeside

LEMMA NoTerminalsSound == SentiphSound(NoTerminals) /\ NoTerminals \in [Ids -> Record]
  BY NullRecords DEF SentiphSound, AtMostOneBeside, NoTerminals, NoTerminal

LEMMA ReconciledSteps ==
  ASSUME NEW r \in Record
  PROVE  /\ Reconciled(r) \in Record /\ Reconciled(r).sentiph = r.sentiph
         /\ Reconciled(r).state # "running"
         /\ Reconciled(r).state = "none" <=> r.state = "none"
  BY DEF Reconciled, Record, LifecycleStates

LEMMA EndedSteps ==
  ASSUME NEW r \in Record
  PROVE  /\ Ended(r, "stopped") \in Record /\ Ended(r, "stopped").sentiph = r.sentiph
         /\ Ended(r, "stopped").state \in {"none", "stopped"}
         /\ Ended(r, "stopped").state = "none" <=> r.state = "none"
  BY DEF Ended, Record, LifecycleStates

-----------------------------------------------------------------------------
(* The handlers. *)

LEMMA HaltedSound ==
  ASSUME TypeOK, RunningMatchesSession, SentiphSound(terminals), SentiphSound(saved),
         NothingFeigned, RunningMatchesSession', SentiphSound(terminals'),
         NEW t \in Ids, NEW f \in Ids, NEW D \in SUBSET (Cascade(t) \ {f}), Halted(t, f, D)
  PROVE  SentiphSound(saved') /\ NothingFeigned'
  <1>0. \A u \in Ids : /\ Ended(terminals[u], "stopped").sentiph = terminals[u].sentiph
                       /\ Ended(terminals[u], "stopped").state \in {"none", "stopped"}
                       /\ Ended(terminals[u], "stopped").state = "none"
                           <=> terminals[u].state = "none"
    BY EndedSteps DEF TypeOK
  <1>1. CASE saved' = terminals'
    BY <1>1 DEF NothingFeigned, RunningMatchesSession
  <1>2. CASE saved' = saved /\ ~Live(f) /\ ~\E x \in D : Live(x)
    <2>1. \A u \in Ids : Live(u) => sessions'[u] = sessions[u] BY <1>2 DEF Halted
    <2> QED BY <1>2, <2>1 DEF NothingFeigned, Live
  <1>3. ASSUME NEW m \in D, NEW B, {x \in D : Live(x)} \subseteq B \cup {m}, ~Live(f),
               saved' = [x \in Ids |-> IF x \in B THEN NoTerminal
                                       ELSE IF x = m THEN Ended(terminals[m], "stopped")
                                       ELSE terminals[x]]
        PROVE  SentiphSound(saved') /\ NothingFeigned'
    <2>1. \A u \in Ids : saved'[u] \in {NoTerminal, Ended(terminals[u], "stopped"), terminals[u]}
      BY <1>3
    <2>2. SentiphSound(saved')
      <3>1. \A u \in Ids : saved'[u].sentiph => terminals[u].sentiph /\ saved'[u].state # "none"
        BY <1>0, <2>1 DEF SentiphSound, NoTerminal
      <3> QED BY <3>1, SoundWithin
    <2>3. ASSUME NEW u \in Ids, saved'[u].state = "running"
          PROVE  Live(u)'
      <3>1. u \notin B /\ u # m BY <1>0, <1>3, <2>3 DEF NoTerminal
      <3>2. terminals[u].state = "running" BY <1>3, <2>3, <3>1
      <3>3. Live(u) /\ u \notin D \cup {f} BY <1>3, <3>1, <3>2 DEF RunningMatchesSession
      <3> QED BY <3>3 DEF Halted, Live
    <2> QED BY <2>2, <2>3 DEF NothingFeigned
  <1> QED BY <1>1, <1>2, <1>3 DEF Halted, SavedMidway

\* A start that fails hands over nothing that the memory does not hold.
LEMMA PlansSound ==
  ASSUME TypeOK, RunningMatchesSession, SentiphSound(saved), NothingFeigned,
         SentiphSound(terminals'), NEW t \in Ids, NEW r \in Record, Plans(t, r)
  PROVE  SentiphSound(saved') /\ NothingFeigned'
  <1> PICK id : terminals'[t] = WithId(r, id) BY DEF Plans
  <1>1. terminals'[t].sentiph = r.sentiph /\ terminals'[t].state = r.state
    BY DEF WithId, Record
  <1>2. CASE saved' = saved BY <1>2 DEF Plans, NothingFeigned, Live
  <1>3. CASE saved' = [terminals EXCEPT ![t] = r] /\ r.state # "running"
    <2>1. \A u \in Ids : saved'[u] = IF u = t THEN r ELSE terminals'[u]
      BY <1>3 DEF Plans, TypeOK
    <2>2. SentiphSound(saved')
      <3>1. \A u \in Ids : saved'[u].sentiph => terminals'[u].sentiph /\ saved'[u].state # "none"
        BY <1>1, <2>1 DEF Plans, SentiphSound
      <3> QED BY <3>1, SoundWithin
    <2>3. NothingFeigned'
      BY <1>3, <2>1 DEF Plans, NothingFeigned, RunningMatchesSession, Live
    <2> QED BY <2>2, <2>3
  <1> QED BY <1>2, <1>3 DEF Plans

LEMMA HandlerKeeps ==
  ASSUME RecoveryInv, [Next]_vars, UNCHANGED disk, phase # "down", phase' = phase, RuntimeAssumption
  PROVE  RecoveryInv'
  <1> USE DEF RecoveryInv, RecoveryTypeOK
  <1>1. TypeOK' /\ RunningMatchesSession' BY NextType, NextMatches
  <1>2. OnlyWithheld' /\ SentiphSound(terminals')
    BY <1>1, NextWithholds, NextSentiph DEF OnlyWithheld
  <1>3. SentiphSound(saved') /\ NothingFeigned'
    <2>1. CASE saved' = terminals'
      BY <1>1, <1>2, <2>1 DEF NothingFeigned, RunningMatchesSession
    <2>2. CASE UNCHANGED <<saved, terminals>>
      BY <1>1, <2>2 DEF NothingFeigned, RunningMatchesSession
    <2>3. ASSUME NEW t \in Ids, NEW f \in Ids, DeleteFails(t, f)
          PROVE  SentiphSound(saved') /\ NothingFeigned'
      <3> PICK D \in SUBSET (Cascade(t) \ {f}) : Halted(t, f, D) BY <2>3, FailureHalts
      <3> QED BY <1>1, <1>2, HaltedSound
    <2>4. ASSUME NEW t \in Ids, NEW r \in Record, Plans(t, r)
          PROVE  SentiphSound(saved') /\ NothingFeigned'
      BY <1>2, <2>4, PlansSound
    <2> QED BY <2>1, <2>2, <2>3, <2>4, NextSaves DEF Saves
  <1>4. SentiphSound(disk') /\ disk' \in [Ids -> Record] OBVIOUS
  <1> QED BY <1>1, <1>2, <1>3, <1>4

-----------------------------------------------------------------------------
(* Crashes, restarts and shutdowns. *)

LEMMA InitRecovers == RecoveryInit => RecoveryInv
  <1> SUFFICES ASSUME RecoveryInit PROVE RecoveryInv OBVIOUS
  <1>1. TypeOK BY InitType DEF RecoveryInit
  <1>2. terminals = NoTerminals /\ saved = terminals /\ disk = saved /\ phase = "up"
    BY DEF RecoveryInit, Init, NoTerminals
  <1>3. \A t \in Ids : ~Live(t) /\ terminals[t].state = "none"
    BY <1>2 DEF RecoveryInit, Init, Live, NoSession, NoTerminals, NoTerminal
  <1> QED BY <1>1, <1>2, <1>3, NoTerminalsSound
      DEF RecoveryInv, RecoveryTypeOK, RunningMatchesSession, OnlyWithheld, Withheld, NothingFeigned

LEMMA LossKeeps ==
  ASSUME RecoveryInv, MemoryLost, UNCHANGED disk
  PROVE  RecoveryInv'
  <1>1. \A t \in Ids : ~Live(t)' /\ terminals'[t].state = "none" /\ saved'[t] = terminals'[t]
    BY DEF MemoryLost, Live, NoSession, NoSessions, NoTerminals, NoTerminal
  <1>2. TypeOK'
    BY NullRecords DEF MemoryLost, RecoveryInv, RecoveryTypeOK, TypeOK, NoSessions, NoTerminals
  <1>3. /\ terminals' = NoTerminals /\ saved' = NoTerminals /\ phase' = "down"
        /\ sessions' = NoSessions
    BY DEF MemoryLost
  <1>4. RunningMatchesSession' /\ OnlyWithheld' /\ NothingFeigned'
    BY <1>1 DEF RunningMatchesSession, OnlyWithheld, Withheld, NothingFeigned
  <1> QED BY <1>2, <1>3, <1>4, NoTerminalsSound DEF RecoveryInv, RecoveryTypeOK, NoSessions

LEMMA RestartKeeps ==
  ASSUME RecoveryInv, Restart
  PROVE  RecoveryInv'
  <1>1. \A t \in Ids : /\ terminals'[t] = Reconciled(disk[t]) /\ saved'[t] = terminals'[t]
                       /\ terminals'[t] \in Record /\ terminals'[t].sentiph = disk[t].sentiph
                       /\ terminals'[t].state # "running"
                       /\ terminals'[t].state = "none" <=> disk[t].state = "none"
    BY ReconciledSteps DEF Restart, RecoveryInv, RecoveryTypeOK
  <1>2. \A t \in Ids : ~Live(t)'
    BY DEF Restart, RecoveryInv, Live, NoSessions, NoSession
  <1>3. RunningMatchesSession' /\ OnlyWithheld' /\ NothingFeigned'
    BY <1>1, <1>2 DEF RunningMatchesSession, OnlyWithheld, Withheld, NothingFeigned
  <1>4. SentiphSound(terminals')
    <2>1. \A t \in Ids : terminals'[t].sentiph => disk[t].sentiph /\ terminals'[t].state # "none"
      BY <1>1 DEF RecoveryInv, SentiphSound
    <2> QED BY <2>1, SoundWithin DEF RecoveryInv
  <1>5. terminals' \in [Ids -> Record] BY <1>1 DEF Restart
  <1>6. saved' = terminals' /\ UNCHANGED <<sessions, sockets, procs, worktrees, disk>>
            /\ phase' = "up"
    BY DEF Restart
  <1>7. TypeOK' BY <1>5, <1>6 DEF TypeOK, RecoveryInv, RecoveryTypeOK
  <1> QED BY <1>3, <1>4, <1>6, <1>7 DEF RecoveryInv, RecoveryTypeOK

LEMMA ShutdownKeeps ==
  ASSUME RecoveryInv, BeginShutdown
  PROVE  RecoveryInv'
  <1>1. \A t \in Ids : terminals[t] \in Record BY DEF RecoveryInv, RecoveryTypeOK, TypeOK
  <1>2. \A t \in Ids : terminals'[t] = IF Live(t) THEN Ended(terminals[t], "stopped")
            ELSE terminals[t]
    BY DEF BeginShutdown
  <1>3. \A t \in Ids : /\ terminals'[t] \in Record /\ terminals'[t].sentiph = terminals[t].sentiph
                       /\ terminals'[t].state # "running"
                       /\ terminals'[t].state = "none" <=> terminals[t].state = "none"
    <2> TAKE t \in Ids
    <2>1. CASE Live(t) BY <1>1, <1>2, <2>1, EndedSteps
    <2>2. CASE ~Live(t) BY <1>1, <1>2, <2>2 DEF RecoveryInv, RunningMatchesSession
    <2> QED BY <2>1, <2>2
  <1>4. \A t \in Ids : ~Live(t)' BY DEF BeginShutdown, Live, NoSessions, NoSession
  <1>5. SentiphSound(terminals')
    <2>1. \A t \in Ids : terminals'[t].sentiph
              => terminals[t].sentiph /\ terminals'[t].state # "none"
      BY <1>3 DEF RecoveryInv, SentiphSound
    <2> QED BY <2>1, SoundWithin DEF RecoveryInv
  <1>6. TypeOK'
    <2>1. terminals' \in [Ids -> Record] BY <1>3 DEF BeginShutdown
    <2>2. procs' \in [Pids -> Process]
      BY SignalledType DEF BeginShutdown, RecoveryInv, RecoveryTypeOK, TypeOK
    <2>3. saved' \in [Ids -> Record]
      BY <2>1 DEF BeginShutdown, RecoveryInv, RecoveryTypeOK, TypeOK
    <2>4. sessions' \in [Ids -> Session] BY NullRecords DEF BeginShutdown, NoSessions
    <2> QED BY <2>1, <2>2, <2>3, <2>4 DEF BeginShutdown, RecoveryInv, RecoveryTypeOK, TypeOK
  <1>7. RunningMatchesSession' BY <1>3, <1>4 DEF RunningMatchesSession
  <1>8. OnlyWithheld' /\ SentiphSound(saved') /\ NothingFeigned'
    <2>1. CASE \E t \in Ids : Live(t)
      <3>1. saved' = terminals' BY <2>1 DEF BeginShutdown
      <3> QED BY <1>3, <1>5, <3>1 DEF OnlyWithheld, Withheld, NothingFeigned
    <2>2. CASE ~\E t \in Ids : Live(t)
      <3>1. saved' = saved BY <2>2 DEF BeginShutdown
      <3>2. \A t \in Ids : terminals'[t] = terminals[t] BY <1>2, <2>2
      <3> QED BY <1>4, <2>2, <3>1, <3>2
          DEF RecoveryInv, OnlyWithheld, Withheld, IdUnsaved, NothingFeigned, Known
    <2> QED BY <2>1, <2>2
  <1> QED BY <1>5, <1>6, <1>7, <1>8 DEF RecoveryInv, RecoveryTypeOK, BeginShutdown

LEMMA NextRecovers ==
  ASSUME RecoveryInv, [RecoveryNext]_recoveryVars, RuntimeAssumption
  PROVE  RecoveryInv'
  <1>1. CASE Serve BY <1>1, HandlerKeeps DEF Serve
  <1>2. ASSUME UNCHANGED vars, disk' \in {disk, saved},
            phase' \in {"up", "closing", "flushed", "down"},
               phase' = "down" => phase = "down"
        PROVE  RecoveryInv'
    BY <1>2 DEF vars, RecoveryInv, RecoveryTypeOK, TypeOK, RunningMatchesSession,
                OnlyWithheld, Withheld, IdUnsaved,
                NothingFeigned, Live, Known
  <1>3. CASE Write \/ FlushAtClose
    BY <1>2, <1>3 DEF Write, FlushAtClose, RecoveryInv, RecoveryTypeOK
  <1>4. CASE Crash \/ EndShutdown BY <1>4, LossKeeps DEF Crash, EndShutdown
  <1>5. ASSUME UNCHANGED <<terminals, sessions, sockets, worktrees, saved, disk, phase>>,
               procs' \in [Pids -> Process]
        PROVE  RecoveryInv'
    BY <1>5 DEF RecoveryInv, RecoveryTypeOK, TypeOK, RunningMatchesSession,
                OnlyWithheld, Withheld, IdUnsaved,
                NothingFeigned, Live, Known
  <1>6. CASE ExitWhileDown
    BY <1>5, <1>6 DEF ExitWhileDown, ProcessExits, RecoveryInv, RecoveryTypeOK, TypeOK, Process
  <1>7. ASSUME NEW p \in Pids, ReusePid(p)
        PROVE  RecoveryInv'
    BY <1>5, <1>7 DEF ReusePid, RecoveryInv, RecoveryTypeOK, TypeOK, Process
  <1>8. CASE Restart BY <1>8, RestartKeeps
  <1>9. CASE BeginShutdown BY <1>9, ShutdownKeeps
  <1>10. CASE UNCHANGED recoveryVars
    BY <1>2, <1>10 DEF recoveryVars, vars, RecoveryInv, RecoveryTypeOK
  <1> QED BY <1>1, <1>3, <1>4, <1>6, <1>7, <1>8, <1>9, <1>10 DEF RecoveryNext

LEMMA AlwaysRecovers == RecoverySpec => []RecoveryInv
  <1>1. RuntimeAssumption BY RuntimeAssumption
  <1>2. RecoveryInv /\ [RecoveryNext]_recoveryVars => RecoveryInv' BY <1>1, NextRecovers
  <1> QED BY <1>2, InitRecovers, PTL DEF RecoverySpec

\* At whatever moment the process dies or is closed, and whatever a failing
\* removal, a late write or a failed flush leave in the file: what the API reads
\* back claims nothing of sessions that are gone and has no Sentiph too many.
THEOREM RestartIsSound == RecoverySpec => []AfterRestart
  <1>1. RecoveryInv => AfterRestart
    BY DEF RecoveryInv, AfterRestart, RunningAfterRestart, SentiphAfterRestart,
           SentiphHasOneDouble, SentiphSound
  <1> QED BY <1>1, AlwaysRecovers, PTL

\* A close hands no record to the writer that says "running", unless a session
\* was started while it was under way.
THEOREM CloseIsComplete == RecoverySpec => []CloseLeavesNothingRunning
  <1>1. RecoveryInv => CloseLeavesNothingRunning
    BY DEF RecoveryInv, CloseLeavesNothingRunning, NothingFeigned, LiveIds
  <1> QED BY <1>1, AlwaysRecovers, PTL
=============================================================================
