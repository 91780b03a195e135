-------------------------- MODULE TerminalRecovery --------------------------
(***************************************************************************)
(* The terminal runtime together with its registry file: crashes, restarts *)
(* and graceful shutdowns of the API process.  The writer of the registry  *)
(* is RegistryPersistence; here a write is the moment whose snapshot the   *)
(* file will hold (the file is only read at the next start, so it does not *)
(* matter that the rename comes a little later).                           *)
(***************************************************************************)
EXTENDS TerminalRuntime

CONSTANT PidReuse   \* may the system give the pid of a dead process away?

ASSUME RecoveryAssumption == PidReuse \in BOOLEAN

VARIABLES
    disk,    \* the records in the registry file
    phase    \* "up", "closing" and "flushed" (within runtime.close), or "down"

recoveryVars == <<terminals, sessions, sockets, procs, worktrees, saved, disk, phase>>

RecoveryTypeOK ==
    /\ TypeOK
    /\ disk \in [Ids -> Record]
    /\ phase \in {"up", "closing", "flushed", "down"}

RecoveryInit ==
    /\ Init
    /\ disk = saved
    /\ phase = "up"

-----------------------------------------------------------------------------
NoTerminals == [t \in Ids |-> NoTerminal]
NoSessions == [t \in Ids |-> NoSession]

\* Mutant: running records are restored as they are.
ReconciledNever(r) == r

\* reconcilePersistedLifecycle: no session survives a restart, the recorded
\* process may; it stays recorded.
Reconciled(r) == IF r.state = "running" THEN [r EXCEPT !.state = "stale"] ELSE r

\* The handlers go on running until the process exits, during a close as well.
Serve ==
    /\ phase # "down"
    /\ Next
    /\ UNCHANGED <<disk, phase>>

\* The writer replaces the file by the records last scheduled.
Write ==
    /\ phase # "down" /\ disk # saved
    /\ disk' = saved
    /\ UNCHANGED <<vars, phase>>

\* The memory of the API process is gone; the processes it started may go on.
MemoryLost ==
    /\ terminals' = NoTerminals
    /\ saved' = NoTerminals
    /\ sessions' = NoSessions
    /\ sockets' = [c \in Sockets |-> NoPid]
    /\ phase' = "down"
    /\ UNCHANGED <<procs, worktrees>>

Crash ==
    /\ phase # "down"
    /\ MemoryLost
    /\ UNCHANGED disk

\* While the API is down its former processes may exit.
ExitWhileDown ==
    /\ phase = "down"
    /\ \E p \in Pids : ProcessExits(p)
    /\ UNCHANGED <<disk, phase>>

\* The system gives the pid of a dead process to a program of the user's.  It
\* leaves the pids alone whose exit the PTY has yet to report.
ReusePid(p) ==
    /\ PidReuse
    /\ procs[p].status = "dead"
    /\ \A t \in Ids : sessions[t].pid # p
    /\ procs' = [procs EXCEPT ![p] = [status |-> "alive", owner |-> NoId]]
    /\ UNCHANGED <<terminals, sessions, sockets, worktrees, saved, disk, phase>>

\* createTerminalRuntime: the file is loaded and reconciled.
Restart ==
    /\ phase = "down"
    /\ terminals' = [t \in Ids |-> Reconciled(disk[t])]
    /\ saved' = terminals'
    /\ phase' = "up"
    /\ UNCHANGED <<sessions, sockets, procs, worktrees, disk>>

\* Mutant: the sessions are dropped without ending their records.
BeginShutdownSilently ==
    /\ phase # "down"
    /\ sessions' = NoSessions
    /\ procs' = Signalled(SessionPids(Ids))
    /\ phase' = "closing"
    /\ UNCHANGED <<terminals, saved, sockets, worktrees, disk>>

\* runtime.close, on the first signal or a later one, tears every session down.
BeginShutdown ==
    /\ phase # "down"
    /\ terminals' = [t \in Ids |-> IF Live(t) THEN Ended(terminals[t], "stopped")
                                             ELSE terminals[t]]
    /\ sessions' = NoSessions
    /\ procs' = Signalled(SessionPids(Ids))
    /\ saved' = IF \E t \in Ids : Live(t) THEN terminals' ELSE saved
    /\ phase' = "closing"
    /\ UNCHANGED <<sockets, worktrees, disk>>

\* The registry is flushed; a write that fails is only warned about.
FlushAtClose ==
    /\ phase = "closing"
    /\ disk' \in {disk, saved}
    /\ phase' = "flushed"
    /\ UNCHANGED vars

\* The server is closed and the process exits.
EndShutdown ==
    /\ phase = "flushed"
    /\ MemoryLost
    /\ UNCHANGED disk

RecoveryNext ==
    \/ Serve
    \/ Write
    \/ Crash
    \/ ExitWhileDown
    \/ \E p \in Pids : ReusePid(p)
    \/ Restart
    \/ BeginShutdown
    \/ FlushAtClose
    \/ EndShutdown

RecoverySpec == RecoveryInit /\ [][RecoveryNext]_recoveryVars

-----------------------------------------------------------------------------
\* Whatever the file said when the process died, a record of the running API
\* says "running" only while one of its own sessions is behind it.
RunningAfterRestart == phase # "down" => RunningMatchesSession

\* The file is one snapshot, never a mixture of two: it holds at most one Sentiph
\* beside the terminal with Sentiph's id, and no more come back, whenever the
\* crash happens.
SentiphAfterRestart == SentiphHasOneDouble /\ AtMostOneBeside(disk)

\* Unless a session was started while it was closing, the API hands over no
\* record that says "running" before it exits.
CloseLeavesNothingRunning ==
    phase \in {"closing", "flushed"} /\ LiveIds = {} =>
        \A t \in Ids : saved[t].state # "running"

\* What the API believes after it has read the file back is of the right types,
\* claims nothing of sessions that are gone, and has no Sentiph too many.
AfterRestart == RecoveryTypeOK /\ RunningAfterRestart /\ SentiphAfterRestart
=============================================================================
