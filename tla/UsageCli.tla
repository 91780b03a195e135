------------------------------ MODULE UsageCli ------------------------------
(***************************************************************************)
(* How one refresh of the Claude usage asks its two sources: it runs the   *)
(* Claude CLI in a pseudo-terminal, types /usage and reads the screen      *)
(* (claudeUsageCli.ts), and asks the OAuth API when the screen shows no    *)
(* percentage.  What the CLI has printed is the set of the things that the *)
(* code looks for in it.  A timer may fire at any time once it is set,     *)
(* except that the 2500 ms of grace are over before the 3000 ms of retry.  *)
(***************************************************************************)
EXTENDS Naturals

VARIABLES
    cli,      \* spawnCliAndCapture
    stage,    \* where refreshClaudeUsageSnapshot is
    cachedOk, \* getCachedOkSnapshot() has one
    snapshot  \* what the refresh resolves to

usageVars == <<cli, stage, cachedOk, snapshot>>
-----------------------------------------------------------------------------
\* What a chunk may show: the welcome screen, the question for trust; the echo
\* of the command, a section's label, a label with its percentage, the message
\* that usage failed to load.  Other text changes nothing that is told apart.
Startup == {"ready", "trust"}
Rendered == {"echo", "label", "value", "failed"}
UsageCommand == {"echo", "label", "value"}
Stop == {"label", "value", "failed"}

NoSnapshot == [status |-> "none", source |-> "none"]
Unavailable == [status |-> "unavailable", source |-> "none"]
Failed == [status |-> "error", source |-> "none"]

\* held: enterTimer holds one of the running intervals that press Enter.
UsageCliInit ==
    /\ cli = [phase |-> "waiting", buffer |-> {}, usage |-> {}, sends |-> 0, grace |-> TRUE,
              timers |-> {"deadline"}, intervals |-> 0, held |-> FALSE, term |-> "running",
              done |-> FALSE, by |-> "none", result |-> {}]
    /\ stage = "cli" /\ cachedOk \in BOOLEAN /\ snapshot = NoSnapshot

\* finish(result): the timer of the welcome screen is not among those it
\* clears, and of the intervals only the one that is held.
Finish(c, by, result) ==
    IF c.done THEN c
    ELSE [c EXCEPT !.done = TRUE, !.by = by, !.result = result, !.timers = @ \cap {"ready"},
                   !.intervals = IF c.held THEN @ - 1 ELSE @,
                   !.term = IF @ = "running" THEN "killed" ELSE @]

\* What is resolved when time is up or the CLI exits.
Latest(c) == IF c.usage # {} THEN c.usage ELSE c.buffer

\* The write throws, if at all, when the CLI has exited.
SendUsageCommand(c) ==
    LET sent == [c EXCEPT !.usage = {}, !.grace = FALSE, !.sends = @ + 1]
    IN {[sent EXCEPT !.intervals = @ + 1, !.held = TRUE, !.timers = @ \cup {"retry"}]}
       \cup {failed \in {Finish(sent, "write", {})} : c.term = "exited"}

\* A chunk of the CLI's output, maybe of a CLI that has just been killed.
\* Once the question for trust is in the buffer every chunk is answered "y".
Data(shown) ==
    LET buffer == cli.buffer \cup {shown}
        usage == IF cli.phase = "capturing" THEN cli.usage \cup {shown} ELSE cli.usage
        read == [cli EXCEPT !.buffer = buffer, !.usage = usage]
    IN /\ cli.term # "gone"
       /\ cli' =
            CASE "trust" \in buffer -> read
              [] "trust" \notin buffer /\ cli.phase = "waiting" ->
                   IF "ready" \in buffer
                   THEN [read EXCEPT !.phase = "capturing", !.usage = {},
                                     !.timers = @ \cup {"ready"}]
                   ELSE read
              [] "trust" \notin buffer /\ cli.phase = "capturing" ->
                   IF cli.grace /\ usage \cap UsageCommand # {} /\ usage \cap Stop # {}
                   THEN [read EXCEPT !.timers = @ \cup {"settle"}]
                   ELSE read
       /\ UNCHANGED <<stage, cachedOk, snapshot>>

CliOutput == \E shown \in IF cli.sends = 0 THEN Startup ELSE Rendered : Data(shown)

GracePasses ==
    /\ ~cli.grace /\ cli' = [cli EXCEPT !.grace = TRUE]
    /\ UNCHANGED <<stage, cachedOk, snapshot>>

Fired(timer) == [cli EXCEPT !.timers = @ \ {timer}]

ReadyTimer ==
    /\ "ready" \in cli.timers
    /\ cli' \in IF ~cli.done /\ cli.sends = 0 THEN SendUsageCommand(Fired("ready"))
                                              ELSE {Fired("ready")}
    /\ UNCHANGED <<stage, cachedOk, snapshot>>

\* Mutant: the retry does not look at what has been rendered.
RendersStop(usage) == FALSE

SawStopNeedle(usage) == usage \cap Stop # {}

RetryTimer ==
    /\ "retry" \in cli.timers /\ cli.grace
    /\ cli' \in IF ~cli.done /\ cli.sends < 2 /\ ~SawStopNeedle(cli.usage)
                THEN SendUsageCommand(Fired("retry")) ELSE {Fired("retry")}
    /\ UNCHANGED <<stage, cachedOk, snapshot>>

SettleTimer ==
    /\ "settle" \in cli.timers /\ cli' = Finish(Fired("settle"), "settle", cli.usage)
    /\ UNCHANGED <<stage, cachedOk, snapshot>>

AtDeadline(c) == Finish(c, "deadline", Latest(c))

Deadline ==
    /\ "deadline" \in cli.timers /\ cli' = AtDeadline(Fired("deadline"))
    /\ UNCHANGED <<stage, cachedOk, snapshot>>

\* The CLI exits; onExit comes later.
CliExits ==
    /\ cli.term = "running" /\ cli' = [cli EXCEPT !.term = "exited"]
    /\ UNCHANGED <<stage, cachedOk, snapshot>>

OnExit ==
    /\ cli.term \in {"exited", "killed"}
    /\ cli' = [Finish(cli, "exit", Latest(cli)) EXCEPT !.term = "gone"]
    /\ UNCHANGED <<stage, cachedOk, snapshot>>

\* No claude on the PATH, or no pseudo-terminal: the capture is null.
CannotSpawn ==
    /\ cli.buffer = {} /\ cli.term = "running" /\ cli.phase = "waiting"
    /\ cli' = [Finish(cli, "spawn", {}) EXCEPT !.term = "gone"]
    /\ UNCHANGED <<stage, cachedOk, snapshot>>

-----------------------------------------------------------------------------
(* refreshClaudeUsageSnapshot and readOauthUsageSnapshot.                  *)

\* A failure of both sources serves the cached snapshot, if there is one.
Resolved(s) ==
    IF s.status # "ok" /\ cachedOk THEN [status |-> "ok", source |-> "cached"] ELSE s

\* The screen is parsed; without a percentage the credentials are read.
CliAnswered ==
    /\ stage = "cli" /\ cli.done
    /\ \/ /\ "value" \in cli.result
          /\ stage' = "over" /\ snapshot' = [status |-> "ok", source |-> "cli-pty"]
       \/ "value" \notin cli.result /\ stage' = "credentials" /\ UNCHANGED snapshot
    /\ UNCHANGED <<cli, cachedOk>>

\* Good credentials; none, or without a token or the scope; unreadable ones.
CredentialsRead ==
    /\ stage = "credentials"
    /\ \/ stage' = "fetch" /\ UNCHANGED snapshot
       \/ \E s \in {Unavailable, Failed} : stage' = "over" /\ snapshot' = Resolved(s)
    /\ UNCHANGED <<cli, cachedOk>>

\* A record of windows; 401, 403 or 429; another status or no usable JSON.
ApiAnswered ==
    /\ stage = "fetch" /\ stage' = "over"
    /\ \E s \in {[status |-> "ok", source |-> "oauth-api"], Unavailable, Failed} :
         snapshot' = Resolved(s)
    /\ UNCHANGED <<cli, cachedOk>>

-----------------------------------------------------------------------------
UsageCliNext ==
    \/ CliOutput \/ GracePasses \/ ReadyTimer \/ RetryTimer \/ SettleTimer \/ Deadline
    \/ CliExits \/ OnExit \/ CannotSpawn \/ CliAnswered \/ CredentialsRead \/ ApiAnswered

\* Timers fire and answers come; the CLI need not print or exit.
UsageCliFairness ==
    /\ WF_usageVars(ReadyTimer) /\ WF_usageVars(Deadline)
    /\ WF_usageVars(CliAnswered) /\ WF_usageVars(CredentialsRead) /\ WF_usageVars(ApiAnswered)

UsageCliSpec == UsageCliInit /\ [][UsageCliNext]_usageVars /\ UsageCliFairness

-----------------------------------------------------------------------------
\* Types of the capture.
UsageCliTypeOK ==
    /\ cli.sends \in 0..2 /\ cli.intervals \in 0..2 /\ cli.usage \subseteq Startup \cup Rendered
    /\ cli.term \in {"running", "exited", "killed", "gone"}
    /\ stage \in {"cli", "credentials", "fetch", "over"}

\* spawnCliAndCapture "Capture only the latest /usage render": a capture that
\* settled holds a usage view, which the retry has not thrown away under the
\* settle timer; and no timer types into a terminal whose capture is over, so
\* that of the Enter intervals at most the one the retry lost goes on.
SettledShowsUsage ==
    /\ cli.by = "settle" => cli.result \cap Stop # {}
    /\ cli.done => cli.intervals <= IF cli.sends = 2 THEN 1 ELSE 0

\* The capture of the CLI's usage view holds one when it settled.
CliSafe == UsageCliTypeOK /\ SettledShowsUsage

\* What comes in the end: whatever the CLI prints, or if it hangs, the refresh
\* comes to an end (and with it the "in flight" of the cache that all later
\* requests wait for).
RefreshEnded == stage = "over"
=============================================================================
