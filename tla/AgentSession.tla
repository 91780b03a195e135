----------------------------- MODULE AgentSession -----------------------------
(***************************************************************************)
(* One terminal whose sessions follow each other: how its agent is         *)
(* launched and briefed through the PTY, how its state is guessed from     *)
(* what it prints, and what metrics and transcript record of it.  A chunk  *)
(* of output is its kind; time is counted in ticks of which IdleAfter make *)
(* the idle delay, and is measured up to MaxTime; timers may be late.      *)
(***************************************************************************)
EXTENDS Integers, Sequences, FiniteSets

CONSTANTS
    IdleAfter,    \* DEFAULT_IDLE_AFTER_MS, in ticks
    MaxEvents,    \* MAX_EVENTS_PER_TERMINAL
    MaxTime,      \* bound on the time that is measured
    MaxSessions,  \* bound on the sessions, and on the ids given to Claude
    MaxInputs     \* bound on what users type into one session

ASSUME AgentAssumption ==
    IdleAfter \in Nat /\ MaxEvents \in Nat /\ MaxTime \in Nat /\ MaxSessions \in Nat \ {0}

VARIABLES
    record,         \* what the registry says of the terminal
    agent,          \* its session, or NoSession
    pty,            \* what was written to the process of the session
    conversations,  \* ids of the Claude sessions that have a transcript on disk
    given,          \* how often each id was passed to claude --session-id
    transcript,     \* the last event of the terminal's transcript, or "none"
    acc,            \* the metrics accumulator, or NoAcc
    summary,        \* what the last ending added to summaries.jsonl, until a start
    clock, quiet    \* ticks since the session started, and since it showed activity

agentVars == <<record, agent, pty, conversations, given, transcript, acc, summary,
               clock, quiet>>

-----------------------------------------------------------------------------
Ids == 1..MaxSessions
NoId == 0

\* life: lifecycleState, as far as the launch depends on it.
Record ==
    [life : {"registered", "running", "stopped", "exited", "stale"},
     provider : {"claude-code", "other"},
     claude : Ids \cup {NoId}, brief : SUBSET {"prompt", "draft"}]

LaunchPlan == [how : {"plain", "new", "resume", "continue"}, id : Ids \cup {NoId}]

\* state, left, head: the tracker's state, the ticks to its idle deadline, and
\* does its carry end in the beginning of "esc to interrupt"?
Agent ==
    [launch : LaunchPlan, booted : BOOLEAN,
     timers : SUBSET {"prompt", "submit", "draft"},
     shown : {"idle", "processing"}, state : {"idle", "processing"},
     left : 0..IdleAfter, head : BOOLEAN]

NoSession == [state |-> "none"]
NoAcc == [current |-> "none"]
Finds == {"tool", "error"}
Times == 0..MaxTime
Spent == [idle : Times, processing : Times]

Accumulator ==
    [entered : Times, current : {"idle", "processing"}, spent : Spent,
     tools : SUBSET {"tool"}, events : 0..MaxEvents]

NoSummary == [outcome |-> "none"]
Summary == [lasted : Times, spent : Spent,
            outcome : {"killed", "stopped", "success", "error", "unknown"}]

AgentInit ==
    /\ record \in [life : {"registered"}, provider : {"claude-code", "other"},
                   claude : {NoId}, brief : SUBSET {"prompt", "draft"}]
               \cup [life : {"stopped"}, provider : {"claude-code"},
                     claude : {NoId, 1}, brief : {{}}]
    /\ agent = NoSession
    /\ pty = <<>>
    /\ conversations \in SUBSET ({record.claude} \ {NoId})
    /\ given = [i \in Ids |-> IF i = record.claude THEN 1 ELSE 0]
    /\ transcript = "none"
    /\ acc = NoAcc
    /\ summary = NoSummary
    /\ clock = 0 /\ quiet = 0

-----------------------------------------------------------------------------
\* randomUUID: an id that nobody was given yet, as long as the bound has one.
HasFreshId == \E i \in Ids : given[i] = 0
FreshId == IF HasFreshId THEN CHOOSE i \in Ids : given[i] = 0 ELSE NoId

\* Mutant: an id whose conversation was never saved is given to Claude again.
PlanSameId ==
    IF record.provider # "claude-code" THEN [how |-> "plain", id |-> NoId]
    ELSE IF record.claude \in conversations THEN [how |-> "resume", id |-> record.claude]
    ELSE [how |-> "new", id |-> IF record.claude # NoId THEN record.claude ELSE FreshId]

\* planClaudeBootstrap and buildBootstrapCommand: with which flags.
PlanClaudeBootstrap ==
    IF record.provider # "claude-code" THEN [how |-> "plain", id |-> NoId]
    ELSE IF record.claude \in conversations THEN [how |-> "resume", id |-> record.claude]
    ELSE IF record.claude = NoId /\ record.life \in {"stopped", "exited", "stale"}
      THEN [how |-> "continue", id |-> NoId]
    ELSE [how |-> "new", id |-> FreshId]

\* The record after planning: a new id is persisted with it.
Planned(plan) ==
    IF plan.how = "new" THEN [record EXCEPT !.claude = plan.id] ELSE record

\* ensureAgentBootstrapped: once per session.
Bootstrap(a) ==
    IF a.booted THEN <<a, pty>>
    ELSE << [a EXCEPT !.booted = TRUE,
                !.timers = @ \cup (IF "prompt" \in record.brief THEN {"prompt"}
                                   ELSE record.brief)],
            Append(pty, "boot") >>

\* The state tracker: output that means work, or that shows anything at all.
Chunks == {"escapes", "blank", "text", "busy", "head", "tail"} \cup Finds
Visible(c) == c \notin {"escapes", "blank"}
HasProcessingSignal(a, c) == c = "busy" \/ (c = "tail" /\ a.head)

EnterProcessing(a) == [a EXCEPT !.state = "processing", !.left = IdleAfter]

\* Mutant: output that is no signal does not move the deadline.
ObserveSignal(a, c) ==
    IF c = "escapes" THEN a
    ELSE LET carried == [a EXCEPT !.head = (c = "head")] IN
         IF HasProcessingSignal(a, c) THEN EnterProcessing(carried) ELSE carried

ObserveChunk(a, c) ==
    IF c = "escapes" THEN a
    ELSE LET carried == [a EXCEPT !.head = (c = "head"),
                            !.left = IF a.state = "processing" /\ Visible(c)
                                     THEN IdleAfter ELSE @] IN
         IF HasProcessingSignal(a, c) THEN EnterProcessing(carried) ELSE carried

\* Mutant: the deadline is missed unless it is hit by a poll.
PollOnTime(a) ==
    IF a.state = "processing" /\ a.left = 0 /\ quiet = 0 THEN [a EXCEPT !.state = "idle"] ELSE a

PollState(a) ==
    IF a.state = "processing" /\ a.left = 0 THEN [a EXCEPT !.state = "idle"] ELSE a

\* appendEvent: nothing beyond the cap.
Logged(x) == [x EXCEPT !.events = IF @ < MaxEvents THEN @ + 1 ELSE @]

\* emitStateIfChanged, and what the metrics collector makes of the new state.
OnStateChange(x, next) ==
    IF x = NoAcc THEN x
    ELSE IF x.current = next THEN x
    ELSE Logged([x EXCEPT !.spent[x.current] = @ + (clock - x.entered),
                          !.current = next, !.entered = clock])

Emit(a, x) ==
    IF a.state = agent.state \/ a.state = a.shown
    THEN /\ agent' = a
         /\ acc' = x
    ELSE /\ agent' = [a EXCEPT !.shown = a.state]
         /\ acc' = OnStateChange(x, a.state)

\* onOutputChunk: what it finds in the text; a tool is an event once.
OnOutputChunk(x, c) ==
    IF x = NoAcc \/ c \notin Finds THEN x
    ELSE IF c \in x.tools THEN x
    ELSE Logged([x EXCEPT !.tools = @ \cup ({c} \cap {"tool"})])

InferOutcome(reason, exitCode) ==
    IF reason = "operator_kill" THEN "killed"
    ELSE IF reason = "operator_stop" THEN "stopped"
    ELSE IF exitCode = 0 THEN "success"
    ELSE IF exitCode > 0 THEN "error" ELSE "unknown"

-----------------------------------------------------------------------------
\* ensureSession and ensureAgentBootstrapped: a socket, a listener or a
\* creation with a prompt finds no session.
Start ==
    /\ agent = NoSession
    /\ HasFreshId
    /\ LET plan == PlanClaudeBootstrap
           new == [launch |-> plan, booted |-> FALSE, timers |-> {},
                   shown |-> "idle", state |-> "idle", left |-> 0, head |-> FALSE]
       IN /\ record' = [Planned(plan) EXCEPT !.life = "running"]
          /\ given' = IF plan.how = "new" THEN [given EXCEPT ![plan.id] = @ + 1] ELSE given
          /\ agent' = Bootstrap(new)[1]
          /\ pty' = <<"boot">>
          /\ transcript' = "session_start"
          /\ acc' = [entered |-> 0, current |-> "idle", spent |-> [idle |-> 0, processing |-> 0],
                     tools |-> {}, events |-> 0]
          /\ summary' = NoSummary
          /\ clock' = 0 /\ quiet' = 0
    /\ UNCHANGED conversations

\* spawn throws after the launch was planned.
SpawnThrows ==
    /\ agent = NoSession
    /\ HasFreshId
    /\ record' = Planned(PlanClaudeBootstrap)
    /\ given' = IF PlanClaudeBootstrap.how = "new"
                THEN [given EXCEPT ![PlanClaudeBootstrap.id] = @ + 1] ELSE given
    /\ UNCHANGED <<agent, pty, conversations, transcript, acc, summary, clock, quiet>>

\* Another socket, listener or start request finds the session.
Reattach ==
    /\ agent # NoSession
    /\ agent' = Bootstrap(agent)[1]
    /\ pty' = Bootstrap(agent)[2]
    /\ UNCHANGED <<record, conversations, given, transcript, acc, summary, clock, quiet>>

\* schedulePromptTimer: the timer is spent, and its callback runs for this session.
PromptTimer(what, after) ==
    /\ agent # NoSession
    /\ what \in agent.timers
    /\ agent' = [agent EXCEPT !.timers = (@ \ {what}) \cup after]
    /\ pty' = Append(pty, what)
    /\ UNCHANGED <<record, conversations, given, transcript, acc, summary, clock, quiet>>

\* The callbacks of ensureAgentBootstrapped.
PastePrompt == PromptTimer("prompt", {"submit"})
SubmitPrompt == PromptTimer("submit", {})
PasteDraft == PromptTimer("draft", {})

\* A message of a socket, or POST .../input; a line break counts as a submission.
Input(submits) ==
    /\ agent # NoSession
    /\ Len(SelectSeq(pty, LAMBDA w : w = "input")) < MaxInputs
    /\ pty' = Append(pty, "input")
    /\ IF submits
       THEN Emit(EnterProcessing(agent), acc) /\ quiet' = 0
       ELSE UNCHANGED <<agent, acc, quiet>>
    /\ UNCHANGED <<record, conversations, given, transcript, summary, clock>>

\* pty.onData.
Output(c) ==
    /\ agent # NoSession
    /\ Emit(ObserveChunk(agent, c), OnOutputChunk(acc, c))
    /\ quiet' = IF Visible(c) THEN 0 ELSE quiet
    /\ UNCHANGED <<record, pty, conversations, given, transcript, summary, clock>>

\* statePollTimer.
Poll ==
    /\ agent # NoSession
    /\ PollState(agent) # agent
    /\ Emit(PollState(agent), acc)
    /\ UNCHANGED <<record, pty, conversations, given, transcript, summary, clock, quiet>>

\* What was of the session alone goes with it.
Forgotten == pty' = <<>> /\ clock' = 0 /\ quiet' = 0

\* teardownSession: markTerminalEnded and metricsOnSessionEnd, the timers, the
\* transcript, the session map.  exitCode -1: there is none.
End(reason, exitCode) ==
    /\ agent # NoSession
    /\ reason = "pty_exit" <=> exitCode >= 0
    /\ agent' = NoSession
    /\ record' = [record EXCEPT !.life = IF reason = "pty_exit" THEN "exited" ELSE "stopped"]
    /\ transcript' = "session_end"
    /\ summary' = [lasted |-> clock,
                   spent |-> [acc.spent EXCEPT ![acc.current] = @ + (clock - acc.entered)],
                   outcome |-> InferOutcome(reason, exitCode)]
    /\ acc' = NoAcc
    /\ Forgotten
    /\ UNCHANGED <<conversations, given>>

\* Claude writes the transcript of a conversation it was told to begin.
ClaudeSaves ==
    /\ agent # NoSession
    /\ agent.launch.how = "new"
    /\ conversations' = conversations \cup {agent.launch.id}
    /\ UNCHANGED <<record, agent, pty, given, transcript, acc, summary, clock, quiet>>

\* The API dies and starts again: reconcilePersistedLifecycle.
ApiCrash ==
    /\ agent # NoSession
    /\ agent' = NoSession
    /\ acc' = NoAcc
    /\ record' = [record EXCEPT !.life = "stale"]
    /\ Forgotten
    /\ UNCHANGED <<conversations, given, transcript, summary>>

ClockTick ==
    /\ agent # NoSession
    /\ clock' = IF clock < MaxTime THEN clock + 1 ELSE clock
    /\ agent' = [agent EXCEPT !.left = IF @ > 0 THEN @ - 1 ELSE 0]
    /\ quiet' = IF quiet < IdleAfter THEN quiet + 1 ELSE quiet
    /\ UNCHANGED <<record, pty, conversations, given, transcript, acc, summary>>

AgentNext ==
    \/ Start \/ SpawnThrows \/ Reattach
    \/ PastePrompt \/ SubmitPrompt \/ PasteDraft
    \/ \E submits \in BOOLEAN : Input(submits)
    \/ \E c \in Chunks : Output(c)
    \/ Poll \/ ClockTick
    \/ \E reason \in {"pty_exit", "operator_stop", "operator_kill", "session_close"},
          exitCode \in {-1, 0, 1} : End(reason, exitCode)
    \/ ClaudeSaves \/ ApiCrash

\* The timers of the event loop fire and time passes.
AgentFairness ==
    /\ WF_agentVars(PastePrompt)
    /\ WF_agentVars(SubmitPrompt)
    /\ WF_agentVars(PasteDraft)
    /\ WF_agentVars(Poll)
    /\ WF_agentVars(ClockTick)

AgentSpec == AgentInit /\ [][AgentNext]_agentVars /\ AgentFairness

-----------------------------------------------------------------------------
\* The variables have their types.
AgentTypeOK ==
    /\ record \in Record
    /\ agent \in Agent \cup {NoSession}
    /\ pty \in Seq({"boot", "prompt", "submit", "draft", "input"})
    /\ conversations \subseteq Ids
    /\ given \in [Ids -> Nat]
    /\ transcript \in {"none", "session_start", "session_end"}
    /\ acc \in Accumulator \cup {NoAcc}
    /\ summary \in Summary \cup {NoSummary}
    /\ clock \in Times /\ quiet \in 0..IdleAfter

\* What a session's process is told: the command first and once, then the
\* prompt or the draft once, and a prompt is submitted after it was pasted;
\* whichever sockets, listeners and requests find the session in between.
BriefedOnce ==
    agent # NoSession =>
        LET Pos(w) == {i \in DOMAIN pty : pty[i] = w} IN
        /\ Pos("boot") = {1}
        /\ Cardinality(Pos("prompt") \cup Pos("draft")) <= 1
        /\ Cardinality(Pos("submit")) <= Cardinality(Pos("prompt"))
        /\ \A i \in Pos("prompt"), j \in Pos("submit") : i < j
        /\ "submit" \in agent.timers => Pos("prompt") # {} /\ Pos("submit") = {}

\* No two launches begin a Claude session of the same id (the CLI aborts), and
\* only saved conversations are resumed.
OwnConversation ==
    /\ \A i \in Ids : given[i] <= 1
    /\ agent # NoSession /\ agent.launch.how = "resume" => agent.launch.id \in conversations

\* The metrics account for every moment of a session, through all changes of
\* state: the time of the accumulator and of each summary adds up, the state
\* it counts is the one shown; transcript and summaries pair up.
SessionsAccounted ==
    /\ agent = NoSession <=> acc = NoAcc
    /\ agent # NoSession =>
         /\ acc.current = agent.shown
         /\ acc.spent.idle + acc.spent.processing = acc.entered
         /\ transcript = "session_start"
    /\ summary # NoSummary =>
         /\ summary.spent.idle + summary.spent.processing = summary.lasted
         /\ transcript = "session_end"

\* The agent of a terminal: it is briefed once and in order, has a conversation
\* of its own, and transcript, metrics and state shown agree.
AgentSafe == AgentTypeOK /\ BriefedOnce /\ OwnConversation /\ SessionsAccounted

\* A step: an agent is shown as idle again only when nothing was printed, and nothing
\* submitted, for the whole idle delay.
BusyUntilQuiet ==
    agent # NoSession /\ agent' # NoSession /\ agent.shown = "processing"
        /\ agent'.shown = "idle" => quiet = IdleAfter

\* What waits, and what comes of it: a prompt is submitted unless its session
\* ends before that.
PromptWaits == agent # NoSession /\ "prompt" \in agent.timers
PromptSubmitted == agent = NoSession \/ \E i \in DOMAIN pty : pty[i] = "submit"

\* What lasts, and what is true again and again then: an agent that stays quiet
\* is shown as idle, or is over.
StaysQuiet == quiet > 0
ShownIdle == agent = NoSession \/ agent.shown = "idle"
=============================================================================
