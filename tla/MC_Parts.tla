------------------------------ MODULE MC_Parts ------------------------------
(***************************************************************************)
(* Small instances of the parts of the system that share no state with one *)
(* another, checked in one run: every behaviour is of one part, and the    *)
(* others stay in one of their initial states.  The bounds are in the cfg. *)
(***************************************************************************)
EXTENDS RegistryPersistence, AgentSession, GitLifecycle, UiState, GithubSummary,
        ProjectStartup, CanvasPanels, TerminalStream, SelfUpdate, UsageCli, MetricsStore

CONSTANTS d1, d2, l1, l2, t1, t2, none, c0, c1, tab, a, b

VARIABLE part  \* the part that a behaviour is of

PaneSize == << <<80, 24>>, <<12, 6>> >>  \* the second is smaller than any PTY
PaneSizes == {PaneSize[1], PaneSize[2]}
PtySize == <<120, 35>>
LegacyPorts == [path \in {a, b} |-> IF path = a THEN 2 ELSE 0]

partVars == <<vars, agentVars, gitVars, uiVars, githubVars, startupVars, canvasVars,
              streamVars, updateVars, usageVars, metricsVars>>
partsVars == <<part, partVars>>

-----------------------------------------------------------------------------
\* Where a part has several initial states, one of them stands for it in the
\* behaviours of the others.
PartsInit ==
    /\ part \in {"registry", "agent", "git", "ui", "github", "startup", "canvas", "stream",
                 "update", "cli", "metrics"}
    /\ Init /\ (part # "registry" => history = <<d1>>)
    /\ AgentInit
    /\ part # "agent" =>
         record.life = "registered" /\ record.provider = "other" /\ record.brief = {}
    /\ GitInit /\ (part # "git" => present = {})
    /\ UiInit /\ (part # "ui" => existing = {})
    /\ GithubInit
    /\ StartupInit /\ initialized = {a}
    /\ CanvasInit /\ (part # "canvas" => alive = {})
    /\ StreamInit /\ pane.fit = PaneSize[1]
    /\ UpdateInit /\ (part # "update" => source = "git")
    /\ UsageCliInit /\ (part # "cli" => ~cachedOk)
    /\ MetricsInit

\* A step of the part that the behaviour is of.
OnePart ==
    /\ UNCHANGED part
    /\ part # "registry" => UNCHANGED vars
    /\ part # "agent" => UNCHANGED agentVars
    /\ part # "git" => UNCHANGED gitVars
    /\ part # "ui" => UNCHANGED uiVars
    /\ part # "github" => UNCHANGED githubVars
    /\ part # "startup" => UNCHANGED startupVars
    /\ part # "canvas" => UNCHANGED canvasVars
    /\ part # "stream" => UNCHANGED streamVars
    /\ part # "update" => UNCHANGED updateVars
    /\ part # "cli" => UNCHANGED usageVars
    /\ part # "metrics" => UNCHANGED metricsVars

PartsNext ==
    /\ \/ part = "registry" /\ Next
       \/ part = "agent" /\ AgentNext
       \/ part = "git" /\ GitNext
       \/ part = "ui" /\ UiNext
       \/ part = "github" /\ GithubNext
       \/ part = "startup" /\ StartupNext
       \/ part = "canvas" /\ CanvasNext
       \/ part = "stream" /\ StreamNext
       \/ part = "update" /\ UpdateNext
       \/ part = "cli" /\ UsageCliNext
       \/ part = "metrics" /\ MetricsNext
    /\ OnePart

\* The variables of the part that the behaviour is of.
movingVars ==
    CASE part = "registry" -> vars
      [] part = "agent" -> agentVars
      [] part = "git" -> gitVars
      [] part = "ui" -> uiVars
      [] part = "github" -> githubVars
      [] part = "startup" -> startupVars
      [] part = "canvas" -> canvasVars
      [] part = "stream" -> streamVars
      [] part = "update" -> updateVars
      [] part = "cli" -> usageVars
      [] part = "metrics" -> metricsVars

\* The weak fairness of each part, for the behaviours that are of it: as the part
\* never changes, one formula can stand for an action of each of them.
Fair1 ==
    /\ \/ part = "registry" /\ DebounceFires
       \/ part = "agent" /\ PastePrompt
       \/ part = "git" /\ \E s \in 1..MaxReqs : ServeRead(s) \/ ServeMutation(s) \/ Refuse(s)
       \/ part = "github" /\ ServeSummary
       \/ part = "canvas" /\ CommitRender
       \/ part = "stream" /\ SendResize
       \/ part = "cli" /\ Deadline
    /\ UNCHANGED part

Fair2 ==
    /\ \/ part = "registry" /\ (WriteDone(l1) \/ WriteFails(l1))
       \/ part = "agent" /\ SubmitPrompt
       \/ part = "git" /\ \E s \in 1..MaxReqs : ReceiveRead(s) \/ ReceiveMutation(s)
       \/ part = "github" /\ Collect
       \/ part = "canvas" /\ \E k \in Askers : ServeSpawn(k) \/ SpawnFails(k)
       \/ part = "stream" /\ ReceiveResize
       \/ part = "cli" /\ (CliAnswered \/ CredentialsRead \/ ApiAnswered)
    /\ UNCHANGED part

Fair3 ==
    /\ \/ part = "registry" /\ (WriteDone(l2) \/ WriteFails(l2))
       \/ part = "agent" /\ Poll
       \/ part = "github" /\ Expire
       \/ part = "stream" /\ Receive
    /\ UNCHANGED part

Fair4 ==
    /\ \/ part = "registry" /\ LoopSettles(l1)
       \/ part = "agent" /\ ClockTick
       \/ part = "github" /\ Tick
    /\ UNCHANGED part

Fair5 ==
    /\ \/ part = "registry" /\ LoopSettles(l2)
       \/ part = "github" /\ ReceiveSummary
    /\ UNCHANGED part

\* A render takes the session id from the node for a moment, so the answer of a
\* spawn is not received without interruption.
StronglyFair == part = "canvas" /\ (\E k \in Askers : ReceiveSpawn(k)) /\ UNCHANGED part

PartsFairness ==
    /\ WF_movingVars(Fair1) /\ WF_movingVars(Fair2) /\ WF_movingVars(Fair3)
    /\ WF_movingVars(Fair4) /\ WF_movingVars(Fair5)
    /\ SF_movingVars(StronglyFair)

PartsSpec == PartsInit /\ [][PartsNext]_partsVars /\ PartsFairness

-----------------------------------------------------------------------------
\* The safety properties are those of the modules: RegistrySafe, AgentSafe,
\* GitSafe, UiSafe, GithubSafe, StartupSafe, CanvasSafe, StreamSafe, UpdateSafe,
\* CliSafe and MetricsSafe, each of them named after its part.

\* What is true in the behaviours of one part, and what is true in all others.
InPart(p, P) == part = p /\ P
IfPart(p, P) == part = p => P

\* No step shows a busy agent as idle before it was quiet for long enough, and
\* none takes the history that a page shows back.
StepsForward ==
    [][ /\ part = "agent" => BusyUntilQuiet
        /\ part = "github" => ShownNeverGoesBack ]_partsVars

\* The agents: a prompt that waits is submitted, an agent that stays quiet is
\* shown as idle, and the refresh of the usage ends.
AgentsFollowThrough ==
    /\ InPart("agent", PromptWaits) \/ part = "cli"
       ~> IfPart("agent", PromptSubmitted) /\ IfPart("cli", RefreshEnded)
    /\ <>[]InPart("agent", StaysQuiet) => []<>IfPart("agent", ShownIdle)

\* What the page waits for, at most three things in one part; a part has no other.
WaitedFor(i) ==
    \/ InPart("git", <<DialogMutates, IsLoading("status", t1), IsLoading("pr", t1)>>[i])
    \/ InPart("canvas", ClickInFlight)
    \/ InPart("github", Committed(i))
    \/ InPart("stream", i \in 1..2 /\ Unreported(PaneSize[i]))

Served(i) ==
    /\ IfPart("git", <<~DialogMutates, ~IsLoading("status", t1), ~IsLoading("pr", t1)>>[i])
    /\ IfPart("canvas", ~ClickInFlight)
    /\ IfPart("github", CommitShown(i))
    /\ IfPart("stream", i \in 1..2 => Reached(PaneSize[i]))

\* The page: the git dialog and the Sentiph node become usable again, a commit
\* is shown, and a size that the pane has not reported reaches the process.
PageFollowsThrough == \A i \in 1..3 : WaitedFor(i) ~> Served(i)
=============================================================================
