# Verification of Sentiph

TLA+ models of Sentiph: of its API process (`apps/api`), of the web client
(`apps/web`) as far as it keeps state of its own, and of the processes that are
started on one machine. They are checked with TLC and, where stated, proved with
TLAPS. Everything is translated from the source; `PROJECT.json` ("map") names the
lines of every definition.

Sentiph runs coding agents in terminals. One Node.js process, the API, keeps a
registry of *terminal records*, starts a PTY *session* behind a record when
somebody attaches to it (or when it was created with a prompt), serves the PTY's
output over WebSockets, saves the registry to `state/tentacles.json`, and tells
web clients over a second WebSocket what changed. Around that it collects
metrics, git and GitHub state and the usage of the agents' subscriptions, keeps
the UI state of the page, and updates itself. Node and the page run one handler
at a time, so the hard behaviours are not data races. They are: events that arrive
later than what caused them, timers that race with requests, `await`s inside a
handler, effects that see the state of an earlier rendering, failures halfway
through a handler, processes that share a file, and crashes between two steps.

## 1. Inventory

| Component | Source | State | Operations | Interacts with | Model |
|---|---|---|---|---|---|
| Terminal runtime | `terminalRuntime/` (`sessionRuntime`, `sessionBootstrap`, `sessionLifecycle`, `terminalFactory`, `terminalLifecycle`, `worktreeManager`) | maps `terminals` and `sessions`, open sockets, PTY processes, worktree directories | create, attach, detach, stop, kill, prune, delete (cascading), idle close, exit of a process, reopening Sentiph | hands records to the registry writer, broadcasts events | `ProcessPool`, `TerminalRuntime` |
| Recovery | `server.ts`, `registry.ts` (load), `terminalLifecycle.ts` (reconcile) | the registry file, what the process knows | crash, restart, two-step shutdown | restores the runtime from the file | `TerminalRecovery` |
| Registry persistence | `registry.ts` (writer) | pending document, debounce timer, write loop, file | schedule, debounce, write, settle, flush, close | called by every handler that changes a record | `DurableRegister`, `RegistryPersistence` |
| Agent session | `sessionBootstrap.ts`, `claudeBootstrap.ts`, `agentStateDetection.ts`, `agentMetricsCollector.ts` | Claude's session id, prompt timers, state tracker, metrics accumulator | plan the launch, bootstrap once, paste, submit, observe output, poll the idle deadline, sum up at the end | reads the PTY's output; ended by the lifecycle | `AgentSession` |
| Terminal events and the client's view | `terminalSnapshot.ts`, the broadcasts of `terminalLifecycle.ts`; `useTerminalEventsSocket.ts`, `useInitialColumnsHydration.ts`, `terminalRuntimeStateStore.ts`, `App.tsx` | events on their way, refetches under way; the client's list and its store of agent states | broadcast, receive, break, reconnect, refetch, hydrate, reconcile | told by the runtime | `TerminalEvents` |
| Terminal stream | `useTerminalSocket.ts`, `useXtermInstance.ts`; `sessionRuntime.ts` (upgrade, resize), `terminalOutput.ts` | socket, backoff, buffers, screen, size; scrollback and size of the PTY | connect, back off, replay, buffer, fit, resize | attaches to a session | `TerminalStream` |
| Canvas | `CanvasPrimaryView.tsx` and its hooks, `DeleteAllTerminalsDialog.tsx` | open panels, reported ids, what is to be opened next, the sweep | effects of a render, click, minimize, create, delete all | the list of terminals, the UI state | `CanvasPanels` |
| UI state | `usePersistedUiState.ts`; `uiState` in `sessionRuntime.ts` and `registry.ts` | what the page shows, the baseline it saved, the API's copy | hydrate, change, debounced PATCH, prune, restart | pruned when terminals go | `UiState` |
| Git actions | `useAgentGitLifecycle.ts`; `gitOps.ts` and its routes | dialog, requests, read cache, repository | fetch, commit, push, sync, merge, close | worktrees of terminals | `GitLifecycle` |
| GitHub summary | `githubRepoSummary.ts`, `usePollingData.ts` | cache, refresh in flight, polled data | collect, serve, expire, poll, forced refresh | git, `gh` | `GithubSummary` |
| Claude usage: cache | `claudeUsage.ts`, `claudeUsageCache.ts` | cached snapshot and its age, refresh in flight, snapshot file | read (two modes), two direct reads, refresh, persist, invalidate | invalidated by the session-start hook | `UsageCache` |
| Claude usage: sources | `claudeUsageCli.ts`, `claudeUsage.ts` | the capture of the CLI's screen, its five timers | answer prompts, type, retry, settle, give up, fall back to OAuth | a refresh of the cache | `UsageCli` |
| Agent metrics store | `agentMetricsStore.ts` | run log, memo of its content | append, load, three views | written by the agent sessions | `MetricsStore` |
| Started processes | `cli.ts`, `projectPersistence.ts`, `runtimeMetadata.ts` | `projects.json`, scaffold, `runtime.json`, ports | dashboard, init, migration, terminal commands, shutdown, crash | other processes of the same user | `ProjectStartup` |
| Updates | `updates.ts`, `UpdatesSettingsSection.tsx` | package on disk, installations, the page's section | check, pull, install, build, restart | ends the API | `SelfUpdate` |
| Codex usage | `codexUsage.ts` | – | read a log | – | not modelled |
| Transcripts, conversations | `sessionLogging.ts`, `conversationStore.ts` | logs | append, search | – | not modelled |
| HTTP front end, pairing, hooks | `createApiServer/` | rate-limit windows | routing, checks | everything above | not modelled |
| MCP server, prompts, rendering, core package | `sentiphMcp.ts`, `prompts/`, components, `packages/core` | – | – | the API | not modelled |

What makes each correct, and is hard to get right:

- *Terminal runtime.* The record, the session map, the sockets and the processes
  are four views of one thing that are updated by different handlers at different
  times. They must agree after every handler; no process may be left without a
  session, no session without somebody or something that ends it; the limits hold
  on every path that starts a session; a delete takes whole families or leaves
  something to retry.
- *Recovery.* What is read back is an old snapshot. Nothing in it may be taken
  for running, and it brings back no Sentiph too many.
- *Persistence.* The last document handed over reaches the file, documents never
  go backwards, whatever is skipped, fails or is cut off.
- *Agent session.* However often and by whomever a session is found, its agent is
  launched once, briefed once and in order, never with a conversation id that was
  given away before; busy and idle follow the output; metrics and transcript
  account for the whole session.
- *Terminal events.* A client hears of changes on one channel and of whole states
  on others, which overtake each other. When it has received everything it must
  know what exists, and must not show the state of an earlier moment.
- *Terminal stream.* Nothing is shown twice, out of order or not at all, although
  the history comes again with every connection and messages come before the
  xterm does, and the banner of a resumed session before the history that holds it;
  the PTY gets the size of the pane, or the least size it can have.
- *Canvas, UI state.* What is saved is what is open, on both sides of a debounced
  request; a page that is opened changes nothing by itself; no flag keeps the user
  from trying again.
- *Git actions, GitHub summary, usage cache.* Caches are never older than what the
  user was told; one refresh at a time, nothing registered that is over; no dialog
  or poll is stuck on an answer that came late, or not at all.
- *Usage sources.* A capture that settled holds a usage view, and ends in any case.
- *Metrics store.* The memo is the file, and three views of one log agree.
- *Started processes.* No registration is lost without overlap or a crash; a command
  reaches the server of its own project, whatever an old version left behind.
- *Updates.* Sources, dependencies, build and the running code are in step; what a
  command left half done is repaired by the next installation.

`PROJECT.json` lists the hazards one by one with their lines and the properties
that cover them.

## 2. Plan

Written so far, most important first: `ProcessPool` and `TerminalRuntime` (which
implements it), `TerminalRecovery` (which extends the runtime), `DurableRegister`
and `RegistryPersistence` (which implements it), `UsageCache`, `TerminalEvents`, then `AgentSession`, `TerminalStream`,
`GitLifecycle`, `UiState`, `CanvasPanels`, `GithubSummary`, `ProjectStartup`,
`SelfUpdate`, `UsageCli` and `MetricsStore`. The theorems are in eight modules:

| Module | About |
|---|---|
| `TerminalRuntime_proofs` | `TerminalRuntime`: types and sessions, processes and its refinement, sockets, records |
| `TerminalRecovery_proofs` | `TerminalRecovery`, on top of the former |
| `RegistryPersistence_proofs` | the two files: `RegistryPersistence` and its refinement, `MetricsStore` |
| `TerminalEvents_proofs` | `TerminalEvents` |
| `UsageCache_proofs` | `UsageCache`, `UsageCli` |
| `Git_proofs` | `GitLifecycle`, `GithubSummary` |
| `ServerParts_proofs` | `SelfUpdate`, `ProjectStartup`, `AgentSession` |
| `PageParts_proofs` | `UiState`, `CanvasPanels`, `TerminalStream` |

With them every safety invariant that a passing run checks is a theorem.

Next:

1. *Abstract specifications* of the parts that have none yet, as
   `DurableRegister` is one for the writer and `ProcessPool` one for the runtime,
   and the refinements: a usage cache that
   answers with what was true at some moment since a request, a terminal's screen
   as a prefix of its output.
2. *What is left of the code*: the HTTP front end with its limits, transcripts and
   conversations, and the parts under "Not modelled" that need a clock.

## 3. The modules

### TerminalRuntime

One action is one handler, from the request or event to its end, with everything
it changes: the record, the session, the process, the worktree, and what it hands
to `schedulePersist`.

| Variable | Code |
|---|---|
| `terminals` | `terminals` map of `createTerminalRuntime`: lifecycle state, recorded pid, parent, Claude's conversation (`claudeSessionId`), and whether the record has a prompt, has Sentiph's tentacle id, is in worktree mode; state `"none"` is "no such key" |
| `sessions` | `sessions` map: PTY pid, `keepAliveWithoutClients`, `clients`, whether `idleTimer` is set; no pid is "no such key" |
| `sockets` | for every open WebSocket the session its close handler captured |
| `procs` | the operating system: unused, alive, signalled, dead, and for whom it was spawned |
| `worktrees` | the directories under `worktrees/` |
| `saved` | the last argument of `schedulePersist` |

Points where the model follows the code closely: the close event of a socket
comes after, possibly long after, the session it belongs to was torn down, and
works on the session it captured (`Detach`); a session is resolved to its
worktree id, so that Sentiph in worktree mode is *not* kept alive (`KeepsAlive`)
and starts with neither clients nor an idle timer; a request may name a tentacle id
or leave it to be the terminal id, and Sentiph is looked for among the records only
if its tentacle id is named (`Fresh`, `Create`), so that the terminal with the id
`SentiphId` can be a second Sentiph; a start puts the conversation it plans
(`PlannedIds`) into the record before it spawns, and when it then fails
(`FailedStart`), of a terminal just created or of an older one (`StartFails`), the
record stays as it is and nobody saves it; a delete visits its cascade one member
after the other, and a worktree that cannot be removed stops it between two of
them (`DeleteFails`), with what was scheduled by then still scheduled
(`SavedMidway`); the spawn may throw (`SpawnMayFail`), and opening the debug log
may throw after it (`LogMayFail`). The last leaks a process for good:
`NoLeakedProcess` is therefore checked without it, in `sessions`, while `faults`
and `restart` have it.

`SentiphIsSingleton` is what a comment of the code claims, and is refuted;
`SentiphHasOneDouble` is what the code keeps of it: beside a terminal with Sentiph's
id there is one Sentiph at most, however often either is deleted and asked for
again. `OnlyIdsUnsaved` says what memory and the records last scheduled may differ
in: conversations that failed starts planned, of terminals without a session.

Abstractions: an id is any free one (this covers both a requested id and
`allocateTerminalId`); a spawn takes a process that was never used; the worktree
of a terminal is the one with its own id; failed requests change nothing and are
stuttering; `Attach` stands for both `handleUpgrade` and `connectDirect`. Names,
UI state, transcript, metrics, resize and input touch none of these variables and
are in other modules or left out. `Visited` says which sets of members a cascade can
have visited: it takes generation after generation (`Reached`), and within one any
order, which is the order of the map.

`ProcessPool` is what the runtime promises about the processes it starts, with no
record, socket or timer in it: a user drives a worker that nobody drove before,
one at a time and within a limit for all users; whoever stops driving has the
worker told to exit; several users may stop at once; a worker may exit by itself,
also while it is driven; a start may fail after the worker is there, which loses
it. `ProcessesArePooled` says that the runtime implements it, with
`drives[t] = sessions[t].pid` and `status[p] = procs[p].status`: attaching,
reopening Sentiph and a create with a prompt are starts, a `FailedStart` whose
process runs is a start that fails, and stops, kills, pruning, the idle timer, a cascade (finished or cut
off half-way) and the exit event are `Stop` of the sessions they end. An exit is
possible at any time, of a driven process too, since the API hears of it later.
What this adds to `ProcessesAccountedFor`, which is about a state, is about steps:
the next session of a terminal never gets a process of an earlier one, and a
process that is driven is signalled by the end of its own session only.

### TerminalRecovery

Extends the runtime with the file (`disk`) and the phase of the process. All
handlers of the runtime stay enabled while it is closing (`Serve`). `Write` puts
the records last scheduled in the file; the time between the start of a write and
its rename does not matter here, since the file is read at a start only, and is
what `RegistryPersistence` is about. `Crash` may come between any two handlers
and also stands for the self-restart of an update. Processes survive the API and
may exit while it is down; with `PidReuse` the system may give their pid to a
stranger. A shutdown is what `server.ts` does: `runtime.close` tears every session
down, flushes the registry (a failing flush is only warned about), the process
exits; a second signal repeats the first step. `Restart` loads and reconciles.

### DurableRegister and RegistryPersistence

`DurableRegister` is the promise: a log of documents, of which one is durable;
the durable one only moves forward, and a crash forgets what is after it.
`RegistryPersistence` is the writer. Documents are named by their position in the
history, 0 is `null`. `promise` is `writeLoopPromise`, and the loops are runs of
its async function; that the loop's last look at `pendingSerialized` and the
`finally` handler are two microtasks is kept (`NextRound`, `LoopSettles`), as is
that `close()` awaits the loop it found only. `Close` cannot come between these
two microtasks (it is called from a signal handler). `Restart` may happen in any
state. Refinement: `log <- history`, `durable <- file`.

A missing file at the first start is treated as one that holds the empty document.
Reading the file back drops some optional fields of a record (color, model,
effort); documents are values here, so this is not visible.

### AgentSession

One terminal whose sessions follow each other. `record` is what the registry says
(lifecycle, provider, `claudeSessionId`, prompt and draft), `agent` the session
with its `isBootstrapped`, its prompt timers and its `AgentStateTracker`, `pty`
everything that was written to the process, in order. `conversations` are the
transcripts on Claude's side, `given` counts how often an id was passed to
`--session-id`. `acc` is the accumulator of the metrics collector and `summary`
the line the last ending wrote. `clock` and `quiet` count ticks; `IdleAfter` of
them are the idle delay. A timer, and the poll of the state, may be arbitrarily
late.

A chunk of output is its kind: escape sequences only, blank, visible text, a
processing signal, the beginning or the rest of one that two chunks share (the
tracker's carry), a tool call, an error. A session that dies with the API leaves no
summary. Two launches cannot be told apart by anything but the id they are given,
so an id is a number and `randomUUID` one that was never given.

### TerminalEvents

The runtime appears as the snapshots it would show (`server`), changed by one
action per kind of handler and with the events that handler broadcasts, in its
order: a start broadcasts before its session is in the map, an ending while it
still is (`Ending`), a cascade announces all deletions after all endings, and a
failing one announces none (`DeleteFails`). Which handlers may run when is the
subject of `TerminalRuntime`; here any terminal may be started, ended, renamed or
deleted in any state in which such a handler broadcasts.

| Variable | Code |
|---|---|
| `link`, `channel` | the events socket of one client and what was sent on it; events arrive in order, and a break loses a suffix of them |
| `fetch` | requests for `/api/terminal-snapshots`: sent, answered with a list, and for the hydration also "agent states stored, UI state awaited" |
| `view`, `agent` | `terminals` of `App.tsx` and the store of agent states |
| `effect` | the effect of the last rendering that has not run yet, with the ids it captured |
| `clean`, `silent`, `missed`, `changes`, `breaks` | history; `clean` says whether the list, and the agent states, were last replaced by an answer that no event overtook |

A refetch replaces whatever events did since it was answered, so no property can
hold for a client whose list comes from an overtaken answer; the properties say
so with `clean`. `silent` exempts ids whose deletion a failing cascade kept to
itself. `AgentStateKeepsUp` speaks of states that are known, not of missing ones:
the effect may drop the state of a terminal that was not in the list it captured,
and the next event brings it back.

Abstractions: agent states are idle or busy; stopped, exited and stale are one
state; names and activity marks are not in the list. The client's handling of
`terminal-list-changed`, with its debounced refresh, is left out: the API never
sends that event. The API does not restart.

### TerminalStream

One pane: `pane` holds the refs of `useTerminalSocket` (connection, attempts) and
of `useXtermInstance` (is the xterm loaded, the two buffers from before, the
screen, the fitted size and the size last sent), `session` the server's side.
A socket is two queues; `down` also carries its open and close events, so that
they stay in order with the messages. Chunks are numbered, so that "twice" and "out
of order" mean something; the scrollback keeps `Keep` chunks, or the tail of one
that is too long. A session that is created may resume a conversation of Claude
(`Created`): its banner is a chunk that is broadcast to the client which made it
start, before that client is sent the history with the same chunk in it (`Upgrade`).
The PTY takes no size below 20 columns and 10 rows (`Clamp`). A pane is fitted by its
observer, which schedules a report (`Resize`), and when the page becomes visible,
which does not (`Refit`); so the run `parts` asks for a size to reach the PTY when a
timer is set for it (`Unreported`). The delay is the number of attempts, up to its
cap. A remount (the panel is closed and opened) starts with new refs.

Left out: typed input and pasted files (sent if the socket is open, dropped if
not), the filter of terminal replies in a replayed history, and state and rename
messages, which `TerminalEvents` has.

### CanvasPanels

React's effects are the difficulty here: they see the state that was rendered, not
the one before them. All effects of one render are one step, `CommitRender`, computed
from one `page`, and `dirty` says which of its dependencies changed; users,
answers and events act between renders (`AtRest`). `page.panels` are
`openTerminalIds`, `page.ids` what is reported to `usePersistedUiState`,
`page.nodes` the graph, which takes over the list with the simulation's next tick;
`pending`, `recent`, `handled`, `auto` and `inFlight` are the refs of the same
purpose. `owed` is history: the panels saved as open when the page was loaded.
The sweep deletes its targets one after the other, and goes on after a failure.

The API's list is read in one step, since `TerminalEvents` has what can come in
between; the PATCH is `UiState`'s. Layout, dragging, pan and zoom, and the start
button of the onboarding hint are left out. So is a terminal whose id is the node
id of another one (`CanvasAssumption`): the API never allocates such an id, but a
client could ask for it.

### UiState

The page (`hydration`, `columns`, `ui`, `baseline`, `saveTimer`) and the API's
copy (`stored`) with its terminals (`existing`), and the PATCHes between them. One
preference stands for each treatment: `nav` is the active view, which a hydration fills with a default; `min`
are minimized terminals, pruned on both sides; `open` are the open panels by node
id, which the page prunes as if they were terminal ids. `doubt` records why the
two copies may legitimately differ: saves that overlapped or failed, a failed
hydration, a change undone while it was being saved, an id reused while somebody
remembers the old one (`"all"`), or only a restart of the API, which does not read
the active view back (`"view"`). The user changes nothing more once they have
parted, which bounds the run but not the API.

### GitLifecycle

What git and GitHub have of a tentacle is a revision that grows with every
change; a status or a pull request is the revision at which it was read. The API's
operations are synchronous and so one step each: the command, the invalidation
of `gitReadCache`, the new state. A refused command may have done a part of its
work (`Refuse`). `reqs` are the client's requests in the order sent; served and
received in any order. `dialog` is the state of `useAgentGitLifecycle`, `acked`
the revision of the last mutation the client was told of. `overlapped` exempts
tentacles for which two requests were under way at a time: their answers may come in
the wrong order, and nothing in the code notices.

### GithubSummary

The history of the repository is the number of its commits; a collection reads
it twice (the log and the statistics), at moments of its own. `refreshes` are the
collections that run and `inFlight` the promise, apart from each other, so that
"one collection, exactly while one is registered" can be violated. `poll` is the
page's hook with its request, its queued refresh and its data. The cache takes
whatever a collection brings, a failure too. The reset of the cache is used by
tests alone and is not modelled.

### UsageCache and UsageCli

In `UsageCache` an action is the code between two `await`s: a read up to the file
(`Read`), the file (`FileRead`), the rest (`Resume`); a refresh asks the sources
(`SourceAnswers`, `SourcesFail`), stores the answer (`CacheOkSnapshot`), writes
the file in two steps, truncation and content (`PersistBegins`, `PersistEnds`),
and settles. A snapshot is the number of the usage it shows. The API calls the
function with `backgroundRefreshOnly`; its other mode is modelled too. The two
sources of a refresh are one step: only the moment at which the answer is formed
matters. What two overlapping writes of the file leave is taken to be what the
later one wrote.

`UsageCli` is what that one step does: the capture (`spawnCliAndCapture`) with
its buffer, its phases and five timers, then the credentials and the OAuth
request. What was printed is the set of needles the code looks for. Timers fire in
any order once they are set, except that the grace of 2500 ms is over before the
retry after 3000 ms. Two peculiarities of the code are kept: a retry overwrites
`enterTimer`, so the first interval that presses Enter is never cleared, and the
question for trust stays in the buffer, so every later chunk is answered "y".

### MetricsStore

`log` are the parsable lines of `summaries.jsonl`, `stat` what the file system
says of it, `torn` that a crash left a line without its end, `cache` the memo.
Appends may fall within one tick of the modification time; the clock may be set
back. The three views are pure operators over the loaded runs, folds as in the
code, the filters among them; averages are kept as sums. The filters by terminal
and by limit are left out.

### ProjectStartup

A number of `sentiph` processes, started one after the other and running side by
side: dashboards, `init` and terminal commands. Each goes through the steps of
`main`, with the read and the write of `projects.json` apart (a file that is just
being written reads as empty, which is what `loadProjectsRegistry` makes of it).
`projects.json` and `runtime.json` are written in place, so a `Crash` may cut them
off: the one then lists no project, the other is `Unreadable`. Dashboards and `init`
migrate (`Migrate`, `Copy`): where no `runtime.json` is seen, one that the workspace
kept from before its state moved is copied, `Legacy` giving its port; no server is
behind it. A source in the directory that was named after the project is not looked
into where `projects.json` has no name for it (`Nameless`). The other files that are
migrated (registry, usage snapshot, transcripts) are copied before the server reads
them and are not followed here.
`unclean` marks state directories whose `runtime.json` may legitimately be wrong:
two dashboards ran in them at a time, one was killed, one was stopped before it
served, or a copy went over what had been written since. `known` are the
registrations that were completed since the file was cut off last. `raced` does the same for overlapping registrations. `reached` is the
last command and the server it went to.

### SelfUpdate

Revisions are numbers: published, sources, installed dependencies, build, and the
code that runs. Installations (`jobs`) are the three commands one after the other,
each of which may fail or be killed at its timeout. A step that fails leaves
nothing, its work half done (`HalfDone`, `disk.half`), or, since what a killed command
had started goes on, all of it; one that comes to its end repairs what was half done
of its own, except that nothing is pulled into a tree that a pull left half done
(`CanEnd`, external). An installation whose server is gone runs its current command to
the end, and nothing follows. `section` is the state of each open settings page.
The server exits without any shutdown and comes up with whatever is built, or
with a mixture (`NoRev`) if something is half done or a command is at work: the prompt
of one installation can be followed after a later one has failed. `complete` says that
the installation begun last came to its end; then nothing is half done, and sources
and build are of one revision. `overlap` is set when two installations ran at a time: nothing prevents it, and
nothing can be said then.

### MC_Parts

The agent, the git dialog, the UI state, the summary, the started processes, the
canvas, the stream, the update, the usage capture, the run log and the registry
writer share no state, so their product would multiply states without adding a
behaviour of interest. `MC_Parts` extends all of their modules and lets a
behaviour be of one of them: `part` is chosen initially and never changes, and the
variables of the other parts stay in one of their initial states. A part's fairness
is its own: since `part` never changes, one formula `Fair1` ("the first fair action
of whichever part this is") is equivalent to one per part. Its invariants are those
of the modules (`AgentSafe`, `GitSafe`, …), each the conjunction of what that
module claims; each is broken by a mutation of that part. `MC_Caches` does the same
for `UsageCache` and `TerminalEvents`, where the requests of the one and the
terminals of the other are the same two model values, so that one small group of
permutations serves both; their safety properties need no `part`, as a part that
stays as it began satisfies them.

## 4. The runs

| Run | Instance | Question |
|---|---|---|
| `sessions` | 2 terminals, one with Sentiph's id, 2 sockets, 2 spawns, limit 1, spawns may fail; a third terminal, see below | do records, sessions, sockets and processes agree; do unattended and dead sessions end; how many Sentiphs can there be |
| `two_sentiphs` | 2 terminals, one with Sentiph's id | *violation*: Sentiph is not a singleton |
| `faults` | 3 terminals, 2 spawns, worktree removal and debug log may fail | what a half-finished cascade leaves behind; does the runtime implement the pool of processes when it ends several sessions at a time and when starts fail |
| `partial_delete` | the same, the log opens | *violation*: a delete does not always take the descendants |
| `restart` | 2 terminals, 2 spawns, 1 socket, 1 conversation, starts may fail, crashes, reuse of pids | what is believed after a restart, and what is handed to the writer, also at a shutdown |
| `parts` | eleven parts, see below | is each of them in step with itself, and does what is waited for happen |
| `panels` | Sentiph and a child, 3 moves | *violation*: saved panels are not restored |
| `backoff` | 1 size, 3 connections, cap 3 | *violation*: the delay does not grow while a session fails to start |
| `caches` | usage: 2 requests, 3 refreshes, 1 invalidation, 1 direct read, usage 1..2; events: 2 terminals, the hydration and one refetch at a time, 3 changes or breaks | deduplication, freshness and the file of the usage; does a client that has received everything know what exists and what the agents do |
| `usage_invalidate` | 1 request, 3 refreshes, 1 invalidation | *violation*: an invalidation does not force a fetch |
| `events_stop` | events as in `caches`, no failing request | *violation*: the event of an ending says that the terminal runs |
| `events_reconnect` | the same | *violation*: the refresh for a reconnect misses what happens before the reconnect |

Several invariants of a run are conjunctions of definitions with names of their
own (`ProcessesAccountedFor`, `SocketsAccountedFor`, `FamiliesAreSound`,
`AfterRestart`, and those of `MC_Parts`); the modules state what each conjunct
says.

Bounds of the parts in `parts`, which are in `MC_Parts.cfg`:

| Part | Bounds | Why enough |
|---|---|---|
| registry | 2 documents, 4 hand-overs, 2 loops | a document can be skipped as equal, come back after a different one, be superseded while it is written, and be scheduled in the gap before `finally`; a third loop could run only beside a second |
| agent | 2 sessions, idle after 2 ticks, time to 2, 2 events, 1 input | an id that is lost, one that is resumed and one that is continued need two sessions; two ticks tell "just now" from "long enough" |
| git | 2 tentacles, revisions 1..2, 3 requests | the dialog moves to another tentacle while the first one's mutation runs; a status and a pull request are fetched beside a mutation |
| ui | 1 terminal, 2 choices, 1 PATCH under way | overlapping PATCHes are exempt from the property anyway |
| github | 3 commits, 1 failing request | what is shown can be two commits behind, and a poll can overtake a collection |
| startup | 2 workspaces, one of them initialised, 2 processes at most, 2 ports, an old `runtime.json` in one workspace | two that overlap, and a second after the first has left a trace; a foreign program on a port |
| canvas | Sentiph and a child, 2 moves | every flag is set by one move; the second comes before its answer |
| stream | 2 sizes, one below the least of a PTY, scrollback 2, 3 chunks, 2 connections, 1 resize or refit | the scrollback overflows, and the history comes twice, also after a banner; a pane of either size changes to the other |
| update | 1 page, 2 installations, 2 revisions | a second installation finds what the first left half done; an installation of a page that was reloaded can overlap the next one |
| cli | unbounded | its state is finite |
| metrics | 2 terminals, 2 times, 3 lines | two runs of a terminal and one of another, in any order of time; a line after a torn one |

*Two spawns of two terminals* (`sessions`) are the least in which a
terminal has a predecessor session whose socket, process or timer is still on its
way when its successor starts, and in which two terminals compete for a session
limit of 1; two sockets, so that one leaves while the other stays or comes.
A third Sentiph would need a third terminal: `MC_TerminalRuntime` adds one to
`sessions` (`Bounded`) that, like the processes it has owned, is there only beside
terminals without sockets, parents, prompts and worktrees, and is no one's parent.
No fair action is kept from happening by that bound.
*Three terminals* (`faults`) are the least with a grandchild, so that a cascade can stop in
the middle; two children are the limit in that run. With four, a cascade that stops at
one child can have deleted another one whose own child survives; four are too many for
TLC, and `FailureStaysDeletable` proves what holds then for families of any shape. Recovery needs one record
that ran before a crash and another one that starts after. Two usage requests and
three refreshes leave room for a registered refresh, a forgotten one and a direct
read; that no more than these run at once is the theorem `AtMostOneRefresh`. An
invalidation and a direct read come both only while the usage has not grown yet:
what they can break together, the registration and the file, does not depend on
how much was used.
Two terminals and three changes are the least with a cascade of two members after
both were created; with one of the changes a break, a terminal can be created
before or during it and deleted after (`caches`). What a client knows of one
terminal does not depend on another except through whole lists and cascades.

`CHECK_DEADLOCK FALSE` is set where a run uses up a bounded resource and can
really stop: processes in the runs of the terminal runtime (every spawn needs one
that was never used), moves, connections, requests and starts in `parts`, `panels`
and `backoff`. `caches` is checked for deadlock, and so are the
violation runs of its two parts.

## 5. Fairness

- `TerminalRuntime`: weak fairness of the idle timer and of the exit event, per
  terminal. Node fires an armed timer, and node-pty reports an exit, unless
  cancelled or ended otherwise. No user action and no exit of a process is fair.
- `RegistryPersistence`: weak fairness of the debounce timer, of a write ending
  one way or the other, and of the `finally` handler. Weak fairness of the timer
  would not hold against an endless stream of changes, each of which re-arms it;
  the history is bounded, so this does not arise. `HandedOverIsWritten` says that
  again and again the file is the document handed over last, or its write failed.
- `AgentSession`: the prompt timers, the poll of the state, and time itself.
- `GitLifecycle`: a request is answered, well or badly, and the answer arrives. Which
  of several comes first is open.
- `GithubSummary`: the server serves, a collection goes on, the cache expires, the
  poll timer ticks and answers arrive. No collection need succeed.
- `CanvasPanels`: effects run and a creation is answered, weakly; strongly, that an
  answer is received, since it must wait for a render to be over and renders may
  come again and again. The event loop does not starve a resolved promise.
- `TerminalStream`: the resize timer, and messages in both directions.
- `UsageCli`: the timers of the welcome screen and of the deadline, and the answers of
  files and of the API. The CLI need not print or exit.
- `UiState`, `ProjectStartup`, `SelfUpdate`, `MetricsStore`, `UsageCache`,
  `TerminalEvents` and `TerminalRecovery` are safety only and have none.

## 6. Proofs

All theorems are for any value of the constants; the only assumptions are the
named `ASSUME`s of the modules: null values differ from real ones, sets are finite
where they are counted, limits and times are naturals, the default view is one of
the views (`UiAssumption`), Sentiph is a terminal and no terminal has the node id of another
(`CanvasAssumption`), the scrollback keeps at least one chunk and sizes are
naturals (`StreamAssumption`), an old `runtime.json` names a port (`LegacyAssumption`),
and an agent has at least one session (`AgentAssumption`). TLC evaluates all of
them in the runs. Two theorems about the runtime also assume that a
fault does not occur, as the properties do in the runs: `ProcessesHaveSessions`
that the debug log opens (`~LogMayFail`), `RecordsAreSaved` that worktrees can be
removed (`~RemovalMayFail`).

| Theorem | Argument |
|---|---|
| `TerminalRuntime_proofs!TypeCorrect` | inductive as it is, action by action |
| `…!RegistryMatchesSessions` | `TypeOK /\ RunningMatchesSession` is inductive: `StartWith` and `Teardown` are shown once to keep it, the cascades member by member |
| `…!CapacityHolds` (part of `ProcessesAccountedFor`) | every step starts at most one session and then `HasCapacity` held (`OneStart`, `NoStart`); cardinalities by `FS_AddElement`, `FS_Subset` |
| `…!IdleTimerIsSafe` (part of `SocketsAccountedFor`) | what one step may do to one session (`SessionStep`) |
| `…!ProcessesHaveSessions` | `OwnInv`: the record of a terminal names the process of its session and no other, so that a stop signals nobody else's; every step ends some sessions with their processes, starts one with an unused process, or leaks one when the log fails (`Ending`, `Starting`, `Aborting`), or is the exit of a process (`Exiting`) |
| `…!RuntimeIsProcessPool` | the refinement, from the same `OwnInv`, and without an assumption about the log: `Starting` is a `Start` (`StartingPools`), `Aborting` a start that fails, `Exiting` an exit, and `Ending` stops the sessions it ends that were live (`EndingPools`), or stutters. That a process which is driven was started, a part of `OwnInv`, is what keeps an unused one from being signalled |
| `…!SocketsHaveSessions` | `SocketInv`: a socket holds a process that was used, so no later session can be taken for the one it captured; a session without clients is either kept alive, of the kind the code forgets, or timed |
| `…!OneSentiph`, `FamiliesStaySound` | what one step does to one record: it keeps parent, kind and worktree, or is gone (`Kept`), and at most one record is `Made`, under the checks of `createTerminal`. Those let a second Sentiph through for the terminal with Sentiph's id only, whichever of the two comes first |
| `…!RecordsAreSaved`, `OnlyDeletionsWithheld` | every handler ends with what it saves, except a start that fails, which changes the conversation of a record without a session (`IdUnsaved`), and a deletion that stops: there the records saved last differ from memory in deletions and such conversations only (`HaltedSaves`) |
| `…!FailureStaysDeletable` | a cascade that stops has visited a set of its own members, and the one it stopped at keeps record and worktree and has lost its session (`CascadeWithin`, `HaltedKeeps`) |
| `TerminalRecovery_proofs!RestartIsSound`, `CloseIsComplete` | `RecoveryInv`: the records in memory, in the writer and in the file are each sound, and the writer claims nothing to run that does not (`NothingFeigned`). Without the former, a crash could bring back a Sentiph too many from an old snapshot |
| `RegistryPersistence_proofs!NothingIsStranded`, `RestMeansNewest` | `IInv`: documents advance in order (file < being written < pending) and only the loop of `writeLoopPromise` writes; without it, a second loop could strand or reorder a document |
| `…!WriterIsDurableRegister` | the refinement: under `IInv` each step is a step of `DurableRegister` or stutters |
| `…!CloseKeepsItsPromise` | `FlushInv`, beside `IInv`: what was pending when `close()` was called, or came later, is as new as what had been handed over then; after the last round of the loop it awaits so is the file, unless the disk refused it |
| `…!MemoStaysCurrent` | `MemoInv`: the file grows with every line, torn ones included, so a key that was read before it grew is never the key of the file again |
| `…!ViewsTellTheLog` | `log \in Seq(Runs)`, and what holds of every log by induction over its length: a row is what the runs of its terminal make it (`Collapsed`, run by run: `RowJoins`, `RowBegins`, `RowStays`), the hours of the heatmap add up to the totals (`Totals`). That `FoldLeft` and `MapThenSumSet` have the values their definitions suggest is shown once, below |
| `TerminalEvents_proofs!TypeCorrect` | inductive as it is |
| `…!EventsKeepListComplete`, `AgentStatesKeepUp` | `KeptUp`, over the queue: on an open link the last event under way about a terminal tells the truth, and where there is none a client that took an answer no event overtook knows it already; so does such an answer itself. Without the last part the step that takes an answer would not keep the one before |
| `UsageCache_proofs!TypeCorrect` | inductive as it is |
| `…!RegisteredIsRunning`, `AtMostOneRefresh` | `LInv`: the tracked refreshes that are *not* registered are at most as many as there were invalidations. The bound itself is not inductive: an ending refresh clears the registration of another one, which makes room for a new one but is gone itself |
| `…!PersistedSnapshotServed` | `SInv`: a request that is due finds a snapshot in memory, in what it read, or in a file that no refresh is about to truncate |
| `…!FreshSnapshotIsNewest` | `NInv`: without invalidations and direct reads only one refresh runs (from `LInv`), so the answer it holds is no older than anything cached |
| `…!CaptureIsSound` | `UsageCliInv`: a settle timer is set under a usage view only, which is none of what came before the command was typed (`SettlesOnView`); until the capture ends each command typed holds an interval (`IntervalsHeld`) |
| `Git_proofs!TypeCorrect` | with `OkAnswers`: an answer that arrives well carries a revision. Without it, a bad answer could be shown as one |
| `…!CacheIsNeverStale` | `CacheInv`: no mutation is ahead of its repository, so what is read anew after an invalidation is new enough |
| `…!MutationsOneByOne` | `MutationInv`: the dialog's flag is set exactly while a mutation is under way, through the push that follows a commit, and there is only one; the cardinality of `OneMutation` follows |
| `…!DialogIsSafe` | with both: a tentacle whose requests never overlapped has one request at most (`Alone`), and what is shown or answered of it is at least what was acknowledged (`UpToDate`, `AckedBehind`) |
| `…!OneRefreshAtATime` | `OneInv`: the sequence of the collections is empty or has one element |
| `…!ShownMovesForward` | `SummaryInv`: the page is behind its answer, the answer behind the cache, and all of them behind the log of the collection that runs. Without the last part, a cache emptied by a failure could take in something older than the page shows |
| `…!SummaryIsSafe` | `OneInv`, and that a request the user queued is asked for again when the fetch under way ends (`FinallyAsks`, `NextQueued`) |
| `ServerParts_proofs!UpdateStaysSound` | `UpdateInv`: as long as installations do not overlap there is one that runs, and its step says how far sources, dependencies and build have come and what may still be half done (`Built`, `Progress`); a page awaits jobs of its own, and what it offers was built |
| `…!StartupIsSound` | `StartupInv`: who reads `projects.json` alone writes back all that was in it; a directory two dashboards share is unclean (`Apart`), and the metadata of a clean one are those of a dashboard that serves it or, without one, of the migration (`Recorded`, `Explained`); the port taken is the least free one |
| `…!AgentIsSafe` | `AgentInv`: what was written to the process, by position, fits the timers that are armed (`Told`); no id is given to a second conversation; the times spent in the states add up to the moment the present state was entered (`Accounted`) |
| `…!BusyUntilItIsQuiet` | the same invariant: the time left to the deadline and the time it has been quiet for make at least the idle delay (`Deadlined`) |
| `PageParts_proofs!SettledPageIsSaved` | `UiInv`: unless there is a doubt, what was read, what was saved last or the one PATCH that was served is what the API has, and without a save timer it is what the page shows (`OpeningCopies`, `RestingCopies`, `SavingCopies`) |
| `…!ClosedStaysClosed` | `CanvasInv`: what is reported is open unless the panels changed since the effects ran (`ReportsPanels`), and a page whose list is read has effects due or is hydrated (`LoadsInOrder`) |
| `…!ScreenIsTrue` | `StreamInv`: what is on its way to the pane is an open event, the banner of a resumed session, a history, chunks and a close in this order (`Orderly`), where a banner is newer than all the pane has shown and is followed by the history (`BannerIsNew`); what the pane shows, followed by what it will be shown, rises (`Rising`), and ends with the scrollback while it is attached (`EndsWith`). The screen alone is not inductive: a history replaces what was shown, also in the buffers of an xterm that is not loaded |

`CacheFollowsMutations` and `OneMutation` are parts of `GitSafe`, `OneRefresh` of
`GithubSafe`; `MemoStaysCurrent` is about two parts of `MetricsSafe`, which
`ViewsTellTheLog` is about as a whole; `ShownNeverGoesBack` and
`BusyUntilQuiet` are the two halves of `StepsForward`. The run `parts` checks them.

Folds. The library's theorems about recursive functions and induction take an
operator as a parameter, which no backend can instantiate. The proofs about the
metrics take the way round by sets: the least number of a set of counterexamples
(`LeastNat`, from the well-foundedness of `<` on the naturals) stands for every
induction. With it a function of the subsets of a finite set that folds them is
shown to exist and to be the only one (`FoldExists`, `FoldUnique`), so that the
`CHOOSE` in the definition of a fold has a value; that of a longer sequence is one
step more (`FoldFnAppend`); and what the empty sequence has and every step keeps,
all sequences have (`AllSequences`). The folds of `MetricsStore` are then
recognised as such ones (`AggregateIsFold`, `RowsAreFold`, `FilteredIsFold`,
`OverHoursIs`).

Only model-checked:

- The claims that the violation runs refute.
- Everything about liveness (`UnattendedSessionEnds`, `ExitIsNoticed`,
  `HandedOverIsWritten`, `AgentsFollowThrough`, `PageFollowsThrough`), which needs
  fairness and `ENABLED`.

## 7. Findings

1. **A failing worktree removal tears a family apart** (`partial_delete`). Earlier
   members of the cascade are gone, later ones stay, and neither the last persist
   nor the `terminal-deleted` events are reached. `SurvivorsKeepTheFailure` is
   what does hold: a terminal of the family that was being deleted is still there,
   without its session, to be deleted again. It need not be an ancestor or a
   descendant of what survives: the child of a deleted sibling can.
2. **An invalidation of the usage cache is undone by the refresh under way**
   (`usage_invalidate`): it stores its old answer as fresh.
3. **The event that announces an ending says "running"** (`events_stop`).
   `markTerminalEnded` builds the snapshot while the session is still in the map.
   `EventsKeepUp` is what does hold: which terminals exist.
4. **The refresh on reconnect comes before the reconnect** (`events_reconnect`):
   what happens between its answer and the upgrade is never shown.
5. **Saved panels are never restored** (`panels`): they are saved as node ids and
   pruned as terminal ids.
6. **A session that cannot start is retried at full speed** (`backoff`): the open
   event, which comes before the start, resets the attempts.

7. **A second Sentiph** (`two_sentiphs`): a request whose terminal id is Sentiph's and
   that names no tentacle id is not checked, and its tentacle id becomes Sentiph's.
   `SentiphHasOneDouble` is what does hold: there is no third one.

Behaviours met while modelling that no run is about. The models contain them
unless noted as left out; each is a place to look at:

- *Runtime and recovery.* A stop of a stale terminal signals the pid that was
  recorded, which may be a stranger's by then (`terminalLifecycle.ts:200`). A crash
  between the removal of a worktree and the write of the registry brings the
  terminal back without it, and it then runs in the workspace root. Sentiph in
  worktree mode gets neither keep-alive nor idle timer
  (`sessionBootstrap.ts:240`). Nothing releases a kept-alive session
  (`sessionRuntime.ts:439`), although the documentation speaks of the Stop hook.
  Changes that keep arriving starve the debounce (`registry.ts:474`; the bound on
  the hand-overs hides this).
  A start that fails leaves the conversation it planned in memory and does not save
  the record (`sessionBootstrap.ts:192-217`), although the comment at
  `claudeBootstrap.ts:135` speaks of persisting it; a restart of the API forgets it.
  No session ran with it by then (`OnlyIdsUnsaved`).
- *Agent session.* The initial prompt stays in the record and is pasted into every
  later session (`sessionBootstrap.ts:319-321`).
- *Stream.* A size that is fitted while the socket is down is noted as sent
  (`useXtermInstance.ts:210-218`); one that is fitted when the page becomes visible is
  not sent before something else has it sent (`:244-252`). The banner of a resumed
  session goes to the client that starts it twice, and the history replaces the first
  (`sessionRuntime.ts:278-279`). A pane below 20 columns or 10 rows shows a PTY that is
  larger than itself. Input typed meanwhile is dropped, and scrollback is cut at a
  byte, maybe within a character (`terminalOutput.ts:18`); both left out.
- *Page.* A failed hydration takes the defaults for the server's state and the next
  save overwrites it; a failed save is not retried. The active view is not read back
  by a restarted API (`registry.ts:46-134`, against
  `docs/concepts/runtime-and-api.md:36`). Minimizing the last panel lets the next
  effect restore what is reported as open. The end of one deletion closes the
  confirmation of another (`useTerminalMutations.ts:236`; left out).
- *Caches.* A failed collection replaces the last good GitHub summary for a whole
  time to live. An OAuth answer without any window counts as good.
- *Usage capture.* The interval that a retry overwrites presses Enter until the
  process is gone (`claudeUsageCli.ts:130-146`), and a question for trust is
  answered with every chunk (`:161-168`).
- *Metrics.* A line torn by a crash swallows the next summary. The heatmap counts a
  failed run and its error events separately (`agentMetricsStore.ts:305-329`).
- *Processes.* `sentiph` without arguments does not initialise a project
  (`cli.ts:90-96`, against `docs/reference/cli.md:11`). The end of one of two
  dashboards of a project removes the other's `runtime.json`. A dashboard that starts
  in a workspace with an old `.sentiph/state/runtime.json` copies it whenever it finds
  none, which is at every start, since a shutdown removes the copy; until it has written
  its own, a command goes to the old port. A process that is killed while it writes
  `projects.json` loses all registrations (`projectPersistence.ts:156`).
- *Updates.* Two installations may run at a time. One that failed after its pull is
  not offered again, since the check compares `HEAD`. One that failed or was killed
  leaves half of its work (`updates.ts:118-121`, `build-package.mjs:13`), and a page
  that an earlier one has offered a restart can still restart into that. The restart comes without a
  shutdown, and the page reloads after 1500 ms whether a server listens or not.
- *Git.* `createTentaclePullRequest` has a route and no caller in the page.

## 8. Not modelled, and why

- Contents: the text of terminal output, prompts, names, commit messages; parsing and
  validation of files, and the migration of all files but `runtime.json`, which is
  control and in `ProjectStartup`. They are data no property here tells apart.
- Time: only `AgentSession` has a clock. Elsewhere a timer may fire whenever it is
  armed, which covers every duration; starvation of a debounce and the order of two
  timers with different delays are not expressible (`UsageCli` states the one such
  order it needs).
- External programs: git, `gh`, the shells, the agents and the usage sources are
  nondeterminism of the actions that stand for their answers.
- Codex usage reads the newest session log and keeps nothing. Transcripts and
  conversations are appended to and searched; of them, `AgentSession` has the
  beginning and the end. The HTTP front end routes and checks single requests; its
  one piece of state are the rate-limit windows. The MCP server translates calls
  into requests, and prompts, rendering and the core package have no state.
- Two parts at a time, except where a module composes them (`TerminalRecovery`
  the runtime with its file, `CanvasPanels` the canvas with the list and the saved
  ids, `TerminalStream` both ends of a socket): where one part calls another, the
  module of the caller has what it calls in the form its own properties need.
