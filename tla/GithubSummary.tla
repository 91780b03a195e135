---------------------------- MODULE GithubSummary ----------------------------
(***************************************************************************)
(* The summary of the repository on GitHub: the collection by gh and git,  *)
(* the cache of the API with its refresh in the background, the route, and *)
(* the polling hook of the page (usePollingData) with its forced refresh.  *)
(* The history of the repository is the number of its commits.             *)
(***************************************************************************)
EXTENDS Naturals, Sequences
GithubSeqs == INSTANCE SequencesExt

CONSTANTS
    MaxCommits,  \* bound on the commits
    MaxRefused   \* bound on the requests of the page that fail

ASSUME GithubAssumption == MaxCommits \in Nat \ {0} /\ MaxRefused \in Nat

VARIABLES
    head,     \* the commits there are
    cached,   \* cachedGithubSummary
    refreshes,\* the collections that run
    inFlight, \* githubRefreshInFlight is set
    poll,     \* the refs and the state of usePollingData
    refused   \* requests that failed

githubVars == <<head, cached, refreshes, inFlight, poll, refused>>

-----------------------------------------------------------------------------
Commits == 0..MaxCommits
Unread == 0
\* status "ok", or "failed" for "unavailable" and "error".
RepoSummary == [status : {"ok", "failed"}, log : Commits, stats : Commits]
FailedSummary == [status |-> "failed", log |-> 0, stats |-> 0]
NoRepoSummary == [status |-> "none", log |-> 0, stats |-> 0]
NoCache == [snapshot |-> NoRepoSummary, fresh |-> FALSE]

\* The request of the page: none, sent, awaiting a refresh, or answered.
NoRequest == [phase |-> "none", answer |-> NoRepoSummary]
AnsweredWith(s) == [phase |-> "answered", answer |-> s]

GithubInit ==
    /\ head = 1 /\ cached = NoCache /\ refreshes = <<>> /\ inFlight = FALSE
    /\ poll = [request |-> NoRequest, queued |-> FALSE, enabled |-> FALSE, data |-> NoRepoSummary]
    /\ refused = 0

\* Somebody commits in the workspace.
Commit ==
    /\ head < MaxCommits /\ head' = head + 1
    /\ UNCHANGED <<cached, refreshes, inFlight, poll, refused>>

-----------------------------------------------------------------------------
(* The API: githubRepoSummary.ts.                                          *)

Started == [step |-> "repository", log |-> Unread, stats |-> Unread]

\* Mutant: a refresh does not care about the one in flight.
RefreshAnyway ==
    refreshes' = (IF Len(refreshes) < 2 THEN Append(refreshes, Started) ELSE refreshes)
        /\ inFlight' = TRUE

\* runGithubRefresh: joins the refresh in flight, or starts one.
RunGithubRefresh ==
    IF inFlight THEN UNCHANGED <<refreshes, inFlight>>
    ELSE refreshes' = Append(refreshes, Started) /\ inFlight' = TRUE

\* handleGithubSummaryRoute, readGithubRepoSummaryCached: a fresh snapshot is
\* served; a stale one is served while a refresh runs; otherwise it is awaited.
ServeSummary ==
    /\ poll.request.phase = "sent"
    /\ IF cached = NoCache
       THEN poll' = [poll EXCEPT !.request.phase = "awaiting"]
       ELSE poll' = [poll EXCEPT !.request = AnsweredWith(cached.snapshot)]
    /\ IF cached.fresh THEN UNCHANGED <<refreshes, inFlight>> ELSE RunGithubRefresh
    /\ UNCHANGED <<head, cached, refused>>

\* readRepository, then the reads that run in parallel: the log of the recent
\* commits and the series are one read of history, their statistics another.
ReadRepository(i) ==
    /\ i \in DOMAIN refreshes /\ refreshes[i].step = "repository"
    /\ refreshes' = [refreshes EXCEPT ![i].step = "reading"]
    /\ UNCHANGED <<head, cached, inFlight, poll, refused>>

ReadHistory(i, what) ==
    /\ i \in DOMAIN refreshes /\ refreshes[i].step = "reading"
    /\ refreshes[i][what] = Unread
    /\ refreshes' = [refreshes EXCEPT ![i][what] = head]
    /\ UNCHANGED <<head, cached, inFlight, poll, refused>>

\* The refresh settles: the cache takes whatever it brought, a failure too.
Settle(i, s) ==
    /\ cached' = [snapshot |-> s, fresh |-> TRUE]
    /\ inFlight' = FALSE
    /\ refreshes' = GithubSeqs!RemoveAt(refreshes, i)
    /\ poll' = IF poll.request.phase = "awaiting"
               THEN [poll EXCEPT !.request = AnsweredWith(s)] ELSE poll
    /\ UNCHANGED <<head, refused>>

\* readGithubRepoSummary returns: all reads succeeded.
Collected(i) ==
    /\ i \in DOMAIN refreshes /\ Unread \notin {refreshes[i].log, refreshes[i].stats}
    /\ Settle(i, [status |-> "ok", log |-> refreshes[i].log, stats |-> refreshes[i].stats])

\* gh or git is missing, not authenticated, or fails: readGhAuthenticationFailure,
\* unavailableSnapshot, errorSnapshot.
CollectionFails(i) == i \in DOMAIN refreshes /\ Settle(i, FailedSummary)

\* The time to live of the cache is over.
Expire ==
    /\ cached.fresh /\ cached' = [cached EXCEPT !.fresh = FALSE]
    /\ UNCHANGED <<head, refreshes, inFlight, poll, refused>>

-----------------------------------------------------------------------------
(* The page: usePollingData.                                               *)

Send(p) == [p EXCEPT !.request = [NoRequest EXCEPT !.phase = "sent"]]
Busy == poll.request # NoRequest

\* The effect runs: a first fetch, unless one of an earlier run is under way.
Enable ==
    /\ ~poll.enabled
    /\ LET p == [poll EXCEPT !.enabled = TRUE] IN poll' = IF Busy THEN p ELSE Send(p)
    /\ UNCHANGED <<head, cached, refreshes, inFlight, refused>>

\* The clean-up of the effect.
Disable ==
    /\ poll.enabled /\ poll' = [poll EXCEPT !.enabled = FALSE]
    /\ UNCHANGED <<head, cached, refreshes, inFlight, refused>>

Tick ==
    /\ poll.enabled /\ ~Busy /\ poll' = Send(poll)
    /\ UNCHANGED <<head, cached, refreshes, inFlight, refused>>

\* refresh: a forced fetch that finds one in flight is queued.
Refresh ==
    /\ poll.enabled /\ ~poll.queued
    /\ IF Busy THEN poll' = [poll EXCEPT !.queued = TRUE] ELSE poll' = Send(poll)
    /\ UNCHANGED <<head, cached, refreshes, inFlight, refused>>

\* The end of sync: the queued fetch follows, unless the hook was disposed.
Finally(p) ==
    poll' = IF p.queued /\ p.enabled THEN Send([p EXCEPT !.queued = FALSE])
            ELSE [p EXCEPT !.request = NoRequest, !.queued = FALSE]

\* The answer: normalized, or the fallback when it cannot be.
ReceiveSummary ==
    /\ poll.request.phase = "answered"
    /\ Finally(IF poll.enabled THEN [poll EXCEPT !.data = poll.request.answer] ELSE poll)
    /\ UNCHANGED <<head, cached, refreshes, inFlight, refused>>

\* The request fails: the data stay what they are.
RequestFails ==
    /\ poll.request.phase \in {"sent", "awaiting"} /\ refused < MaxRefused
    /\ refused' = refused + 1
    /\ Finally(poll)
    /\ UNCHANGED <<head, cached, refreshes, inFlight>>

-----------------------------------------------------------------------------
Collect == \E i \in 1..2 : ReadRepository(i) \/ Collected(i)
                           \/ \E what \in {"log", "stats"} : ReadHistory(i, what)

GithubNext ==
    \/ Commit \/ ServeSummary \/ Collect \/ (\E i \in 1..2 : CollectionFails(i)) \/ Expire
    \/ Enable \/ Disable \/ Tick \/ Refresh \/ ReceiveSummary \/ RequestFails

GithubFairness ==
    /\ WF_githubVars(ServeSummary) /\ WF_githubVars(Collect) /\ WF_githubVars(Expire)
    /\ WF_githubVars(Tick) /\ WF_githubVars(ReceiveSummary)

GithubSpec == GithubInit /\ [][GithubNext]_githubVars /\ GithubFairness

-----------------------------------------------------------------------------
\* Types of the cache, of the collections and of the hook.
Collection == [step : {"repository", "reading"}, log : Commits, stats : Commits]
PageRequest ==
    [phase : {"none", "sent", "awaiting", "answered"},
     answer : RepoSummary \cup {NoRepoSummary}]
Polling ==
    [request : PageRequest, queued : BOOLEAN, enabled : BOOLEAN,
     data : RepoSummary \cup {NoRepoSummary}]

GithubTypeOK ==
    /\ head \in 1..MaxCommits
    /\ cached \in [snapshot : RepoSummary \cup {NoRepoSummary}, fresh : BOOLEAN]
    /\ refreshes \in Seq(Collection) /\ inFlight \in BOOLEAN
    /\ poll \in Polling

\* runGithubRefresh: however requests, expiries and failures follow one
\* another, one collection runs at a time, exactly while the flight is set;
\* and nobody awaits a refresh that does not run.
OneRefresh ==
    /\ inFlight <=> refreshes # <<>>
    /\ Len(refreshes) <= 1
    /\ poll.request.phase = "awaiting" => inFlight

\* A step of usePollingData over the cache: what the page shows of the history never goes
\* back, whatever is served stale or collected in the background.
ShownNeverGoesBack ==
    (poll.data.status = "ok" /\ poll'.data.status = "ok") => poll'.data.log >= poll.data.log

\* hasQueuedRefreshRef: a refresh asked for during a fetch is not forgotten:
\* it waits as long as that fetch lasts, and no longer.
QueuedRefreshFollows == poll.queued => Busy

\* The repository summary: one collection at a time, exactly while one is
\* registered, and no refresh that was asked for is forgotten.
GithubSafe == GithubTypeOK /\ OneRefresh /\ QueuedRefreshFollows

\* What happens, and what comes of it: with the page enabled, a commit is shown after finitely many
\* polls, or the page shows that the collection failed.
Committed(r) == head >= r
CommitShown(r) == ~poll.enabled \/ poll.data.status = "failed" \/ poll.data.log >= r
=============================================================================
