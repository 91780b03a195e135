----------------------------- MODULE GitLifecycle -----------------------------
(***************************************************************************)
(* The git actions of worktree tentacles: the API's operations with their  *)
(* read cache, and the web client that fetches statuses and pull requests  *)
(* and runs one mutation at a time from a dialog.  What git and GitHub     *)
(* have of a tentacle is a revision that grows with every change; they may *)
(* refuse any command, and answers arrive in any order.                    *)
(***************************************************************************)
EXTENDS Naturals, Sequences, FiniteSets

CONSTANTS
    Tentacles,   \* tentacle ids, all in worktree mode
    NoTentacle,  \* null
    MaxRev,      \* bound on the revisions of a tentacle
    MaxReqs      \* bound on the requests of the client

ASSUME GitAssumption ==
    /\ MaxRev \in Nat \ {0} /\ MaxReqs \in Nat
    /\ NoTentacle \notin Tentacles

VARIABLES
    present,   \* tentacles that have a terminal, in the API and in the client's list
    repo,      \* the revision of each tentacle's worktree, branch and pull request
    readCache, \* gitReadCache: the revision last read, per kind and tentacle
    dialog,    \* the state of useAgentGitLifecycle
    reqs,      \* the client's requests, in the order in which they were sent
    mutated, acked, overlapped  \* history: the revision of the last mutation, of the last
               \* commit, push or sync the client was told of; did a fetch overlap another request?

gitVars == <<present, repo, readCache, dialog, reqs, mutated, acked, overlapped>>

-----------------------------------------------------------------------------
Kinds == {"status", "pr"}
Mutations == {"commit", "push", "sync", "merge"}
Nothing == 0
Revs == 1..MaxRev
Shown == [Kinds -> [Tentacles -> Revs \cup {Nothing}]]

\* follow: is this "Commit & Push"?
Request == [op : Kinds \cup Mutations, t : Tentacles, follow : BOOLEAN,
            phase : {"sent", "ok", "error"}, answer : Revs \cup {Nothing}]
Done == [phase |-> "done"]

\* The client has read what is there.
GitInit ==
    /\ present \in SUBSET Tentacles
    /\ repo = [t \in Tentacles |-> 1]
    /\ readCache = [k \in Kinds |-> [t \in Tentacles |-> Nothing]]
    /\ dialog = [shown |-> [k \in Kinds |-> [t \in Tentacles |->
                              IF t \in present THEN 1 ELSE Nothing]],
                 loading |-> [k \in Kinds |-> {}], open |-> NoTentacle, mutating |-> FALSE]
    /\ reqs = <<>>
    /\ mutated = [t \in Tentacles |-> 1] /\ acked = [t \in Tentacles |-> 1]
    /\ overlapped = {}

Under == {s \in DOMAIN reqs : reqs[s] # Done}
UnderFor(t) == {s \in Under : reqs[s].t = t}
Sent(s, ops) == s \in Under /\ reqs[s].op \in ops /\ reqs[s].phase = "sent"
Arrived(s, ops) == s \in Under /\ reqs[s].op \in ops /\ reqs[s].phase # "sent"

NewRequest(op, t, follow) ==
    [op |-> op, t |-> t, follow |-> follow, phase |-> "sent", answer |-> Nothing]

-----------------------------------------------------------------------------
(* The API: gitOps.ts and the routes.  Everything in it is synchronous.    *)

Answered(s, phase, answer) ==
    reqs' = [reqs EXCEPT ![s].phase = phase, ![s].answer = answer]

\* readTentacleGitStatus, readTentaclePullRequest: readCached serves what it
\* has for its time to live, or reads anew.
ServeRead(s) ==
    /\ Sent(s, Kinds)
    /\ reqs[s].t \in present
    /\ LET k == reqs[s].op
           t == reqs[s].t
       IN \E value \in ({readCache[k][t]} \ {Nothing}) \cup {repo[t]} :
            /\ Answered(s, "ok", value)
            /\ readCache' = [readCache EXCEPT ![k][t] = value]
    /\ UNCHANGED <<present, repo, dialog, mutated, acked, overlapped>>

\* Mutant: only the status is forgotten.
InvalidateStatus(t) == readCache' = [readCache EXCEPT !["status"][t] = Nothing]

InvalidateTentacle(t) == readCache' = [k \in Kinds |-> [readCache[k] EXCEPT ![t] = Nothing]]

\* commitAll, pushCurrentBranch, syncWithBase, createPullRequest,
\* mergeCurrentBranchPullRequest succeed: a new revision.
GitChanges(t) ==
    /\ t \in present /\ repo[t] < MaxRev
    /\ repo' = [repo EXCEPT ![t] = @ + 1]
    /\ mutated' = [mutated EXCEPT ![t] = repo[t] + 1]

\* commitTentacleWorktree, pushTentacleWorktree, syncTentacleWorktree,
\* mergeTentaclePullRequest: the command, the invalidation, the new state.
ServeMutation(s) ==
    /\ Sent(s, Mutations)
    /\ GitChanges(reqs[s].t)
    /\ InvalidateTentacle(reqs[s].t)
    /\ Answered(s, "ok", repo[reqs[s].t] + 1)
    /\ UNCHANGED <<present, dialog, acked, overlapped>>

\* createTentaclePullRequest: the API has it, this client does not use it.
CreatePullRequest(t) ==
    /\ GitChanges(t)
    /\ InvalidateTentacle(t)
    /\ UNCHANGED <<present, dialog, reqs, acked, overlapped>>

\* An input is rejected, the tentacle is not found, or a command fails; a
\* mutation of several commands has then done some of them, and the cache
\* keeps what it has.
Refuse(s) ==
    /\ Sent(s, Kinds \cup Mutations)
    /\ \/ UNCHANGED repo
       \/ /\ reqs[s].op \in {"commit", "sync"} /\ reqs[s].t \in present
          /\ repo[reqs[s].t] < MaxRev
          /\ repo' = [repo EXCEPT ![reqs[s].t] = @ + 1]
    /\ Answered(s, "error", Nothing)
    /\ UNCHANGED <<present, readCache, dialog, mutated, acked, overlapped>>

\* The agent, or somebody on GitHub, changes something.
OthersChange(t) ==
    /\ repo[t] < MaxRev
    /\ repo' = [repo EXCEPT ![t] = @ + 1]
    /\ UNCHANGED <<present, readCache, dialog, reqs, mutated, acked, overlapped>>

-----------------------------------------------------------------------------
(* The client: useAgentGitLifecycle and its dialog.  Which button is       *)
(* pressed, and whether what is shown permits it, is left open; the text   *)
(* of messages and errors is left out.                                     *)

\* fetchAgentGitStatus and fetchAgentPullRequest begin, from the dialog d.
Fetch(t, d) ==
    /\ Len(reqs) + 2 <= MaxReqs
    /\ reqs' = reqs \o <<NewRequest("status", t, FALSE), NewRequest("pr", t, FALSE)>>
    /\ dialog' = [d EXCEPT !.loading = [k \in Kinds |-> @[k] \cup {t}]]
    /\ overlapped' = IF UnderFor(t) = {} THEN overlapped ELSE overlapped \cup {t}

\* A tentacle appears in the list: the effects fetch it, once.
Appear(t) ==
    /\ t \notin present
    /\ present' = present \cup {t}
    /\ Fetch(t, dialog)
    /\ UNCHANGED <<repo, readCache, mutated, acked>>

\* It leaves the list: the effect drops all that is known of it.
Disappear(t) ==
    /\ t \in present
    /\ present' = present \ {t}
    /\ dialog' = [dialog EXCEPT
                    !.shown = [k \in Kinds |-> [@[k] EXCEPT ![t] = Nothing]],
                    !.loading = [k \in Kinds |-> @[k] \ {t}],
                    !.open = IF @ = t THEN NoTentacle ELSE @]
    /\ UNCHANGED <<repo, readCache, reqs, mutated, acked, overlapped>>

OpenAgentGitActions(t) ==
    /\ t \in present
    /\ Fetch(t, [dialog EXCEPT !.open = t])
    /\ UNCHANGED <<present, repo, readCache, mutated, acked>>

\* Neither Escape nor the button closes it during a mutation.
CloseAgentGitActions ==
    /\ dialog.open # NoTentacle /\ ~dialog.mutating
    /\ dialog' = [dialog EXCEPT !.open = NoTentacle]
    /\ UNCHANGED <<present, repo, readCache, reqs, mutated, acked, overlapped>>

\* globalDisabledReason of the dialog.
DialogReady ==
    /\ dialog.open # NoTentacle /\ ~dialog.mutating
    /\ \A k \in Kinds : dialog.open \notin dialog.loading[k]

\* runGitMutation, runPullRequestMutation.
Mutate(op, follow) ==
    /\ DialogReady
    /\ follow => op = "commit"
    /\ Len(reqs) < MaxReqs
    /\ reqs' = Append(reqs, NewRequest(op, dialog.open, follow))
    /\ dialog' = [dialog EXCEPT !.mutating = TRUE]
    /\ UNCHANGED <<present, repo, readCache, mutated, acked, overlapped>>

\* parseAgentGitStatus, parseAgentPullRequest: a branch without a pull request
\* is answered without a status, and not understood.
Understood(r) ==
    IF r.phase = "error" THEN {FALSE}
    ELSE IF r.op \in {"pr", "merge"} THEN BOOLEAN ELSE {TRUE}

ShownAfter(r, understood) ==
    LET kind == IF r.op \in {"pr", "merge"} THEN "pr" ELSE "status"
    IN IF understood THEN [dialog.shown EXCEPT ![kind][r.t] = r.answer] ELSE dialog.shown

ReceiveRead(s) ==
    /\ Arrived(s, Kinds)
    /\ \E understood \in Understood(reqs[s]) :
         dialog' = [dialog EXCEPT !.loading[reqs[s].op] = @ \ {reqs[s].t},
                                  !.shown = ShownAfter(reqs[s], understood)]
    /\ reqs' = [reqs EXCEPT ![s] = Done]
    /\ UNCHANGED <<present, repo, readCache, mutated, acked, overlapped>>

\* commitAndPushAgentBranch goes on with the tentacle it began with.
ReceiveMutation(s) ==
    LET r == reqs[s]
        goesOn == Arrived(s, {"commit"}) /\ r.follow /\ r.phase = "ok" IN
    /\ Arrived(s, Mutations)
    /\ reqs' = [reqs EXCEPT ![s] = IF goesOn THEN NewRequest("push", r.t, FALSE) ELSE Done]
    /\ \E understood \in Understood(r) :
         dialog' = [dialog EXCEPT !.mutating = goesOn, !.shown = ShownAfter(r, understood)]
    /\ acked' = IF r.phase = "ok" /\ r.op # "merge" THEN [acked EXCEPT ![r.t] = r.answer] ELSE acked
    /\ UNCHANGED <<present, repo, readCache, mutated, overlapped>>

GitNext ==
    \/ \E s \in 1..MaxReqs : \/ ServeRead(s) \/ ServeMutation(s) \/ Refuse(s)
                             \/ ReceiveRead(s) \/ ReceiveMutation(s)
    \/ \E t \in Tentacles : \/ CreatePullRequest(t) \/ OthersChange(t)
                            \/ Appear(t) \/ Disappear(t) \/ OpenAgentGitActions(t)
    \/ CloseAgentGitActions
    \/ \E op \in Mutations, follow \in BOOLEAN : Mutate(op, follow)

\* Requests are answered one way or another, and answers arrive.
GitFairness ==
    /\ WF_gitVars(\E s \in 1..MaxReqs : ServeRead(s) \/ ServeMutation(s) \/ Refuse(s))
    /\ WF_gitVars(\E s \in 1..MaxReqs : ReceiveRead(s) \/ ReceiveMutation(s))

GitSpec == GitInit /\ [][GitNext]_gitVars /\ GitFairness

-----------------------------------------------------------------------------
\* The variables have their types.
GitTypeOK ==
    /\ present \subseteq Tentacles
    /\ repo \in [Tentacles -> Revs]
    /\ readCache \in Shown
    /\ dialog \in [shown : Shown, loading : [Kinds -> SUBSET Tentacles],
                   open : Tentacles \cup {NoTentacle}, mutating : BOOLEAN]
    /\ reqs \in Seq(Request \cup {Done})
    /\ mutated \in [Tentacles -> Revs] /\ acked \in [Tentacles -> Revs]
    /\ overlapped \subseteq Tentacles

\* What the API answers from its cache is never older than a mutation that it
\* ran itself and that succeeded.
CacheFollowsMutations ==
    \A k \in Kinds, t \in Tentacles :
        readCache[k][t] # Nothing => readCache[k][t] >= mutated[t]

\* One mutation at a time, and the dialog knows of it, even when its tentacle
\* is gone or another dialog is open by now.
OneMutation ==
    LET running == {s \in Under : reqs[s].op \in Mutations} IN
    /\ Cardinality(running) <= 1
    /\ dialog.mutating <=> running # {}

\* When nothing is under way for a tentacle whose fetches never overlapped
\* another request, its dialog does not show a status from before a mutation
\* that the user was told of.
ShownFollowsMutations ==
    \A t \in present :
        /\ UnderFor(t) = {} /\ t \notin overlapped
        /\ dialog.shown["status"][t] # Nothing
        => dialog.shown["status"][t] >= acked[t]

\* The git dialog: caches follow the mutations, mutations run one at a time, and
\* what is shown is not from before one that was acknowledged.
GitSafe == GitTypeOK /\ CacheFollowsMutations /\ OneMutation /\ ShownFollowsMutations

\* What does not last: the dialog never stays disabled; mutations end, and so
\* does loading.
DialogMutates == dialog.mutating
IsLoading(k, t) == t \in dialog.loading[k]
=============================================================================
