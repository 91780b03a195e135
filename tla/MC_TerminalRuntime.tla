------------------------- MODULE MC_TerminalRuntime -------------------------
(* Small instances of TerminalRuntime. *)
EXTENDS TerminalRuntime, TLC

CONSTANTS t1, t2, t3, c1, c2, p1, p2

OwnRequest == [prompt |-> FALSE, tentacle |-> "own", worktree |-> FALSE]
PromptRequest == [OwnRequest EXCEPT !.prompt = TRUE]
PlainRequest == [OwnRequest EXCEPT !.tentacle = "other"]
SentiphRequest == [OwnRequest EXCEPT !.tentacle = "sentiph"]
SentiphWorktreeRequest == [SentiphRequest EXCEPT !.worktree = TRUE]

\* The request kinds of the runs.
SessionRequests == {OwnRequest, PlainRequest, PromptRequest, SentiphRequest, SentiphWorktreeRequest}
CascadeRequests == {PromptRequest, [PromptRequest EXCEPT !.worktree = TRUE]}
SentiphRequests == {PlainRequest, OwnRequest, SentiphRequest}

\* A third terminal and its processes are there only beside terminals without
\* sockets, parents, prompts and worktrees; two Sentiphs have no prompts, which are
\* no more to them than being Sentiph is.
Crowded == terminals[t3].state # "none" \/ \E p \in Pids : procs[p].owner = t3

Bounded ==
    /\ \A t \in Ids : terminals[t].parent # t3
    /\ terminals[t1].sentiph /\ terminals[t2].sentiph =>
         ~terminals[t1].prompt /\ ~terminals[t2].prompt
    /\ Crowded =>
         /\ \A c \in Sockets : sockets[c] = NoPid
         /\ worktrees = {}
         /\ \A t \in Ids : terminals[t].parent = NoId /\ ~terminals[t].prompt

\* Ids and processes are interchangeable where no id is Sentiph's.
Symmetry3 == Permutations({t1, t2, t3}) \cup Permutations({p1, p2})
=============================================================================
