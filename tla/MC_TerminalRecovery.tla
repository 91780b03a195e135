------------------------- MODULE MC_TerminalRecovery -------------------------
(* Small instances of TerminalRecovery. *)
EXTENDS TerminalRecovery, TLC

CONSTANTS t1, t2, c1, p1, p2, a1

OwnRequest == [prompt |-> FALSE, tentacle |-> "own", worktree |-> FALSE]
SentiphRequest == [OwnRequest EXCEPT !.tentacle = "sentiph"]

RecoveryRequests == {OwnRequest, SentiphRequest}

\* No pid was given away while a record in memory has a conversation: what the one
\* does to a record and what the other does to it are unrelated.
Bounded ==
    (\E t \in Ids : terminals[t].claude # NoClaude) =>
        \A p \in Pids : ~Unused(p) => procs[p].owner # NoId

Symmetry == Permutations({t1, t2}) \cup Permutations({p1, p2})
=============================================================================
