----------------------------- MODULE ProcessPool -----------------------------
(***************************************************************************)
(* What the terminal runtime promises about the processes it starts: a     *)
(* user drives a worker of his own, which nobody drove before him, one at  *)
(* a time and within a limit for all users; whoever stops driving a worker *)
(* has it go, and no worker is told to go while it is driven; and nobody   *)
(* drives a worker again that was let go.                                  *)
(***************************************************************************)
EXTENDS Naturals, FiniteSets

CONSTANTS Users, Workers, None, Limit, MayFail

VARIABLES
    drives,    \* drives[u]: the worker that u drives, or None
    status     \* status[w]: what has become of worker w

poolVars == <<drives, status>>

PoolInit ==
    /\ drives = [u \in Users |-> None]
    /\ status = [w \in Workers |-> "unused"]

Drivers == {u \in Users : drives[u] # None}

HasRoom == Cardinality(Drivers) < Limit

Start(u, w) ==
    /\ HasRoom /\ drives[u] = None /\ status[w] = "unused"
    /\ drives' = [drives EXCEPT ![u] = w]
    /\ status' = [status EXCEPT ![w] = "alive"]

\* A start that fails when the worker is there already loses it.
StartFails(w) ==
    /\ MayFail /\ HasRoom /\ status[w] = "unused"
    /\ status' = [status EXCEPT ![w] = "alive"]
    /\ UNCHANGED drives

\* Some users stop, all at once, and those of their workers that have not exited
\* are told to exit, or killed.
Stop(U) ==
    /\ U # {} /\ drives' = [u \in Users |-> IF u \in U THEN None ELSE drives[u]]
    /\ \E how \in {"signalled", "dead"} :
         status' = [w \in Workers |->
             IF status[w] # "dead" /\ \E u \in U : drives[u] = w THEN how ELSE status[w]]

Exit(w) ==
    /\ status[w] \in {"alive", "signalled"}
    /\ status' = [status EXCEPT ![w] = "dead"]
    /\ UNCHANGED drives

PoolNext ==
    \/ \E u \in Users, w \in Workers : Start(u, w)
    \/ \E w \in Workers : StartFails(w) \/ Exit(w)
    \/ \E U \in SUBSET Drivers : Stop(U)

PoolSpec == PoolInit /\ [][PoolNext]_poolVars
=============================================================================
