--------------------------- MODULE DurableRegister ---------------------------
(***************************************************************************)
(* What the registry file promises the terminal runtime: documents reach   *)
(* the file in the order they were handed over, some may be passed over    *)
(* for a later one, and a crash forgets only what came after the document  *)
(* in the file.                                                            *)
(***************************************************************************)
EXTENDS Naturals, Sequences

CONSTANT Docs

VARIABLES
    log,       \* the documents handed over so far
    durable    \* the position in log of the document in the file

registerVars == <<log, durable>>

RegisterInit ==
    /\ \E d \in Docs : log = <<d>>
    /\ durable = 1

Put ==
    /\ \E d \in Docs : log' = Append(log, d)
    /\ UNCHANGED durable

Advance ==
    /\ durable' \in {i \in DOMAIN log : i > durable}
    /\ UNCHANGED log

Forget ==
    /\ log' = SubSeq(log, 1, durable)
    /\ UNCHANGED durable

RegisterNext == Put \/ Advance \/ Forget

RegisterSpec == RegisterInit /\ [][RegisterNext]_registerVars
=============================================================================
