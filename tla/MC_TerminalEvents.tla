-------------------------- MODULE MC_TerminalEvents --------------------------
(* Small instances of TerminalEvents. *)
EXTENDS TerminalEvents, TLC

CONSTANTS t1, t2, f1, f2

Symmetry == Permutations({t1, t2})
=============================================================================
