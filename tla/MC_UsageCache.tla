---------------------------- MODULE MC_UsageCache ----------------------------
(* A small instance of UsageCache. *)
EXTENDS UsageCache

CONSTANTS q1, r1, r2, r3
=============================================================================
