------------------------------ MODULE MC_Caches ------------------------------
(***************************************************************************)
(* Small instances of the two caches that are kept up to date from outside *)
(* and share no state: the API's cache of usage snapshots and the web      *)
(* client's copy of the terminals.  A behaviour is of one of them; the     *)
(* other stays in its initial state.                                       *)
(***************************************************************************)
EXTENDS UsageCache, TerminalEvents, TLC

CONSTANTS a1, a2, r1, r2, r3, f1, f2

VARIABLE part  \* the part that a behaviour is of

cachesVars == <<part, cacheVars, vars>>

CachesInit ==
    /\ part \in {"usage", "events"}
    /\ CacheInit /\ (part # "usage" => file = 0)
    /\ Init

\* An invalidation and a direct read come both only while the usage stays as it is.
Bounded == invalidations + directs > 1 => usage = 1

CachesNext ==
    /\ \/ part = "usage" /\ CacheNext /\ Bounded' /\ UNCHANGED vars
       \/ part = "events" /\ Next /\ UNCHANGED cacheVars
    /\ UNCHANGED part

CachesSpec == CachesInit /\ [][CachesNext]_cachesVars

Symmetry == Permutations({a1, a2}) \cup Permutations({r1, r2, r3})
=============================================================================
