------------------------------ MODULE UsageCache ------------------------------
(***************************************************************************)
(* The cache of Claude usage snapshots: readClaudeUsageSnapshot and the    *)
(* refreshes it starts, the direct reads of the two other usage routes,    *)
(* the snapshot file, and the invalidation that the session-start hook     *)
(* asks for.  A snapshot is named by the usage it shows, a number that     *)
(* grows; 0 is no snapshot.  Between two awaits nothing interleaves, so an *)
(* action is the code from one await to the next.                          *)
(***************************************************************************)
EXTENDS Naturals, FiniteSets

CONSTANTS
    Readers,           \* GET /api/claude/usage requests, one at a time each
    Refreshes,         \* runs of a function that asks the sources
    NoRefresh,
    MaxUsage,          \* bound: the usage grows up to it
    MaxInvalidations,  \* bound
    MaxDirects         \* bound on the reads of .../usage/oauth and .../usage/cli

ASSUME CacheAssumption ==
    /\ IsFiniteSet(Refreshes)
    /\ NoRefresh \notin Refreshes
    /\ MaxUsage \in Nat \ {0}
    /\ MaxInvalidations \in Nat
    /\ MaxDirects \in Nat

VARIABLES
    usage,          \* what the sources would say now
    cached, fresh,  \* cachedSnapshot, and is it younger than CACHE_TTL_MS?
    inFlight,       \* refreshInFlight
    refresh,        \* the refreshes under way
    reader,         \* the requests under way
    file,           \* the snapshot file; 0 when missing or not readable
    invalidations, directs, owed, newest
        \* history: counters of what is bounded, an invalidation no refresh was
        \* started since, the newest snapshot ever cached as a fresh one

cacheHistory == <<invalidations, directs, owed, newest>>
cacheVars == <<usage, cached, fresh, inFlight, refresh, reader, file, cacheHistory>>

-----------------------------------------------------------------------------
Snapshots == 0..MaxUsage

\* A refresh asks the sources, has their answer, has stored it in memory, is
\* writing the file, or is over; "direct" ones are not registered in inFlight.
Refresh ==
    [state : {"free", "asking", "answered", "stored", "writing", "over"},
     direct : BOOLEAN, result : Snapshots]

Unstarted == [state |-> "free", direct |-> FALSE, result |-> 0]

\* A request waits for the file (and may have its content), or for a refresh.
\* due: the file held a snapshot when it came and nothing was invalidated since.
Reader ==
    [phase : {"idle", "opening", "read", "awaiting"},
     background : BOOLEAN, got : Snapshots, on : Refreshes \cup {NoRefresh},
     answer : {"none", "fresh", "snapshot", "unavailable"}, due : BOOLEAN]

Waiting == [phase |-> "idle", background |-> TRUE, got |-> 0, on |-> NoRefresh,
            answer |-> "none", due |-> FALSE]

CacheTypeOK ==
    /\ usage \in Snapshots /\ cached \in Snapshots /\ file \in Snapshots /\ newest \in Snapshots
    /\ fresh \in BOOLEAN /\ owed \in BOOLEAN
    /\ inFlight \in Refreshes \cup {NoRefresh}
    /\ refresh \in [Refreshes -> Refresh]
    /\ reader \in [Readers -> Reader]
    /\ invalidations \in 0..MaxInvalidations /\ directs \in 0..MaxDirects

\* The file may be left from an earlier run of the API.
CacheInit ==
    /\ usage = 1
    /\ cached = 0 /\ fresh = FALSE
    /\ inFlight = NoRefresh
    /\ refresh = [r \in Refreshes |-> Unstarted]
    /\ reader = [q \in Readers |-> Waiting]
    /\ file \in {0, 1}
    /\ invalidations = 0 /\ directs = 0 /\ owed = FALSE /\ newest = 0

-----------------------------------------------------------------------------
Running == {r \in Refreshes : refresh[r].state # "free"}
Tracked == {r \in Running : ~refresh[r].direct}

\* A snapshot is in the file and no refresh is about to write it.
FileAtRest == file # 0 /\ \A r \in Running : refresh[r].state \notin {"stored", "writing"}

Started(direct) == [state |-> "asking", direct |-> direct, result |-> 0]

\* A refresh is started and registered.
Begin(r) ==
    /\ refresh[r].state = "free"
    /\ refresh' = [refresh EXCEPT ![r] = Started(FALSE)]
    /\ inFlight' = r
    /\ owed' = FALSE

\* Mutant: a registered refresh does not keep another one from being started.
StartAnotherRefresh == \E r \in Refreshes : Begin(r)

\* startBackgroundRefresh.
StartBackgroundRefresh ==
    IF inFlight # NoRefresh THEN UNCHANGED <<refresh, inFlight, owed>>
    ELSE \E r \in Refreshes : Begin(r)

Answered(q, a) == [Waiting EXCEPT !.answer = a, !.due = reader[q].due]

\* The rest of a read once the snapshot s (or none) is known to be cached.
Continue(q, background, s) ==
    IF s # 0 \/ background
    THEN /\ StartBackgroundRefresh
         /\ reader' = [reader EXCEPT ![q] =
                         Answered(q, IF s # 0 THEN "snapshot" ELSE "unavailable")]
    ELSE /\ IF inFlight # NoRefresh THEN UNCHANGED <<refresh, inFlight, owed>>
                                    ELSE \E r \in Refreshes : Begin(r)
         /\ reader' = [reader EXCEPT ![q] =
                         [@ EXCEPT !.phase = "awaiting", !.got = 0, !.on = inFlight']]

\* readClaudeUsageSnapshot, up to its first await.
Read(q, background) ==
    /\ reader[q].phase = "idle"
    /\ \/ /\ cached # 0 /\ fresh
          /\ reader' = [reader EXCEPT ![q] = [Answered(q, "fresh") EXCEPT !.due = FALSE]]
          /\ UNCHANGED <<refresh, inFlight, owed>>
       \/ /\ cached # 0 /\ ~fresh
          /\ Continue(q, background, cached)
       \/ /\ cached = 0
          /\ reader' = [reader EXCEPT ![q] =
                [Waiting EXCEPT !.phase = "opening", !.background = background, !.due = FileAtRest]]
          /\ UNCHANGED <<refresh, inFlight, owed>>
    /\ UNCHANGED <<usage, cached, fresh, file, invalidations, directs, newest>>

\* The snapshot file is read.
FileRead(q) ==
    /\ reader[q].phase = "opening"
    /\ reader' = [reader EXCEPT ![q].phase = "read", ![q].got = file]
    /\ UNCHANGED <<usage, cached, fresh, inFlight, refresh, file, cacheHistory>>

\* Mutants: what was read counts as fresh; the memory is not looked at again.
ResumeFresh(q) ==
    /\ reader[q].phase = "read"
    /\ LET s == IF reader[q].got # 0 THEN reader[q].got ELSE cached
       IN /\ cached' = s
          /\ fresh' = IF reader[q].got # 0 THEN TRUE ELSE fresh
          /\ Continue(q, reader[q].background, s)
    /\ UNCHANGED <<usage, file, invalidations, directs, newest>>

ResumeUnaware(q) ==
    /\ reader[q].phase = "read"
    /\ LET s == reader[q].got
       IN /\ cached' = IF s # 0 THEN s ELSE cached
          /\ fresh' = IF s # 0 THEN FALSE ELSE fresh
          /\ Continue(q, reader[q].background, s)
    /\ UNCHANGED <<usage, file, invalidations, directs, newest>>

\* readClaudeUsageSnapshot goes on: what was read becomes the cached snapshot,
\* as a stale one, even when a refresh has cached a newer one meanwhile.
Resume(q) ==
    /\ reader[q].phase = "read"
    /\ LET s == IF reader[q].got # 0 THEN reader[q].got ELSE cached
       IN /\ cached' = s
          /\ fresh' = IF reader[q].got # 0 THEN FALSE ELSE fresh
          /\ Continue(q, reader[q].background, s)
    /\ UNCHANGED <<usage, file, invalidations, directs, newest>>

-----------------------------------------------------------------------------
\* readClaudeOauthUsageSnapshot and readClaudeCliUsageSnapshot ask a source
\* without looking at the cache, and cache its answer.
DirectRead(r) ==
    /\ directs < MaxDirects
    /\ refresh[r].state = "free"
    /\ refresh' = [refresh EXCEPT ![r] = Started(TRUE)]
    /\ directs' = directs + 1
    /\ UNCHANGED <<usage, cached, fresh, inFlight, reader, file, invalidations, owed, newest>>

\* A source (the CLI, or the API when the CLI says nothing) forms its answer.
SourceAnswers(r) ==
    /\ refresh[r].state = "asking"
    /\ refresh' = [refresh EXCEPT ![r].state = "answered", ![r].result = usage]
    /\ UNCHANGED <<usage, cached, fresh, inFlight, reader, file, cacheHistory>>

\* Mutant: the failure is not caught, the promise is rejected.
SourcesFailUncaught(r) ==
    /\ refresh[r].state = "asking"
    /\ refresh' = [refresh EXCEPT ![r].state = "rejected"]
    /\ UNCHANGED <<usage, cached, fresh, inFlight, reader, file, cacheHistory>>

\* No source has an answer: a refresh falls back to the cached snapshot, a
\* direct read does not.
SourcesFail(r) ==
    /\ refresh[r].state = "asking"
    /\ refresh' = [refresh EXCEPT ![r].state = "over",
                                  ![r].result = IF refresh[r].direct THEN 0 ELSE cached]
    /\ UNCHANGED <<usage, cached, fresh, inFlight, reader, file, cacheHistory>>

\* cacheOkSnapshot, up to the write of the file.
CacheOkSnapshot(r) ==
    /\ refresh[r].state = "answered"
    /\ cached' = refresh[r].result /\ fresh' = TRUE
    /\ newest' = IF cached' > newest THEN cached' ELSE newest
    /\ refresh' = [refresh EXCEPT ![r].state = "stored"]
    /\ UNCHANGED <<usage, inFlight, reader, file, invalidations, directs, owed>>

\* persistOkSnapshot: the file is truncated and then written; both may fail.
PersistBegins(r) ==
    /\ refresh[r].state = "stored"
    /\ file' = 0
    /\ refresh' = [refresh EXCEPT ![r].state = "writing"]
    /\ UNCHANGED <<usage, cached, fresh, inFlight, reader, cacheHistory>>

PersistEnds(r) ==
    /\ refresh[r].state = "writing"
    /\ file' = refresh[r].result
    /\ refresh' = [refresh EXCEPT ![r].state = "over"]
    /\ UNCHANGED <<usage, cached, fresh, inFlight, reader, cacheHistory>>

PersistFails(r) ==
    /\ refresh[r].state \in {"stored", "writing"}
    /\ refresh' = [refresh EXCEPT ![r].state = "over"]
    /\ UNCHANGED <<usage, cached, fresh, inFlight, reader, file, cacheHistory>>

\* The requests that wait for r get its result.
AnswersOf(r) ==
    [q \in Readers |->
        IF reader[q].on = r
        THEN Answered(q, IF refresh[r].result # 0 THEN "snapshot" ELSE "unavailable")
        ELSE reader[q]]

\* Mutant: the registration is cleared after a success only.
SettlesOnSuccess(r) ==
    /\ refresh[r].state = "over"
    /\ refresh' = [refresh EXCEPT ![r] = Unstarted]
    /\ inFlight' = IF refresh[r].direct \/ refresh[r].result = 0 THEN inFlight ELSE NoRefresh
    /\ reader' = AnswersOf(r)
    /\ UNCHANGED <<usage, cached, fresh, file, cacheHistory>>

\* The finally handler of a refresh clears the registration, be it its own or
\* that of a refresh which was started since.
Settles(r) ==
    /\ refresh[r].state = "over"
    /\ refresh' = [refresh EXCEPT ![r] = Unstarted]
    /\ inFlight' = IF refresh[r].direct THEN inFlight ELSE NoRefresh
    /\ reader' = AnswersOf(r)
    /\ UNCHANGED <<usage, cached, fresh, file, cacheHistory>>

-----------------------------------------------------------------------------
\* invalidateUsageCache, from POST /api/hooks/session-start.
InvalidateUsageCache ==
    /\ invalidations < MaxInvalidations
    /\ cached' = 0 /\ fresh' = FALSE
    /\ inFlight' = NoRefresh
    /\ invalidations' = invalidations + 1
    /\ owed' = TRUE
    /\ reader' = [q \in Readers |-> [reader[q] EXCEPT !.due = FALSE]]
    /\ UNCHANGED <<usage, refresh, file, directs, newest>>

\* CACHE_TTL_MS have passed since the snapshot was cached.
TtlPasses ==
    /\ fresh
    /\ fresh' = FALSE
    /\ UNCHANGED <<usage, cached, inFlight, refresh, reader, file, cacheHistory>>

UsageGrows ==
    /\ usage < MaxUsage
    /\ usage' = usage + 1
    /\ UNCHANGED <<cached, fresh, inFlight, refresh, reader, file, cacheHistory>>

CacheNext ==
    \/ \E q \in Readers : (\E b \in BOOLEAN : Read(q, b)) \/ FileRead(q) \/ Resume(q)
    \/ \E r \in Refreshes :
          \/ DirectRead(r) \/ SourceAnswers(r) \/ SourcesFail(r) \/ CacheOkSnapshot(r)
          \/ PersistBegins(r) \/ PersistEnds(r) \/ PersistFails(r) \/ Settles(r)
    \/ InvalidateUsageCache
    \/ TtlPasses
    \/ UsageGrows

CacheSpec == CacheInit /\ [][CacheNext]_cacheVars

-----------------------------------------------------------------------------
\* Deduplication: more than one refresh asks the sources at a time only after an
\* invalidation, and each invalidation adds at most one, however the ends of the
\* refreshes it forgot clear the registration of later ones.
RefreshesBounded == Cardinality(Tracked) <= 1 + invalidations

\* What is registered is under way: a refresh that is over, well or badly, never
\* keeps later requests from starting one.
InFlightIsRunning == inFlight # NoRefresh => inFlight \in Tracked

\* Unless an invalidation or a direct read lets two answers overtake each other,
\* a snapshot that is served without a refresh is the newest there has been.
FreshIsNewest == invalidations = 0 /\ directs = 0 /\ fresh => cached = newest

\* A request that comes while a snapshot rests in the file is never told that
\* there is none, though refreshes may store, truncate and write the file while
\* it reads, unless an invalidation comes in between.
PersistedIsServed ==
    \A q \in Readers : reader[q].due /\ reader[q].phase = "idle" => reader[q].answer # "unavailable"

\* After an invalidation the next read triggers a fresh fetch: no request is
\* answered from the cache until a refresh was started.
InvalidationForcesFetch ==
    [][\A q \in Readers :
         reader'[q] # reader[q] /\ reader'[q].answer = "fresh" /\ reader[q].answer # "fresh"
            => ~owed]_cacheVars
=============================================================================
