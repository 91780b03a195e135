------------------------- MODULE UsageCache_proofs --------------------------
(***************************************************************************)
(* Proofs about UsageCache, for any requests, refreshes and bounds, and    *)
(* about UsageCli, the capture that one of its sources runs.               *)
(***************************************************************************)
EXTENDS UsageCache, UsageCli, FiniteSetTheorems, TLAPS

-----------------------------------------------------------------------------
\* What a read does to the refreshes: nothing, or it starts one as none is registered.
Starts ==
    \/ UNCHANGED <<refresh, inFlight, owed>>
    \/ inFlight = NoRefresh /\ \E r \in Refreshes : Begin(r)

LEMMA ReadStarts ==
  ASSUME NEW q \in Readers, NEW b \in BOOLEAN, Read(q, b)
  PROVE  Starts
  BY DEF Read, Continue, StartBackgroundRefresh, Starts

LEMMA ResumeStarts ==
  ASSUME NEW q \in Readers, Resume(q)
  PROVE  Starts
  BY DEF Resume, Continue, StartBackgroundRefresh, Starts

-----------------------------------------------------------------------------
LEMMA StartsType ==
  ASSUME CacheTypeOK, Starts
  PROVE  /\ inFlight' \in Refreshes \cup {NoRefresh}
         /\ refresh' \in [Refreshes -> Refresh]
         /\ owed' \in BOOLEAN
  <1>1. CASE UNCHANGED <<refresh, inFlight, owed>> BY <1>1 DEF CacheTypeOK
  <1>2. ASSUME NEW r \in Refreshes, Begin(r)
        PROVE  /\ inFlight' \in Refreshes \cup {NoRefresh}
               /\ refresh' \in [Refreshes -> Refresh]
               /\ owed' \in BOOLEAN
    <2>1. Started(FALSE) \in Refresh
      BY CacheAssumption, <1>2 DEF Started, Refresh, Snapshots
    <2> QED BY <1>2, <2>1 DEF Begin, CacheTypeOK
  <1> QED BY <1>1, <1>2 DEF Starts

LEMMA WaitingType == Waiting \in Reader
  <1>1. 0 \in Snapshots BY CacheAssumption DEF Snapshots
  <1> QED BY <1>1 DEF Waiting, Reader

LEMMA FreeType == Unstarted \in Refresh
  <1>1. 0 \in Snapshots BY CacheAssumption DEF Snapshots
  <1> QED BY <1>1 DEF Unstarted, Refresh

LEMMA AnsweredType ==
  ASSUME CacheTypeOK, NEW q \in Readers, NEW a \in {"none", "fresh", "snapshot", "unavailable"}
  PROVE  Answered(q, a) \in Reader
  <1>1. reader[q].due \in BOOLEAN BY DEF CacheTypeOK, Reader
  <1>2. Waiting \in Reader BY WaitingType
  <1>3. [Waiting EXCEPT !.answer = a] \in Reader BY <1>2 DEF Reader
  <1> QED BY <1>1, <1>3 DEF Answered, Reader

LEMMA ContinueType ==
  ASSUME CacheTypeOK, NEW q \in Readers, NEW b \in BOOLEAN, NEW s \in Snapshots, Continue(q, b, s)
  PROVE  reader' \in [Readers -> Reader]
  <1>1. Starts BY DEF Continue, StartBackgroundRefresh, Starts
  <1>2. inFlight' \in Refreshes \cup {NoRefresh} BY <1>1, StartsType
  <1>3. CASE s # 0 \/ b
    <2>1. Answered(q, IF s # 0 THEN "snapshot" ELSE "unavailable") \in Reader BY AnsweredType
    <2> QED BY <1>3, <2>1 DEF Continue, CacheTypeOK
  <1>4. CASE ~(s # 0 \/ b)
    <2>1. 0 \in Snapshots BY CacheAssumption DEF Snapshots
    <2>2. [reader[q] EXCEPT !.phase = "awaiting", !.got = 0, !.on = inFlight'] \in Reader
      BY <1>2, <2>1 DEF CacheTypeOK, Reader
    <2> QED BY <1>4, <2>2 DEF Continue, CacheTypeOK
  <1> QED BY <1>3, <1>4

LEMMA TypeInit ==
  ASSUME CacheInit
  PROVE  CacheTypeOK
  <1>1. refresh \in [Refreshes -> Refresh] BY FreeType DEF CacheInit
  <1>2. reader \in [Readers -> Reader] BY WaitingType DEF CacheInit
  <1>3. usage \in Snapshots /\ cached \in Snapshots /\ file \in Snapshots /\ newest \in Snapshots
    BY CacheAssumption DEF CacheInit, Snapshots
  <1>4. invalidations \in 0..MaxInvalidations /\ directs \in 0..MaxDirects
    BY CacheAssumption DEF CacheInit
  <1>5. fresh \in BOOLEAN /\ owed \in BOOLEAN BY DEF CacheInit
  <1>6. inFlight \in Refreshes \cup {NoRefresh} BY DEF CacheInit
  <1> QED BY <1>1, <1>2, <1>3, <1>4, <1>5, <1>6 DEF CacheTypeOK

LEMMA TypeNext ==
  ASSUME CacheTypeOK, [CacheNext]_cacheVars
  PROVE  CacheTypeOK'
  <1> USE CacheAssumption
  <1>1. ASSUME NEW q \in Readers, NEW b \in BOOLEAN, Read(q, b)
        PROVE  CacheTypeOK'
    <2>1. Starts BY <1>1, ReadStarts
    <2>2. reader' \in [Readers -> Reader]
      <3>1. CASE cached # 0 /\ fresh
        <4>1. [Answered(q, "fresh") EXCEPT !.due = FALSE] \in Reader
          BY AnsweredType DEF Reader
        <4> QED BY <1>1, <3>1, <4>1 DEF Read, CacheTypeOK
      <3>2. CASE cached # 0 /\ ~fresh
        BY <1>1, <3>2, ContinueType DEF Read, CacheTypeOK
      <3>3. CASE cached = 0
        <4>1. FileAtRest \in BOOLEAN BY DEF FileAtRest
        <4>2. [Waiting EXCEPT !.phase = "opening", !.background = b] \in Reader
          BY WaitingType DEF Reader
        <4>3. [Waiting EXCEPT !.phase = "opening", !.background = b, !.due = FileAtRest] \in Reader
          BY <4>1, <4>2 DEF Reader
        <4> QED BY <1>1, <3>3, <4>3 DEF Read, CacheTypeOK
      <3> QED BY <3>1, <3>2, <3>3 DEF CacheTypeOK
    <2> QED BY <1>1, <2>1, <2>2, StartsType DEF Read, CacheTypeOK
  <1>2. ASSUME NEW q \in Readers, FileRead(q)
        PROVE  CacheTypeOK'
    <2>1. [reader[q] EXCEPT !.phase = "read", !.got = file] \in Reader BY DEF CacheTypeOK, Reader
    <2>2. reader' \in [Readers -> Reader] BY <1>2, <2>1 DEF FileRead, CacheTypeOK
    <2> QED BY <1>2, <2>2 DEF FileRead, CacheTypeOK, cacheHistory
  <1>3. ASSUME NEW q \in Readers, Resume(q)
        PROVE  CacheTypeOK'
    <2> DEFINE s == IF reader[q].got # 0 THEN reader[q].got ELSE cached
    <2>1. s \in Snapshots /\ reader[q].background \in BOOLEAN BY DEF CacheTypeOK, Reader
    <2>2. Starts BY <1>3, ResumeStarts
    <2>3. reader' \in [Readers -> Reader] BY <1>3, <2>1, ContinueType DEF Resume
    <2>4. cached' \in Snapshots /\ fresh' \in BOOLEAN BY <1>3, <2>1 DEF Resume, CacheTypeOK
    <2> QED BY <1>3, <2>2, <2>3, <2>4, StartsType DEF Resume, CacheTypeOK
  <1>4. ASSUME NEW r \in Refreshes, DirectRead(r)
        PROVE  CacheTypeOK'
    <2>1. Started(TRUE) \in Refresh BY DEF Started, Refresh, Snapshots
    <2>2. refresh' \in [Refreshes -> Refresh] BY <1>4, <2>1 DEF DirectRead, CacheTypeOK
    <2>3. directs' \in 0..MaxDirects BY <1>4 DEF DirectRead, CacheTypeOK
    <2> QED BY <1>4, <2>2, <2>3 DEF DirectRead, CacheTypeOK
  <1>5. ASSUME NEW r \in Refreshes, SourceAnswers(r)
        PROVE  CacheTypeOK'
    BY <1>5 DEF SourceAnswers, CacheTypeOK, Refresh, cacheHistory
  <1>6. ASSUME NEW r \in Refreshes, SourcesFail(r)
        PROVE  CacheTypeOK'
    <2>1. (IF refresh[r].direct THEN 0 ELSE cached) \in Snapshots BY DEF CacheTypeOK, Snapshots
    <2> QED BY <1>6, <2>1 DEF SourcesFail, CacheTypeOK, Refresh, cacheHistory
  <1>7. ASSUME NEW r \in Refreshes, CacheOkSnapshot(r)
        PROVE  CacheTypeOK'
    BY <1>7 DEF CacheOkSnapshot, CacheTypeOK, Refresh
  <1>8. ASSUME NEW r \in Refreshes, PersistBegins(r)
        PROVE  CacheTypeOK'
    BY <1>8 DEF PersistBegins, CacheTypeOK, Refresh, Snapshots, cacheHistory
  <1>9. ASSUME NEW r \in Refreshes, PersistEnds(r)
        PROVE  CacheTypeOK'
    BY <1>9 DEF PersistEnds, CacheTypeOK, Refresh, cacheHistory
  <1>10. ASSUME NEW r \in Refreshes, PersistFails(r)
         PROVE  CacheTypeOK'
    BY <1>10 DEF PersistFails, CacheTypeOK, Refresh, cacheHistory
  <1>11. ASSUME NEW r \in Refreshes, Settles(r)
         PROVE  CacheTypeOK'
    <2>1. AnswersOf(r) \in [Readers -> Reader] BY AnsweredType DEF AnswersOf, CacheTypeOK
    <2> QED BY <1>11, <2>1, FreeType DEF Settles, CacheTypeOK, cacheHistory
  <1>12. ASSUME InvalidateUsageCache
         PROVE  CacheTypeOK'
    <2>1. \A q \in Readers : [reader[q] EXCEPT !.due = FALSE] \in Reader BY DEF CacheTypeOK, Reader
    <2>2. reader' \in [Readers -> Reader] BY <1>12, <2>1 DEF InvalidateUsageCache
    <2>3. cached' \in Snapshots BY <1>12 DEF InvalidateUsageCache, Snapshots
    <2>4. invalidations' \in 0..MaxInvalidations BY <1>12 DEF InvalidateUsageCache, CacheTypeOK
    <2> QED BY <1>12, <2>2, <2>3, <2>4 DEF InvalidateUsageCache, CacheTypeOK
  <1>13. CASE TtlPasses BY <1>13 DEF TtlPasses, CacheTypeOK, cacheHistory
  <1>14. CASE UsageGrows BY <1>14 DEF UsageGrows, CacheTypeOK, Snapshots, cacheHistory
  <1>15. CASE UNCHANGED cacheVars BY <1>15 DEF CacheTypeOK, cacheVars, cacheHistory
  <1> QED
    BY <1>1, <1>2, <1>3, <1>4, <1>5, <1>6, <1>7, <1>8, <1>9, <1>10, <1>11, <1>12,
       <1>13, <1>14, <1>15 DEF CacheNext

\* The cache, the refreshes and the requests keep their types.
THEOREM TypeCorrect == CacheSpec => []CacheTypeOK
  BY TypeInit, TypeNext, PTL DEF CacheSpec

-----------------------------------------------------------------------------
\* Of the tracked refreshes, those that are not registered were forgotten by an
\* invalidation, or took the place of one that was.
OneForgotten == Cardinality(Tracked \ {inFlight}) <= invalidations

LInv == CacheTypeOK /\ InFlightIsRunning /\ OneForgotten

LEMMA TrackedFinite ==
  ASSUME NEW T \in SUBSET Refreshes
  PROVE  IsFiniteSet(T) /\ Cardinality(T) \in Nat
  BY CacheAssumption, FS_Subset, FS_CardinalityType

\* A read keeps what is tracked but unregistered as it is.
LEMMA StartsKeepsLInv ==
  ASSUME LInv, Starts, UNCHANGED invalidations
  PROVE  InFlightIsRunning' /\ OneForgotten'
  <1>1. CASE UNCHANGED <<refresh, inFlight, owed>>
    BY <1>1 DEF LInv, InFlightIsRunning, OneForgotten, Tracked, Running
  <1>2. ASSUME NEW r \in Refreshes, Begin(r), inFlight = NoRefresh
        PROVE  InFlightIsRunning' /\ OneForgotten'
    <2>1. refresh' = [refresh EXCEPT ![r] = Started(FALSE)] /\ inFlight' = r
      BY <1>2 DEF Begin
    <2>2. Tracked' = Tracked \cup {r}
      BY <2>1 DEF LInv, CacheTypeOK, Tracked, Running, Started
    <2>3. r \notin Tracked BY <1>2 DEF Begin, Tracked, Running
    <2>4. NoRefresh \notin Tracked BY CacheAssumption DEF Tracked, Running
    <2>5. Tracked' \ {inFlight'} = Tracked \ {inFlight} BY <1>2, <2>1, <2>2, <2>3, <2>4
    <2> QED BY <2>1, <2>2, <2>5 DEF LInv, InFlightIsRunning, OneForgotten
  <1> QED BY <1>1, <1>2 DEF Starts

\* So does a step that neither registers, starts nor ends a tracked refresh.
LEMMA SameTracked ==
  ASSUME LInv, Tracked' = Tracked, UNCHANGED inFlight, UNCHANGED invalidations
  PROVE  InFlightIsRunning' /\ OneForgotten'
  BY DEF LInv, InFlightIsRunning, OneForgotten

\* A step of a refresh that goes on.
GoesOn(r) ==
    \/ SourceAnswers(r) \/ SourcesFail(r) \/ CacheOkSnapshot(r)
    \/ PersistBegins(r) \/ PersistEnds(r) \/ PersistFails(r)

LEMMA GoesOnTracked ==
  ASSUME CacheTypeOK, NEW r \in Refreshes, GoesOn(r)
  PROVE  Tracked' = Tracked /\ UNCHANGED <<inFlight, invalidations, directs>>
  <1>1. /\ refresh[r].state # "free" /\ refresh'[r].state # "free"
        /\ refresh'[r].direct = refresh[r].direct
        /\ \A t \in Refreshes : t # r => refresh'[t] = refresh[t]
    BY DEF GoesOn, SourceAnswers, SourcesFail, CacheOkSnapshot, PersistBegins, PersistEnds,
           PersistFails, CacheTypeOK, Refresh
  <1>2. UNCHANGED <<inFlight, invalidations, directs>>
    BY DEF GoesOn, SourceAnswers, SourcesFail, CacheOkSnapshot, PersistBegins, PersistEnds,
           PersistFails, cacheHistory
  <1> QED BY <1>1, <1>2 DEF Tracked, Running

\* A refresh that settles leaves at most as many unregistered as there were: it
\* was one of them, or it was the registered one, or it clears the registration
\* of another one and is gone itself.
LEMMA SettlesKeepsLInv ==
  ASSUME LInv, NEW r \in Refreshes, Settles(r)
  PROVE  InFlightIsRunning' /\ OneForgotten'
  <1>1. /\ refresh[r].state = "over"
        /\ refresh' = [refresh EXCEPT ![r] = Unstarted]
        /\ UNCHANGED <<invalidations>>
    BY DEF Settles, cacheHistory
  <1>2. Tracked' = Tracked \ {r} BY <1>1 DEF LInv, CacheTypeOK, Tracked, Running, Unstarted
  <1>3. CASE refresh[r].direct
    <2>1. Tracked' = Tracked BY <1>2, <1>3 DEF Tracked
    <2>2. UNCHANGED inFlight BY <1>3 DEF Settles
    <2> QED BY <1>1, <2>1, <2>2, SameTracked
  <1>4. CASE ~refresh[r].direct
    <2>1. r \in Tracked BY <1>1, <1>4 DEF Tracked, Running
    <2>2. inFlight' = NoRefresh BY <1>4 DEF Settles
    <2>3. NoRefresh \notin Tracked BY CacheAssumption DEF Tracked, Running
    <2>4. Tracked' \ {inFlight'} = Tracked \ {r} BY <1>2, <2>2, <2>3
    <2>5. IsFiniteSet(Tracked) /\ Cardinality(Tracked) \in Nat
      BY TrackedFinite DEF Tracked, Running
    <2>6. Cardinality(Tracked \ {r}) = Cardinality(Tracked) - 1 BY <2>1, <2>5, FS_RemoveElement
    <2>7. Cardinality(Tracked \ {inFlight}) >= Cardinality(Tracked) - 1
      BY <2>5, FS_RemoveElement
    <2>8. OneForgotten'
      <3>1. Cardinality(Tracked \ {inFlight}) \in Nat
        BY TrackedFinite DEF Tracked, Running
      <3>2. invalidations' = invalidations /\ invalidations \in Nat BY <1>1 DEF LInv, CacheTypeOK
      <3>3. Cardinality(Tracked \ {inFlight}) <= invalidations BY DEF LInv, OneForgotten
      <3> QED BY <2>4, <2>5, <2>6, <2>7, <3>1, <3>2, <3>3 DEF OneForgotten
    <2> QED BY <2>2, <2>8 DEF InFlightIsRunning
  <1> QED BY <1>3, <1>4

LEMMA InvalidateKeepsLInv ==
  ASSUME LInv, InvalidateUsageCache
  PROVE  InFlightIsRunning' /\ OneForgotten'
  <1>1. /\ Tracked' = Tracked /\ inFlight' = NoRefresh
        /\ invalidations' = invalidations + 1
    BY DEF InvalidateUsageCache, Tracked, Running
  <1>2. Tracked' \ {inFlight'} = Tracked
    BY <1>1, CacheAssumption DEF Tracked, Running
  <1>3. IsFiniteSet(Tracked) /\ Cardinality(Tracked) \in Nat BY TrackedFinite DEF Tracked, Running
  <1>4. Cardinality(Tracked) <= Cardinality(Tracked \ {inFlight}) + 1
    BY <1>3, FS_RemoveElement
  <1>5. Cardinality(Tracked \ {inFlight}) \in Nat BY TrackedFinite DEF Tracked, Running
  <1>6. invalidations \in Nat /\ Cardinality(Tracked \ {inFlight}) <= invalidations
    BY DEF LInv, CacheTypeOK, OneForgotten
  <1> QED BY <1>1, <1>2, <1>3, <1>4, <1>5, <1>6 DEF InFlightIsRunning, OneForgotten

LEMMA LInvNext ==
  ASSUME LInv, [CacheNext]_cacheVars
  PROVE  LInv'
  <1>1. CacheTypeOK' BY TypeNext DEF LInv
  <1>2. ASSUME NEW q \in Readers, NEW b \in BOOLEAN, Read(q, b)
        PROVE  InFlightIsRunning' /\ OneForgotten'
    BY <1>2, ReadStarts, StartsKeepsLInv DEF Read
  <1>3. ASSUME NEW q \in Readers, Resume(q)
        PROVE  InFlightIsRunning' /\ OneForgotten'
    BY <1>3, ResumeStarts, StartsKeepsLInv DEF Resume
  <1>4. ASSUME NEW r \in Refreshes, DirectRead(r)
        PROVE  InFlightIsRunning' /\ OneForgotten'
    <2>1. Tracked' = Tracked
      BY <1>4 DEF DirectRead, LInv, CacheTypeOK, Tracked, Running, Started
    <2> QED BY <1>4, <2>1, SameTracked DEF DirectRead
  <1>5. ASSUME NEW r \in Refreshes, GoesOn(r)
        PROVE  InFlightIsRunning' /\ OneForgotten'
    BY <1>5, GoesOnTracked, SameTracked DEF LInv
  <1>6. ASSUME UNCHANGED <<refresh, inFlight, invalidations>>
        PROVE  InFlightIsRunning' /\ OneForgotten'
    <2>1. Tracked' = Tracked BY <1>6 DEF Tracked, Running
    <2>2. UNCHANGED inFlight /\ UNCHANGED invalidations BY <1>6
    <2> QED BY <2>1, <2>2, SameTracked
  <1>7. InFlightIsRunning' /\ OneForgotten'
    <2>1. ASSUME NEW q \in Readers, FileRead(q)
          PROVE  UNCHANGED <<refresh, inFlight, invalidations>>
      BY <2>1 DEF FileRead, cacheHistory
    <2>2. TtlPasses \/ UsageGrows \/ UNCHANGED cacheVars
              => UNCHANGED <<refresh, inFlight, invalidations>>
      BY DEF TtlPasses, UsageGrows, cacheVars, cacheHistory
    <2>3. ASSUME NEW q \in Readers, (\E b \in BOOLEAN : Read(q, b)) \/ FileRead(q) \/ Resume(q)
          PROVE  InFlightIsRunning' /\ OneForgotten'
      BY <1>2, <1>3, <1>6, <2>1, <2>3
    <2>4. ASSUME NEW r \in Refreshes, DirectRead(r) \/ GoesOn(r) \/ Settles(r)
          PROVE  InFlightIsRunning' /\ OneForgotten'
      BY <1>4, <1>5, <2>4, SettlesKeepsLInv
    <2>5. CASE InvalidateUsageCache BY <2>5, InvalidateKeepsLInv
    <2>6. CASE TtlPasses \/ UsageGrows \/ UNCHANGED cacheVars BY <1>6, <2>2, <2>6
    <2> QED BY <2>3, <2>4, <2>5, <2>6 DEF CacheNext, GoesOn
  <1> QED BY <1>1, <1>7 DEF LInv

LEMMA LInvInit ==
  ASSUME CacheInit
  PROVE  LInv
  <1>1. Tracked = {} BY DEF CacheInit, Tracked, Running, Unstarted
  <1>2. Cardinality(Tracked \ {inFlight}) = 0 BY <1>1, FS_EmptySet
  <1>3. OneForgotten BY <1>2 DEF CacheInit, OneForgotten
  <1> QED BY <1>3, TypeInit DEF CacheInit, LInv, InFlightIsRunning

LEMMA LInvHolds == CacheSpec => []LInv
  BY LInvInit, LInvNext, PTL DEF CacheSpec

\* A registered refresh is under way.
THEOREM RegisteredIsRunning == CacheSpec => []InFlightIsRunning
  <1>1. LInv => InFlightIsRunning BY DEF LInv
  <1> QED BY <1>1, LInvHolds, PTL

\* At most one tracked refresh, and one more for each invalidation so far.
THEOREM AtMostOneRefresh == CacheSpec => []RefreshesBounded
  <1>1. ASSUME LInv
        PROVE  RefreshesBounded
    <2>1. IsFiniteSet(Tracked) /\ Cardinality(Tracked) \in Nat
      BY TrackedFinite DEF Tracked, Running
    <2>2. Cardinality(Tracked \ {inFlight}) \in Nat BY TrackedFinite DEF Tracked, Running
    <2>3. Cardinality(Tracked) <= Cardinality(Tracked \ {inFlight}) + 1
      BY <2>1, FS_RemoveElement
    <2>4. invalidations \in Nat /\ Cardinality(Tracked \ {inFlight}) <= invalidations
      BY <1>1 DEF LInv, CacheTypeOK, OneForgotten
    <2> QED BY <2>1, <2>2, <2>3, <2>4 DEF RefreshesBounded
  <1> QED BY <1>1, LInvHolds, PTL

-----------------------------------------------------------------------------
\* A request that is due finds a snapshot: it is cached, or it was read, or it
\* rests in the file until the read.  What is stored is never the absence of one.
Results ==
    /\ usage > 0
    /\ \A r \in Refreshes :
          refresh[r].state \in {"answered", "stored", "writing"} => refresh[r].result # 0

DueIsServed(q) ==
    /\ reader[q].on = NoRefresh
    /\ reader[q].phase = "opening" => cached # 0 \/ FileAtRest
    /\ reader[q].phase = "read" => cached # 0 \/ reader[q].got # 0
    /\ reader[q].phase # "awaiting"
    /\ reader[q].phase = "idle" => reader[q].answer # "unavailable"

SInv == CacheTypeOK /\ Results /\ \A q \in Readers : reader[q].due => DueIsServed(q)

LEMMA StartsKeepsFile ==
  ASSUME SInv, Starts, UNCHANGED <<usage, file>>
  PROVE  /\ Results'
         /\ FileAtRest' = FileAtRest
  <1>1. CASE UNCHANGED <<refresh, inFlight, owed>>
    BY <1>1 DEF SInv, Results, FileAtRest, Running
  <1>2. ASSUME NEW r \in Refreshes, Begin(r)
        PROVE  Results' /\ FileAtRest' = FileAtRest
    <2>1. /\ refresh[r].state = "free" /\ refresh'[r].state = "asking"
          /\ \A t \in Refreshes : t # r => refresh'[t] = refresh[t]
      BY <1>2 DEF Begin, Started, SInv, CacheTypeOK
    <2> QED BY <2>1 DEF SInv, Results, FileAtRest, Running
  <1> QED BY <1>1, <1>2 DEF Starts

\* The answer that Continue gives for a snapshot is that snapshot.
LEMMA ContinueServes ==
  ASSUME SInv, NEW q \in Readers, NEW b \in BOOLEAN, NEW s \in Snapshots, Continue(q, b, s),
         reader[q].due => s # 0,
         cached # 0 => cached' # 0,
         FileAtRest' = FileAtRest
  PROVE  \A p \in Readers : reader'[p].due => DueIsServed(p)'
  <1>1. ASSUME NEW p \in Readers, p # q, reader'[p].due
        PROVE  DueIsServed(p)'
    <2>1. reader'[p] = reader[p] BY <1>1 DEF Continue, SInv, CacheTypeOK
    <2> QED BY <1>1, <2>1 DEF SInv, DueIsServed
  <1>2. ASSUME reader'[q].due
        PROVE  DueIsServed(q)'
    <2>1. CASE s # 0
      <3>1. reader'[q] = Answered(q, "snapshot") BY <2>1 DEF Continue, SInv, CacheTypeOK
      <3> QED BY <3>1 DEF Answered, Waiting, DueIsServed
    <2>2. CASE s = 0
      <3>1. ~reader[q].due BY <2>2
      <3>2. reader'[q].due = reader[q].due
        BY <2>2 DEF Continue, Answered, Waiting, SInv, CacheTypeOK, Reader
      <3> QED BY <1>2, <3>1, <3>2
    <2> QED BY <2>1, <2>2
  <1> QED BY <1>1, <1>2

\* A step of a refresh lets no snapshot vanish from the file before it is cached.
LEMMA GoesOnServes ==
  ASSUME SInv, NEW r \in Refreshes, GoesOn(r)
  PROVE  /\ Results'
         /\ \A q \in Readers : reader'[q].due => DueIsServed(q)'
  <1>1. /\ \A t \in Refreshes : t # r => refresh'[t] = refresh[t]
        /\ UNCHANGED <<usage, reader>>
    BY DEF GoesOn, SourceAnswers, SourcesFail, CacheOkSnapshot, PersistBegins, PersistEnds,
           PersistFails, SInv, CacheTypeOK, cacheHistory
  <1>2. usage \in Nat /\ usage > 0 BY DEF SInv, Results, CacheTypeOK, Snapshots
  <1>3. refresh'[r].state \in {"answered", "stored", "writing"} => refresh'[r].result # 0
    BY <1>2 DEF GoesOn, SourceAnswers, SourcesFail, CacheOkSnapshot, PersistBegins, PersistEnds,
       PersistFails, SInv, CacheTypeOK, Refresh, Results
  <1>4. Results' BY <1>1, <1>2, <1>3 DEF SInv, Results
  <1>5. cached # 0 => cached' # 0
    BY DEF GoesOn, SourceAnswers, SourcesFail, CacheOkSnapshot, PersistBegins, PersistEnds,
       PersistFails, SInv, Results, cacheHistory
  <1>6. FileAtRest => cached' # 0 \/ FileAtRest'
    <2>1. CASE SourceAnswers(r) \/ SourcesFail(r)
      <3>1. refresh'[r].state \in {"answered", "over"} /\ UNCHANGED file
        BY <2>1 DEF SourceAnswers, SourcesFail, SInv, CacheTypeOK, Refresh, cacheHistory
      <3> QED BY <1>1, <3>1 DEF FileAtRest, Running
    <2>2. CASE CacheOkSnapshot(r) BY <2>2 DEF CacheOkSnapshot, SInv, Results
    <2>3. CASE PersistBegins(r) \/ PersistEnds(r) \/ PersistFails(r)
      BY <2>3 DEF PersistBegins, PersistEnds, PersistFails, FileAtRest, Running
    <2> QED BY <2>1, <2>2, <2>3 DEF GoesOn
  <1>7. \A q \in Readers : reader'[q].due => DueIsServed(q)'
    BY <1>1, <1>5, <1>6 DEF SInv, DueIsServed
  <1> QED BY <1>4, <1>7

\* The requests that a refresh answers are not due: they were due for a snapshot
\* before they waited, and then they would not have waited.
LEMMA SettlesServes ==
  ASSUME SInv, NEW r \in Refreshes, Settles(r)
  PROVE  /\ Results'
         /\ \A q \in Readers : reader'[q].due => DueIsServed(q)'
  <1>1. /\ refresh' = [refresh EXCEPT ![r] = Unstarted] /\ reader' = AnswersOf(r)
        /\ UNCHANGED <<usage, cached, file>> /\ refresh[r].state = "over"
    BY DEF Settles
  <1>2. Results' BY <1>1 DEF Results, SInv, CacheTypeOK, Unstarted
  <1>3. FileAtRest => FileAtRest' BY <1>1 DEF FileAtRest, Running, SInv, CacheTypeOK, Unstarted
  <1>4. ASSUME NEW q \in Readers, reader'[q].due
        PROVE  DueIsServed(q)'
    <2>1. CASE reader[q].on = r
      <3>1. reader'[q].due = reader[q].due BY <1>1, <2>1 DEF AnswersOf, Answered, Waiting
      <3>2. ~reader[q].due BY <2>1, CacheAssumption DEF SInv, DueIsServed
      <3> QED BY <1>4, <3>1, <3>2
    <2>2. CASE reader[q].on # r
      <3>1. reader'[q] = reader[q] BY <1>1, <2>2 DEF AnswersOf
      <3> QED BY <1>1, <1>3, <1>4, <3>1 DEF SInv, DueIsServed
    <2> QED BY <2>1, <2>2
  <1> QED BY <1>2, <1>4

LEMMA ReadServes ==
  ASSUME SInv, NEW q \in Readers, NEW b \in BOOLEAN, Read(q, b)
  PROVE  /\ Results'
         /\ \A p \in Readers : reader'[p].due => DueIsServed(p)'
  <1>1. UNCHANGED <<usage, cached, file>> BY DEF Read
  <1>2. Results' /\ FileAtRest' = FileAtRest BY <1>1, ReadStarts, StartsKeepsFile
  <1>3. ASSUME NEW p \in Readers, p # q, reader'[p] = reader[p], reader'[p].due
        PROVE  DueIsServed(p)'
    BY <1>1, <1>2, <1>3 DEF SInv, DueIsServed
  <1>4. CASE cached # 0 /\ ~fresh
    <2>1. Continue(q, b, cached) BY <1>4 DEF Read
    <2>2. cached \in Snapshots BY DEF SInv, CacheTypeOK
    <2> QED BY <1>1, <1>2, <1>4, <2>1, <2>2, ContinueServes
  <1>5. CASE cached # 0 /\ fresh
    <2>1. reader' = [reader EXCEPT ![q] = [Answered(q, "fresh") EXCEPT !.due = FALSE]]
      BY <1>5 DEF Read
    <2>2. ~reader'[q].due BY <2>1 DEF SInv, CacheTypeOK, Answered, Waiting
    <2>3. \A p \in Readers : p # q => reader'[p] = reader[p] BY <2>1 DEF SInv, CacheTypeOK
    <2> QED BY <1>2, <1>3, <2>2, <2>3
  <1>6. CASE cached = 0
    <2> DEFINE w == [Waiting EXCEPT !.phase = "opening", !.background = b, !.due = FileAtRest]
    <2>1. reader' = [reader EXCEPT ![q] = w] BY <1>6 DEF Read
    <2>2. reader'[q] = w /\ \A p \in Readers : p # q => reader'[p] = reader[p]
      BY <2>1 DEF SInv, CacheTypeOK
    <2>3. w.phase = "opening" /\ w.on = NoRefresh /\ w.due = FileAtRest BY DEF Waiting
    <2>4. reader'[q].due => DueIsServed(q)' BY <1>2, <2>2, <2>3 DEF DueIsServed
    <2> QED BY <1>2, <1>3, <2>2, <2>4
  <1> QED BY <1>4, <1>5, <1>6

LEMMA ResumeServes ==
  ASSUME SInv, NEW q \in Readers, Resume(q)
  PROVE  /\ Results'
         /\ \A p \in Readers : reader'[p].due => DueIsServed(p)'
  <1> DEFINE s == IF reader[q].got # 0 THEN reader[q].got ELSE cached
  <1>1. UNCHANGED <<usage, file>> /\ cached' = s BY DEF Resume
  <1>2. Results' /\ FileAtRest' = FileAtRest BY <1>1, ResumeStarts, StartsKeepsFile
  <1>3. s \in Snapshots /\ reader[q].background \in BOOLEAN BY DEF SInv, CacheTypeOK, Reader
  <1>4. Continue(q, reader[q].background, s) BY DEF Resume
  <1>5. reader[q].due => s # 0 BY DEF Resume, SInv, DueIsServed
  <1>6. cached # 0 => cached' # 0 BY <1>1
  <1> QED BY <1>2, <1>3, <1>4, <1>5, <1>6, ContinueServes

LEMMA FileReadServes ==
  ASSUME SInv, NEW q \in Readers, FileRead(q)
  PROVE  /\ Results'
         /\ \A p \in Readers : reader'[p].due => DueIsServed(p)'
  <1>1. UNCHANGED <<usage, cached, refresh, file>> BY DEF FileRead
  <1>2. Results' /\ FileAtRest' = FileAtRest BY <1>1 DEF SInv, Results, FileAtRest, Running
  <1>3. /\ reader'[q] = [reader[q] EXCEPT !.phase = "read", !.got = file]
        /\ \A p \in Readers : p # q => reader'[p] = reader[p]
    BY DEF FileRead, SInv, CacheTypeOK
  <1>4. reader'[q].due => DueIsServed(q)'
    <2>1. /\ reader'[q].phase = "read" /\ reader'[q].got = file
          /\ reader'[q].on = reader[q].on /\ reader'[q].due = reader[q].due
      BY <1>3 DEF SInv, CacheTypeOK, Reader
    <2>2. reader[q].phase = "opening" BY DEF FileRead
    <2>3. reader[q].due => reader[q].on = NoRefresh /\ (cached # 0 \/ file # 0)
      BY <2>2 DEF SInv, DueIsServed, FileAtRest
    <2> QED BY <1>1, <2>1, <2>3 DEF DueIsServed
  <1> QED BY <1>1, <1>2, <1>3, <1>4 DEF SInv, DueIsServed

LEMMA SInvNext ==
  ASSUME SInv, [CacheNext]_cacheVars
  PROVE  SInv'
  <1>1. CacheTypeOK' BY TypeNext DEF SInv
  <1>2. Results' /\ \A q \in Readers : reader'[q].due => DueIsServed(q)'
    <2>1. ASSUME NEW r \in Refreshes, DirectRead(r)
          PROVE  Results' /\ \A q \in Readers : reader'[q].due => DueIsServed(q)'
      <3>1. /\ UNCHANGED <<usage, cached, reader, file>> /\ refresh'[r].state = "asking"
            /\ refresh[r].state = "free"
            /\ \A t \in Refreshes : t # r => refresh'[t] = refresh[t]
        BY <2>1 DEF DirectRead, Started, SInv, CacheTypeOK
      <3>2. Results' /\ FileAtRest' = FileAtRest BY <3>1 DEF SInv, Results, FileAtRest, Running
      <3> QED BY <3>1, <3>2 DEF SInv, DueIsServed
    <2>2. ASSUME InvalidateUsageCache
          PROVE  Results' /\ \A q \in Readers : reader'[q].due => DueIsServed(q)'
      <3>1. \A q \in Readers : ~reader'[q].due
        BY <2>2 DEF InvalidateUsageCache, SInv, CacheTypeOK, Reader
      <3> QED BY <2>2, <3>1 DEF InvalidateUsageCache, SInv, Results
    <2>3. ASSUME UNCHANGED <<cached, refresh, reader, file>>, usage' \in {usage, usage + 1}
          PROVE  Results' /\ \A q \in Readers : reader'[q].due => DueIsServed(q)'
      <3>1. usage' > 0 BY <2>3 DEF SInv, Results, CacheTypeOK, Snapshots
      <3>2. FileAtRest' = FileAtRest BY <2>3 DEF FileAtRest, Running
      <3> QED BY <2>3, <3>1, <3>2 DEF SInv, Results, DueIsServed
    <2>4. TtlPasses \/ UsageGrows \/ UNCHANGED cacheVars
            => UNCHANGED <<cached, refresh, reader, file>> /\ usage' \in {usage, usage + 1}
      BY DEF TtlPasses, UsageGrows, cacheVars
    <2>5. ASSUME NEW q \in Readers, (\E b \in BOOLEAN : Read(q, b)) \/ FileRead(q) \/ Resume(q)
          PROVE  Results' /\ \A p \in Readers : reader'[p].due => DueIsServed(p)'
      BY <2>5, ReadServes, FileReadServes, ResumeServes
    <2>6. ASSUME NEW r \in Refreshes, DirectRead(r) \/ GoesOn(r) \/ Settles(r)
          PROVE  Results' /\ \A q \in Readers : reader'[q].due => DueIsServed(q)'
      BY <2>1, <2>6, GoesOnServes, SettlesServes
    <2> QED BY <2>2, <2>3, <2>4, <2>5, <2>6 DEF CacheNext, GoesOn
  <1> QED BY <1>1, <1>2 DEF SInv

\* A request that comes while a snapshot rests in the file is never told that
\* there is none, unless an invalidation comes in between.
THEOREM PersistedSnapshotServed == CacheSpec => []PersistedIsServed
  <1>1. ASSUME CacheInit
        PROVE  SInv
    <2>1. \A q \in Readers : ~reader[q].due BY <1>1 DEF CacheInit, Waiting
    <2>2. Results BY <1>1 DEF CacheInit, Results, Unstarted
    <2> QED BY <1>1, <2>1, <2>2, TypeInit DEF SInv
  <1>2. SInv => PersistedIsServed BY DEF SInv, DueIsServed, PersistedIsServed
  <1> QED BY <1>1, <1>2, SInvNext, PTL DEF CacheSpec

-----------------------------------------------------------------------------
\* While nothing was invalidated or read directly, one refresh runs at a time, so
\* that the answer it has is at least as new as any that was cached before.
NoDirects == directs = 0 => \A r \in Refreshes : ~refresh[r].direct

AnswersAreNew ==
    /\ newest <= usage
    /\ \A r \in Refreshes : refresh[r].state = "answered" =>
          /\ refresh[r].result <= usage
          /\ invalidations = 0 /\ directs = 0 => refresh[r].result >= newest

NInv == LInv /\ NoDirects /\ AnswersAreNew /\ FreshIsNewest

LEMMA NoneForgotten ==
  ASSUME LInv, invalidations = 0
  PROVE  Tracked \subseteq {inFlight}
  <1>1. IsFiniteSet(Tracked \ {inFlight}) /\ Cardinality(Tracked \ {inFlight}) \in Nat
    BY TrackedFinite DEF Tracked, Running
  <1>2. Cardinality(Tracked \ {inFlight}) = 0 BY <1>1 DEF LInv, OneForgotten
  <1>3. Tracked \ {inFlight} = {} BY <1>1, <1>2, FS_EmptySet
  <1> QED BY <1>3

LEMMA NoDirectsNext ==
  ASSUME CacheTypeOK, NoDirects, [CacheNext]_cacheVars
  PROVE  NoDirects'
  <1>1. ASSUME Starts, UNCHANGED directs
        PROVE  NoDirects'
    BY <1>1 DEF Starts, Begin, Started, NoDirects, CacheTypeOK
  <1>2. ASSUME NEW q \in Readers, (\E b \in BOOLEAN : Read(q, b)) \/ Resume(q)
        PROVE  NoDirects'
    <2>1. Starts BY <1>2, ReadStarts, ResumeStarts
    <2>2. UNCHANGED directs BY <1>2 DEF Read, Resume
    <2> QED BY <1>1, <2>1, <2>2
  <1>3. ASSUME NEW r \in Refreshes, DirectRead(r)
        PROVE  NoDirects'
    BY <1>3 DEF DirectRead, NoDirects, CacheTypeOK
  <1>4. ASSUME NEW r \in Refreshes, GoesOn(r)
        PROVE  NoDirects'
    <2>1. \A t \in Refreshes : refresh'[t].direct = refresh[t].direct
      BY <1>4 DEF GoesOn, SourceAnswers, SourcesFail, CacheOkSnapshot, PersistBegins,
                  PersistEnds, PersistFails, CacheTypeOK, Refresh
    <2> QED BY <1>4, <2>1, GoesOnTracked DEF NoDirects
  <1>5. ASSUME NEW r \in Refreshes, Settles(r)
        PROVE  NoDirects'
    BY <1>5 DEF Settles, Unstarted, NoDirects, CacheTypeOK, cacheHistory
  <1>6. ASSUME UNCHANGED <<refresh, directs>>
        PROVE  NoDirects'
    BY <1>6 DEF NoDirects
  <1>7. ASSUME NEW q \in Readers, FileRead(q)
        PROVE  NoDirects'
    BY <1>6, <1>7 DEF FileRead, cacheHistory
  <1>8. CASE InvalidateUsageCache \/ TtlPasses \/ UsageGrows \/ UNCHANGED cacheVars
    BY <1>6, <1>8 DEF InvalidateUsageCache, TtlPasses, UsageGrows, cacheVars, cacheHistory
  <1> QED BY <1>2, <1>3, <1>4, <1>5, <1>7, <1>8 DEF CacheNext, GoesOn

\* A step after which no snapshot is fresh that was not, and no refresh has a new answer.
Quiet ==
    /\ newest' = newest /\ usage' \in {usage, usage + 1}
    /\ invalidations' = 0 /\ directs' = 0 => invalidations = 0 /\ directs = 0
    /\ \A r \in Refreshes : refresh'[r].state = "answered" => refresh'[r] = refresh[r]
    /\ fresh' => fresh /\ cached' = cached

LEMMA QuietKeeps ==
  ASSUME NInv, Quiet
  PROVE  AnswersAreNew' /\ FreshIsNewest'
  <1>1. usage \in Nat /\ newest \in Nat BY DEF NInv, LInv, CacheTypeOK, Snapshots
  <1>2. \A r \in Refreshes : refresh[r].result \in Nat
    BY DEF NInv, LInv, CacheTypeOK, Refresh, Snapshots
  <1>3. AnswersAreNew' BY <1>1, <1>2 DEF Quiet, NInv, AnswersAreNew
  <1>4. FreshIsNewest' BY DEF Quiet, NInv, FreshIsNewest
  <1> QED BY <1>3, <1>4

LEMMA QuietSteps ==
  ASSUME LInv, [CacheNext]_cacheVars,
         \A r \in Refreshes : ~SourceAnswers(r) /\ ~CacheOkSnapshot(r)
  PROVE  Quiet
  <1> DEFINE NoNewAnswer ==
        \A r \in Refreshes : refresh'[r].state = "answered" => refresh'[r] = refresh[r]
  <1>1. Starts => NoNewAnswer BY DEF Starts, Begin, Started, LInv, CacheTypeOK
  <1>2. ASSUME NEW q \in Readers, NEW b \in BOOLEAN, Read(q, b)
        PROVE  Quiet
    BY <1>1, <1>2, ReadStarts DEF Read, Quiet
  <1>3. ASSUME NEW q \in Readers, FileRead(q)
        PROVE  Quiet
    BY <1>3 DEF FileRead, Quiet, cacheHistory
  <1>4. ASSUME NEW q \in Readers, Resume(q)
        PROVE  Quiet
    BY <1>1, <1>4, ResumeStarts DEF Resume, Quiet
  <1>5. ASSUME NEW r \in Refreshes, DirectRead(r)
        PROVE  Quiet
    <2>1. NoNewAnswer BY <1>5 DEF DirectRead, Started, LInv, CacheTypeOK
    <2>2. directs' # 0 BY <1>5 DEF DirectRead, LInv, CacheTypeOK
    <2> QED BY <1>5, <2>1, <2>2 DEF DirectRead, Quiet
  <1>6. ASSUME NEW r \in Refreshes,
               SourcesFail(r) \/ PersistBegins(r) \/ PersistEnds(r) \/ PersistFails(r)
        PROVE  Quiet
    <2>1. NoNewAnswer
      BY <1>6 DEF SourcesFail, PersistBegins, PersistEnds, PersistFails, LInv, CacheTypeOK, Refresh
    <2> QED
      BY <1>6, <2>1 DEF SourcesFail, PersistBegins, PersistEnds, PersistFails, Quiet, cacheHistory
  <1>7. ASSUME NEW r \in Refreshes, Settles(r)
        PROVE  Quiet
    <2>1. NoNewAnswer BY <1>7 DEF Settles, Unstarted, LInv, CacheTypeOK
    <2> QED BY <1>7, <2>1 DEF Settles, Quiet, cacheHistory
  <1>8. CASE InvalidateUsageCache
    <2>1. invalidations' # 0 BY <1>8 DEF InvalidateUsageCache, LInv, CacheTypeOK
    <2> QED BY <1>8, <2>1 DEF InvalidateUsageCache, Quiet
  <1>9. CASE TtlPasses \/ UsageGrows \/ UNCHANGED cacheVars
    BY <1>9 DEF TtlPasses, UsageGrows, Quiet, cacheVars, cacheHistory
  <1> QED BY <1>2, <1>3, <1>4, <1>5, <1>6, <1>7, <1>8, <1>9 DEF CacheNext

LEMMA SourceAnswersKeeps ==
  ASSUME NInv, NEW r \in Refreshes, SourceAnswers(r)
  PROVE  AnswersAreNew' /\ FreshIsNewest'
  <1>1. /\ refresh'[r].result = usage
        /\ \A t \in Refreshes : t # r => refresh'[t] = refresh[t]
        /\ UNCHANGED <<usage, cached, fresh, newest, invalidations, directs>>
    BY DEF SourceAnswers, NInv, LInv, CacheTypeOK, Refresh, cacheHistory
  <1>2. usage \in Nat /\ newest \in Nat BY DEF NInv, LInv, CacheTypeOK, Snapshots
  <1>3. AnswersAreNew' BY <1>1, <1>2 DEF NInv, AnswersAreNew
  <1> QED BY <1>1, <1>3 DEF NInv, FreshIsNewest

\* The refresh whose answer is cached is the only one that has an answer.
LEMMA CacheOkKeeps ==
  ASSUME NInv, NEW r \in Refreshes, CacheOkSnapshot(r)
  PROVE  AnswersAreNew' /\ FreshIsNewest'
  <1>1. /\ refresh[r].state = "answered" /\ cached' = refresh[r].result
        /\ newest' = IF cached' > newest THEN cached' ELSE newest
        /\ UNCHANGED <<usage, invalidations, directs>>
    BY DEF CacheOkSnapshot
  <1>2. /\ refresh'[r].state = "stored"
        /\ \A t \in Refreshes : t # r => refresh'[t] = refresh[t]
    BY DEF CacheOkSnapshot, NInv, LInv, CacheTypeOK, Refresh
  <1>3. usage \in Nat /\ newest \in Nat BY DEF NInv, LInv, CacheTypeOK, Snapshots
  <1>4. \A t \in Refreshes : refresh[t].result \in Nat
    BY DEF NInv, LInv, CacheTypeOK, Refresh, Snapshots
  <1>5. newest' <= usage BY <1>1, <1>3, <1>4 DEF NInv, AnswersAreNew
  <1>6. ASSUME invalidations = 0, directs = 0, NEW t \in Refreshes, refresh[t].state = "answered"
        PROVE  t = r
    <2>1. t \in Tracked /\ r \in Tracked
      BY <1>1, <1>6 DEF NInv, NoDirects, Tracked, Running
    <2> QED BY <1>6, <2>1, NoneForgotten DEF NInv
  <1>7. AnswersAreNew' BY <1>1, <1>2, <1>5, <1>6 DEF NInv, AnswersAreNew
  <1>8. FreshIsNewest' BY <1>1, <1>3, <1>4 DEF NInv, AnswersAreNew, FreshIsNewest
  <1> QED BY <1>7, <1>8

\* Unless an invalidation or a direct read lets two answers overtake each other,
\* a snapshot that is served without a refresh is the newest there has been.
THEOREM FreshSnapshotIsNewest == CacheSpec => []FreshIsNewest
  <1>1. ASSUME CacheInit
        PROVE  NInv
    <2>1. NoDirects /\ AnswersAreNew /\ FreshIsNewest
      BY <1>1 DEF CacheInit, NoDirects, AnswersAreNew, FreshIsNewest, Unstarted
    <2> QED BY <1>1, <2>1, LInvInit DEF NInv
  <1>2. ASSUME NInv, [CacheNext]_cacheVars
        PROVE  NInv'
    <2>1. LInv' BY <1>2, LInvNext DEF NInv
    <2>2. NoDirects' BY <1>2, NoDirectsNext DEF NInv, LInv
    <2>3. AnswersAreNew' /\ FreshIsNewest'
      BY <1>2, QuietSteps, QuietKeeps, SourceAnswersKeeps, CacheOkKeeps DEF NInv
    <2> QED BY <2>1, <2>2, <2>3 DEF NInv
  <1>3. NInv => FreshIsNewest BY DEF NInv
  <1> QED BY <1>1, <1>2, <1>3, PTL DEF CacheSpec

-----------------------------------------------------------------------------
(* UsageCli.                                                               *)

Shows == Startup \cup Rendered

\* The capture's record.
Capture ==
    [phase : {"waiting", "capturing"}, buffer : SUBSET Shows, usage : SUBSET Shows,
     sends : 0..2, grace : BOOLEAN, timers : SUBSET {"deadline", "ready", "retry", "settle"},
     intervals : 0..2, held : BOOLEAN, term : {"running", "exited", "killed", "gone"},
     done : BOOLEAN, by : {"none", "settle", "deadline", "exit", "write", "spawn"},
     result : SUBSET Shows]

\* The settle timer runs under a usage view, which is not what came before the
\* command was typed; every command that was typed holds an interval until the end.
SettlesOnView(c) ==
    /\ "settle" \in c.timers => c.usage \cap Stop # {} /\ c.phase = "capturing"
    /\ c.sends = 0 => c.usage \subseteq Startup
    /\ c.by = "settle" => c.done /\ c.result \cap Stop # {}

IntervalsHeld(c) ==
    /\ ~c.done => c.intervals = c.sends /\ (c.held <=> c.sends > 0)
    /\ c.done => c.intervals <= IF c.sends = 2 THEN 1 ELSE 0

CaptureInv(c) == c \in Capture /\ SettlesOnView(c) /\ IntervalsHeld(c)

UsageCliInv == CaptureInv(cli) /\ stage \in {"cli", "credentials", "fetch", "over"}

\* finish() keeps the invariant, whatever is said to have ended the capture,
\* provided that a capture that settled has a view.
LEMMA FinishKeeps ==
    ASSUME NEW c, CaptureInv(c), NEW by \in {"settle", "deadline", "exit", "write", "spawn"},
           NEW result \in SUBSET Shows, by = "settle" => result \cap Stop # {} \/ c.done
    PROVE  CaptureInv(Finish(c, by, result))
<1>1. CASE c.done BY <1>1 DEF Finish
<1>2. CASE ~c.done
  <2> DEFINE f == Finish(c, by, result)
  <2>1. c \in Capture BY DEF CaptureInv
  <2>2. f = [c EXCEPT !.done = TRUE, !.by = by, !.result = result, !.timers = @ \cap {"ready"},
                   !.intervals = IF c.held THEN @ - 1 ELSE @,
                   !.term = IF @ = "running" THEN "killed" ELSE @]
    BY <1>2 DEF Finish
  <2>3. c.sends \in 0..2 /\ c.intervals = c.sends /\ (c.held <=> c.sends > 0)
    BY <1>2, <2>1 DEF CaptureInv, IntervalsHeld, Capture
  <2>4. (IF c.held THEN c.intervals - 1 ELSE c.intervals) \in 0..2
    BY <2>1, <2>3 DEF Capture
  <2>5. f \in Capture
    <3> DEFINE ts == c.timers \cap {"ready"}
               is == IF c.held THEN c.intervals - 1 ELSE c.intervals
               tm == IF c.term = "running" THEN "killed" ELSE c.term
    <3>1. /\ ts \in SUBSET {"deadline", "ready", "retry", "settle"}
          /\ is \in 0..2
          /\ tm \in {"running", "exited", "killed", "gone"}
      BY <2>1, <2>4 DEF Capture
    <3>2. f = [c EXCEPT !.done = TRUE, !.by = by, !.result = result, !.timers = ts,
                        !.intervals = is, !.term = tm]
      BY <2>2
    <3> HIDE DEF ts, is, tm
    <3> QED BY <2>1, <3>1, <3>2 DEF Capture
  <2>6. SettlesOnView(f)
    BY <1>2, <2>1, <2>2 DEF CaptureInv, SettlesOnView, Capture
  <2>7. IntervalsHeld(f)
    <3>1. f.done = TRUE /\ f.sends = c.sends
          /\ f.intervals = IF c.held THEN c.intervals - 1 ELSE c.intervals
      BY <2>1, <2>2 DEF Capture
    <3> QED BY <2>3, <3>1 DEF IntervalsHeld
  <2> QED BY <2>5, <2>6, <2>7 DEF CaptureInv
<1> QED BY <1>1, <1>2

\* A timer that is spent takes nothing else away.
LEMMA FiredKeeps ==
    ASSUME UsageCliInv, NEW t
    PROVE  /\ CaptureInv(Fired(t))
           /\ Fired(t).usage = cli.usage /\ Fired(t).buffer = cli.buffer
           /\ Fired(t).done = cli.done /\ Fired(t).sends = cli.sends
           /\ Fired(t).timers = cli.timers \ {t}
BY DEF UsageCliInv, CaptureInv, Capture, SettlesOnView, IntervalsHeld, Fired

\* Typing the command keeps the invariant when there is no view to throw away.
LEMMA SendKeeps ==
    ASSUME NEW c, CaptureInv(c), ~c.done, c.sends < 2, c.usage \cap Stop = {},
           NEW d \in SendUsageCommand(c)
    PROVE  CaptureInv(d)
<1> DEFINE sent == [c EXCEPT !.usage = {}, !.grace = FALSE, !.sends = @ + 1]
<1> DEFINE ts == c.timers \cup {"retry"}
           us == c.timers \cap {"ready"}
<1>1. c \in Capture /\ c.sends \in 0..1 /\ "settle" \notin c.timers
  BY DEF CaptureInv, Capture, SettlesOnView
<1>11. /\ ts \in SUBSET {"deadline", "ready", "retry", "settle"} /\ "settle" \notin ts
       /\ us \in SUBSET {"deadline", "ready", "retry", "settle"} /\ "settle" \notin us
  BY <1>1 DEF Capture
<1>2. c.intervals = c.sends /\ (c.held <=> c.sends > 0) BY DEF CaptureInv, IntervalsHeld
<1>3. CASE d = [sent EXCEPT !.intervals = @ + 1, !.held = TRUE, !.timers = @ \cup {"retry"}]
  <2> DEFINE n == c.sends + 1
             is == c.intervals + 1
  <2>1. n \in 1..2 /\ n \in 0..2 /\ is \in 0..2 /\ is = n BY <1>1, <1>2
  <2>2. d = [c EXCEPT !.usage = {}, !.grace = FALSE, !.sends = n,
                      !.intervals = is, !.held = TRUE, !.timers = ts]
    BY <1>1, <1>3 DEF Capture
  <2> HIDE DEF ts, n, is
  <2>3. d \in Capture BY <1>1, <1>11, <2>1, <2>2 DEF Capture
  <2>4. SettlesOnView(d)
    BY <1>1, <1>11, <2>1, <2>2 DEF CaptureInv, Capture, SettlesOnView
  <2>5. IntervalsHeld(d)
    BY <1>1, <1>2, <2>1, <2>2 DEF Capture, IntervalsHeld
  <2> QED BY <2>3, <2>4, <2>5 DEF CaptureInv
<1>4. CASE d = Finish(sent, "write", {})
  <2> DEFINE tm == IF c.term = "running" THEN "killed" ELSE c.term
             is == IF c.held THEN c.intervals - 1 ELSE c.intervals
             n == c.sends + 1
  <2>1. d = [c EXCEPT !.usage = {}, !.grace = FALSE, !.sends = n,
                      !.done = TRUE, !.by = "write", !.result = {}, !.timers = us,
                      !.intervals = is, !.term = tm]
    BY <1>1, <1>4 DEF Finish, Capture
  <2>2. c.held \in BOOLEAN /\ tm \in {"running", "exited", "killed", "gone"}
    BY <1>1 DEF Capture
  <2>5. n \in 1..2 /\ n \in 0..2 BY <1>1
  <2>6. is = 0 /\ is \in 0..2 /\ {} \in SUBSET Shows
    <3>1. CASE c.held = TRUE BY <1>1, <1>2, <3>1
    <3>2. CASE c.held = FALSE BY <1>1, <1>2, <3>2
    <3> QED BY <2>2, <3>1, <3>2
  <2> HIDE DEF tm, us, is, n, ts, sent
  <2>7. d \in Capture BY <1>1, <1>11, <2>1, <2>2, <2>5, <2>6 DEF Capture
  <2>8. SettlesOnView(d)
    BY <1>1, <1>11, <2>1, <2>5 DEF CaptureInv, Capture, SettlesOnView
  <2>9. IntervalsHeld(d)
    BY <1>1, <2>1, <2>5, <2>6 DEF Capture, IntervalsHeld
  <2> QED BY <2>7, <2>8, <2>9 DEF CaptureInv

<1> QED BY <1>3, <1>4 DEF SendUsageCommand

\* A chunk arms the settle timer only under a view, and adds to what was shown.
LEMMA OutputKeeps == ASSUME UsageCliInv, CliOutput PROVE UsageCliInv'
<1>1. PICK shown \in (IF cli.sends = 0 THEN Startup ELSE Rendered) : Data(shown)
  BY DEF CliOutput
<1> DEFINE buffer == cli.buffer \cup {shown}
           typed == IF cli.phase = "capturing" THEN cli.usage \cup {shown} ELSE cli.usage
           read == [cli EXCEPT !.buffer = buffer, !.usage = typed]
<1>2. CaptureInv(cli) /\ cli \in Capture BY DEF UsageCliInv, CaptureInv
<1>3. typed \in SUBSET Shows /\ buffer \in SUBSET Shows /\ cli.usage \subseteq typed
  BY <1>1, <1>2 DEF Capture, Shows
<1>4. cli.sends = 0 => typed \subseteq Startup
  BY <1>1, <1>2 DEF CaptureInv, SettlesOnView
<1>5. CaptureInv(read) /\ read \in Capture /\ read.sends = cli.sends /\ read.usage = typed
      /\ read.timers = cli.timers
  <2> HIDE DEF typed, buffer
  <2> QED BY <1>2, <1>3, <1>4 DEF CaptureInv, Capture, SettlesOnView, IntervalsHeld
<1>6. \/ cli' = read
      \/ cli' = [read EXCEPT !.phase = "capturing", !.usage = {}, !.timers = @ \cup {"ready"}]
         /\ cli.phase = "waiting"
      \/ /\ cli' = [read EXCEPT !.timers = @ \cup {"settle"}]
         /\ typed \cap Stop # {} /\ cli.phase = "capturing"
  BY <1>1, <1>2 DEF Data, Capture
<1>7. CASE cli' = read BY <1>1, <1>5, <1>7 DEF Data, UsageCliInv
<1>8. CASE /\ cli' = [read EXCEPT !.timers = @ \cup {"settle"}]
           /\ typed \cap Stop # {} /\ cli.phase = "capturing"
  <2> DEFINE ts == read.timers \cup {"settle"}
  <2>1. ts \in SUBSET {"deadline", "ready", "retry", "settle"} BY <1>5 DEF Capture
  <2>2. read.phase = "capturing" BY <1>2, <1>8 DEF Capture
  <2>3. cli' = [read EXCEPT !.timers = ts] BY <1>8
  <2> HIDE DEF typed, read, buffer, ts
  <2>4. cli' \in Capture BY <1>5, <2>1, <2>3 DEF Capture
  <2>5. SettlesOnView(cli') /\ IntervalsHeld(cli')
    BY <1>5, <1>8, <2>2, <2>3 DEF CaptureInv, Capture, SettlesOnView, IntervalsHeld
  <2> QED BY <1>1, <2>4, <2>5 DEF Data, UsageCliInv, CaptureInv
<1>9. CASE /\ cli' = [read EXCEPT !.phase = "capturing", !.usage = {}, !.timers = @ \cup {"ready"}]
           /\ cli.phase = "waiting"
  <2>1. "settle" \notin read.timers
            /\ read.timers \subseteq {"deadline", "ready", "retry", "settle"}
    BY <1>2, <1>5, <1>9 DEF CaptureInv, SettlesOnView, Capture
  <2> HIDE DEF typed, read, buffer
  <2>2. CaptureInv(cli')
    BY <1>5, <1>9, <2>1 DEF CaptureInv, Capture, SettlesOnView, IntervalsHeld
  <2> QED BY <1>1, <2>2 DEF Data, UsageCliInv
<1> QED BY <1>6, <1>7, <1>8, <1>9

\* A timer of the capture, or its end.
LEMMA TimersKeep ==
    ASSUME UsageCliInv, ReadyTimer \/ RetryTimer \/ SettleTimer \/ Deadline
    PROVE  UsageCliInv'
<1>1. CaptureInv(cli) /\ cli \in Capture BY DEF UsageCliInv, CaptureInv
<1>2. \A t : /\ CaptureInv(Fired(t))
             /\ Fired(t).usage = cli.usage /\ Fired(t).buffer = cli.buffer
             /\ Fired(t).done = cli.done /\ Fired(t).sends = cli.sends
             /\ Fired(t).timers = cli.timers \ {t}
  BY FiredKeeps
<1>3. UNCHANGED stage /\ stage \in {"cli", "credentials", "fetch", "over"}
  BY DEF ReadyTimer, RetryTimer, SettleTimer, Deadline, UsageCliInv
<1>4. CASE ReadyTimer
  <2>1. CASE ~cli.done /\ cli.sends = 0
    <3>1. Fired("ready").usage \cap Stop = {}
      BY <1>1, <1>2, <2>1 DEF CaptureInv, SettlesOnView, Startup, Stop
    <3>2. cli' \in SendUsageCommand(Fired("ready")) BY <1>4, <2>1 DEF ReadyTimer
    <3>3. ~Fired("ready").done /\ Fired("ready").sends < 2 BY <1>2, <2>1
    <3>4. \A d \in SendUsageCommand(Fired("ready")) : CaptureInv(d)
      BY <1>2, <3>1, <3>3, SendKeeps
    <3> QED BY <1>3, <3>2, <3>4 DEF UsageCliInv
  <2>2. CASE ~(~cli.done /\ cli.sends = 0)
    <3>1. cli' = Fired("ready") BY <1>4, <2>2 DEF ReadyTimer
    <3> QED BY <1>2, <1>3, <3>1 DEF UsageCliInv
  <2> QED BY <2>1, <2>2
<1>5. CASE RetryTimer
  <2>1. CASE ~cli.done /\ cli.sends < 2 /\ ~SawStopNeedle(cli.usage)
    <3>1. Fired("retry").usage \cap Stop = {} BY <1>2, <2>1 DEF SawStopNeedle
    <3>2. cli' \in SendUsageCommand(Fired("retry")) BY <1>5, <2>1 DEF RetryTimer
    <3>3. ~Fired("retry").done /\ Fired("retry").sends < 2 BY <1>2, <2>1
    <3>4. \A d \in SendUsageCommand(Fired("retry")) : CaptureInv(d)
      BY <1>2, <3>1, <3>3, SendKeeps
    <3> QED BY <1>3, <3>2, <3>4 DEF UsageCliInv
  <2>2. CASE ~(~cli.done /\ cli.sends < 2 /\ ~SawStopNeedle(cli.usage))
    <3>1. cli' = Fired("retry") BY <1>5, <2>2 DEF RetryTimer
    <3> QED BY <1>2, <1>3, <3>1 DEF UsageCliInv
  <2> QED BY <2>1, <2>2
<1>6. CASE SettleTimer
  <2>1. cli.usage \cap Stop # {} /\ cli.usage \in SUBSET Shows
    BY <1>1, <1>6 DEF SettleTimer, CaptureInv, SettlesOnView, Capture
  <2>2. CaptureInv(Finish(Fired("settle"), "settle", cli.usage))
    BY <1>2, <2>1, FinishKeeps
  <2> QED BY <1>3, <1>6, <2>2 DEF SettleTimer, UsageCliInv
<1>7. CASE Deadline
  <2>1. Latest(Fired("deadline")) \in SUBSET Shows
    BY <1>1, <1>2 DEF Latest, Capture
  <2>2. CaptureInv(Finish(Fired("deadline"), "deadline", Latest(Fired("deadline"))))
    BY <1>2, <2>1, FinishKeeps
  <2> QED BY <1>3, <1>7, <2>2 DEF Deadline, AtDeadline, UsageCliInv
<1> QED BY <1>4, <1>5, <1>6, <1>7

\* Only the terminal changes: every other field counts on.
LEMMA TermKeeps ==
    ASSUME NEW c, CaptureInv(c), NEW tm \in {"running", "exited", "killed", "gone"}
    PROVE  CaptureInv([c EXCEPT !.term = tm])
BY DEF CaptureInv, Capture, SettlesOnView, IntervalsHeld

\* Every step keeps the invariant.
LEMMA UsageCliStep == ASSUME UsageCliInv, [UsageCliNext]_usageVars PROVE UsageCliInv'
<1>1. CaptureInv(cli) /\ cli \in Capture BY DEF UsageCliInv, CaptureInv
<1>2. CASE CliOutput BY <1>2, OutputKeeps
<1>3. CASE GracePasses
  BY <1>1, <1>3 DEF GracePasses, UsageCliInv, CaptureInv, Capture, SettlesOnView, IntervalsHeld
<1>4. CASE ReadyTimer \/ RetryTimer \/ SettleTimer \/ Deadline BY <1>4, TimersKeep
<1>5. CASE CliExits BY <1>1, <1>5, TermKeeps DEF CliExits, UsageCliInv
<1>6. CASE OnExit
  <2>1. Latest(cli) \in SUBSET Shows BY <1>1 DEF Latest, Capture
  <2>2. CaptureInv(Finish(cli, "exit", Latest(cli))) BY <1>1, <2>1, FinishKeeps
  <2> QED BY <1>6, <2>2, TermKeeps DEF OnExit, UsageCliInv
<1>7. CASE CannotSpawn
  <2>1. CaptureInv(Finish(cli, "spawn", {})) BY <1>1, FinishKeeps
  <2> QED BY <1>7, <2>1, TermKeeps DEF CannotSpawn, UsageCliInv
<1>8. CASE CliAnswered \/ CredentialsRead \/ ApiAnswered
  BY <1>8 DEF CliAnswered, CredentialsRead, ApiAnswered, UsageCliInv
<1>9. CASE UNCHANGED usageVars BY <1>9 DEF usageVars, UsageCliInv
<1> QED
  BY <1>2, <1>3, <1>4, <1>5, <1>6, <1>7, <1>8, <1>9 DEF UsageCliNext

\* claudeUsageCli.ts: a capture that settled shows a usage view, which no retry
\* has thrown away, and at most the one Enter interval that the retry lost goes
\* on when it is over, however timers, output and the exit of the CLI interleave.
THEOREM CaptureIsSound == UsageCliSpec => []CliSafe
<1>1. UsageCliInit => UsageCliInv
  BY DEF UsageCliInit, UsageCliInv, CaptureInv, Capture, SettlesOnView, IntervalsHeld, Stop
<1>2. UsageCliInv /\ [UsageCliNext]_usageVars => UsageCliInv' BY UsageCliStep
<1>3. UsageCliInv => CliSafe
  BY DEF UsageCliInv, CaptureInv, Capture, SettlesOnView, IntervalsHeld, CliSafe, UsageCliTypeOK,
         SettledShowsUsage, Shows
<1> QED BY <1>1, <1>2, <1>3, PTL DEF UsageCliSpec
=============================================================================
