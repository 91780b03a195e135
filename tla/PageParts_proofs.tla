-------------------------- MODULE PageParts_proofs --------------------------
(***************************************************************************)
(* Proofs about the parts of the page: UiState, CanvasPanels and           *)
(* TerminalStream.                                                         *)
(***************************************************************************)
EXTENDS UiState, CanvasPanels, TerminalStream, TLAPS

-----------------------------------------------------------------------------
(* UiState.                                                                *)

Patch == [payload : Snapshot, phase : {"sent", "ok", "error"}, orphan : BOOLEAN]

Hydration == [phase : {"reading", "ready"}, touched : BOOLEAN, read : Kept \cup {NotRead}]

UiTypes ==
    /\ stored \in Kept /\ existing \subseteq UiTerminals /\ columns \subseteq UiTerminals
    /\ hydration \in Hydration /\ ui \in Snapshot /\ baseline \in Snapshot \cup {NotRead}
    /\ saveTimer \in BOOLEAN /\ patches \in Seq(Patch) /\ doubt \in {"none", "view", "all"}

\* The API has what the snapshot s says of the terminals there are.
Saved(s) ==
    /\ stored.min = s.min \cap existing
    /\ s.open \subseteq stored.open
    /\ doubt = "none" => stored.nav = s.nav \/ (s.nav = Default /\ stored.nav = Unset)

\* A page that is being opened has nothing of its own to save.
Opening ==
    hydration.phase = "reading" =>
        /\ saveTimer = FALSE /\ ui = Defaults /\ columns = {}
        /\ \A s \in 1..Len(patches) : patches[s].orphan = TRUE

\* An untouched page shows, and has sent, the view it read.
Untouched ==
    (hydration.phase = "ready" /\ hydration.touched = FALSE) =>
        /\ baseline # NotRead => ui.nav = baseline.nav
        /\ \A s \in 1..Len(patches) : patches[s].orphan = FALSE => patches[s].payload.nav = ui.nav

\* As long as nothing has parted the copies: what was read, what was last
\* persisted, or the one PATCH that was served is what the API has, and without
\* a timer that is what the page shows.
OpeningCopies ==
    (hydration.phase = "reading" /\ doubt # "all") =>
        /\ patches = <<>>
        /\ hydration.read # NotRead => Saved(hydration.read)

RestingCopies ==
    (hydration.phase = "ready" /\ doubt # "all" /\ patches = <<>>) =>
        /\ Saved(baseline)
        /\ saveTimer = FALSE => ui = baseline

SavingCopies ==
    (hydration.phase = "ready" /\ doubt # "all" /\ patches # <<>>) =>
        /\ Len(patches) = 1 /\ patches[1].orphan = FALSE
        /\ patches[1].phase = "ok" => Saved(patches[1].payload)
        /\ saveTimer = FALSE => ui = patches[1].payload

HasBaseline == (hydration.phase = "ready" /\ doubt # "all") => baseline \in Snapshot

UiInv ==
    /\ UiTypes /\ MinimizedAreThere /\ ui.min \subseteq columns
    /\ Opening /\ Untouched /\ OpeningCopies /\ HasBaseline /\ RestingCopies /\ SavingCopies

\* A settled page agrees with the API.
LEMMA UiInvIsSafe == UiInv => UiSafe
<1> SUFFICES ASSUME UiInv PROVE UiSafe OBVIOUS
<1>1. UiTypeOK
  <2>1. UiTypes BY DEF UiInv
  <2>2. \A s \in DOMAIN patches : patches[s].payload \in Snapshot
    <3>1. DOMAIN patches = 1..Len(patches) /\ \A s \in 1..Len(patches) : patches[s] \in Patch
      BY <2>1 DEF UiTypes
    <3> QED BY <3>1 DEF Patch
  <2>3. hydration.phase \in {"reading", "ready"} BY <2>1 DEF UiTypes, Hydration
  <2> QED BY <2>1, <2>2, <2>3 DEF UiTypes, UiTypeOK
<1>2. SettledIsSaved
  BY DEF UiInv, UiTypes, SettledIsSaved, RestingCopies, Saved
<1>3. OpeningChangesNothing
  BY DEF UiInv, UiTypes, OpeningChangesNothing, Untouched, Hydration
<1> QED BY <1>1, <1>2, <1>3 DEF UiSafe, UiInv

\* References that are pruned on either side.
LEMMA PrunedType ==
    /\ \A s \in Kept, known \in SUBSET UiTerminals :
         /\ Pruned(s, known) \in Kept /\ Pruned(s, known).min = s.min \cap known
         /\ Pruned(s, known).nav = s.nav /\ Pruned(s, known).open = s.open
         /\ Filled(s) \in Snapshot /\ Filled(s).min = s.min /\ Filled(s).open = s.open
         /\ Filled(s).nav = s.nav \/ (s.nav = Unset /\ Filled(s).nav = Default)
    /\ \A s \in Snapshot, known \in SUBSET UiTerminals :
         /\ Retained(s, known) \in Snapshot
         /\ Retained(s, known).min = s.min \cap known
         /\ Retained(s, known).open \subseteq s.open /\ Retained(s, known).nav = s.nav
    /\ \A s \in Snapshot : s \in Kept
<1>1. ASSUME NEW s \in Kept, NEW known \in SUBSET UiTerminals
      PROVE  /\ Pruned(s, known) \in Kept /\ Pruned(s, known).min = s.min \cap known
             /\ Pruned(s, known).nav = s.nav /\ Pruned(s, known).open = s.open
  <2> DEFINE m == s.min \cap known
  <2>1. m \in SUBSET UiTerminals OBVIOUS
  <2>2. Pruned(s, known) = [s EXCEPT !.min = m] BY DEF Pruned
  <2> HIDE DEF m
  <2>3. Pruned(s, known) \in Kept /\ Pruned(s, known).min = m
        /\ Pruned(s, known).nav = s.nav /\ Pruned(s, known).open = s.open
    BY <2>1, <2>2 DEF Kept
  <2> QED BY <2>3 DEF m
<1>2. ASSUME NEW s \in Kept
      PROVE  /\ Filled(s) \in Snapshot /\ Filled(s).min = s.min /\ Filled(s).open = s.open
             /\ Filled(s).nav = s.nav \/ (s.nav = Unset /\ Filled(s).nav = Default)
  <2> PICK n : n = OrDefault(s.nav) OBVIOUS
  <2>1. n \in Preferences /\ (n = s.nav \/ (s.nav = Unset /\ n = Default))
    BY UiAssumption DEF OrDefault, Kept
  <2>2. Filled(s) = [s EXCEPT !.nav = n] BY DEF Filled
  <2> QED BY <2>1, <2>2 DEF Kept, Snapshot
<1>3. ASSUME NEW s \in Snapshot, NEW known \in SUBSET UiTerminals
      PROVE  /\ Retained(s, known) \in Snapshot
             /\ Retained(s, known).min = s.min \cap known
             /\ Retained(s, known).open \subseteq s.open /\ Retained(s, known).nav = s.nav
  <2> DEFINE m == s.min \cap known
             o == s.open \cap known
  <2>1. m \in SUBSET UiTerminals /\ o \in SUBSET PanelsOf(UiTerminals) /\ o \subseteq s.open
    BY DEF Snapshot
  <2>2. Retained(s, known) = [s EXCEPT !.min = m, !.open = o] BY DEF Retained
  <2> HIDE DEF m, o
  <2>3. Retained(s, known) \in Snapshot /\ Retained(s, known).min = m
        /\ Retained(s, known).nav = s.nav /\ Retained(s, known).open = o
    BY <2>1, <2>2 DEF Snapshot
  <2> QED BY <2>1, <2>3 DEF m
<1>4. \A s \in Snapshot : s \in Kept BY DEF Kept, Snapshot
<1> QED BY <1>1, <1>2, <1>3, <1>4

\* The elements of two sequences that are joined.
Joined(r, a, b) == r = a \o b
LEMMA JoinedElements ==
    ASSUME NEW S, NEW a \in Seq(S), NEW b \in Seq(S), NEW r, Joined(r, a, b)
    PROVE  /\ r \in Seq(S) /\ Len(r) = Len(a) + Len(b)
           /\ \A j \in 1..Len(a) : r[j] = a[j]
           /\ \A j \in 1..Len(b) : r[Len(a) + j] = b[j]
<1> USE DEF Joined
<1>1. r \in Seq(S) OBVIOUS
<1>2. Len(r) = Len(a) + Len(b) OBVIOUS
<1>3. \A j \in 1..Len(a) : r[j] = a[j] OBVIOUS
<1>4. \A j \in 1..Len(b) : r[Len(a) + j] = b[j] OBVIOUS
<1> QED BY <1>1, <1>2, <1>3, <1>4

\* A PATCH that is answered leaves the queue.
LEMMA RemovedAt ==
    ASSUME NEW S, NEW q \in Seq(S), NEW s \in 1..Len(q), NEW r, r = UiSeqs!RemoveAt(q, s)
    PROVE  /\ r \in Seq(S) /\ Len(r) = Len(q) - 1
           /\ \A j \in 1..Len(r) : \E i \in 1..Len(q) : r[j] = q[i]
<1>1. s \in Nat /\ s >= 1 /\ s <= Len(q) /\ Len(q) \in Nat OBVIOUS
<1>2. PICK a, b \in Seq(S) :
        /\ Joined(r, a, b)
        /\ Len(a) = s - 1 /\ \A j \in 1..(s - 1) : a[j] = q[j]
        /\ Len(b) = Len(q) - s /\ \A j \in 1..(Len(q) - s) : b[j] = q[s + j]
  <2> DEFINE a == SubSeq(q, 1, s - 1)
             b == SubSeq(q, s + 1, Len(q))
  <2>1. a \in Seq(S) /\ Len(a) = s - 1 /\ \A j \in 1..(s - 1) : a[j] = q[j] BY <1>1
  <2>2. b \in Seq(S) /\ Len(b) = Len(q) - s /\ \A j \in 1..(Len(q) - s) : b[j] = q[s + j]
    BY <1>1
  <2>3. Joined(r, a, b) BY DEF Joined, UiSeqs!RemoveAt
  <2> HIDE DEF a, b
  <2> QED BY <2>1, <2>2, <2>3
<1>3. /\ r \in Seq(S) /\ Len(r) = Len(a) + Len(b)
      /\ \A j \in 1..Len(a) : r[j] = a[j]
      /\ \A j \in 1..Len(b) : r[Len(a) + j] = b[j]
  BY <1>2, JoinedElements
<1>4. Len(r) = Len(q) - 1 BY <1>1, <1>2, <1>3
<1>5. ASSUME NEW j \in 1..Len(r) PROVE \E i \in 1..Len(q) : r[j] = q[i]
  <2>1. j \in Nat /\ j >= 1 /\ j <= Len(q) - 1 BY <1>1, <1>4
  <2>2. CASE j <= s - 1
    <3>1. j \in 1..(s - 1) /\ j \in 1..Len(q) BY <1>1, <2>1, <2>2
    <3> QED BY <1>2, <1>3, <3>1
  <2>3. CASE j > s - 1
    <3> PICK k : k = j - (s - 1) OBVIOUS
    <3>1. k \in 1..(Len(q) - s) /\ (s - 1) + k = j /\ s + k \in 1..Len(q)
      BY <1>1, <2>1, <2>3
    <3>2. r[j] = b[k] /\ b[k] = q[s + k] BY <1>2, <1>3, <3>1
    <3> QED BY <3>1, <3>2
  <2> QED BY <1>1, <2>1, <2>2, <2>3
<1> QED BY <1>3, <1>4, <1>5

\* The types of the parts, told apart.
LEMMA UiParts ==
    ASSUME UiTypes
    PROVE  /\ stored \in Kept /\ existing \in SUBSET UiTerminals /\ columns \in SUBSET UiTerminals
           /\ hydration \in Hydration /\ hydration.phase \in {"reading", "ready"}
           /\ hydration.touched \in BOOLEAN /\ hydration.read \in Kept \cup {NotRead}
           /\ ui \in Snapshot /\ ui.min \in SUBSET UiTerminals
           /\ saveTimer \in BOOLEAN /\ patches \in Seq(Patch) /\ Len(patches) \in Nat
           /\ \A s \in 1..Len(patches) : /\ patches[s] \in Patch /\ patches[s].payload \in Snapshot
                                         /\ patches[s].orphan \in BOOLEAN
           /\ patches # <<>> => Len(patches) >= 1
           /\ doubt \in {"none", "view", "all"}
<1>1. \A s \in 1..Len(patches) : patches[s] \in Patch BY DEF UiTypes
<1>2. hydration \in Hydration /\ ui \in Snapshot /\ patches \in Seq(Patch) BY DEF UiTypes
<1>3. Len(patches) \in Nat /\ (patches # <<>> => Len(patches) >= 1) BY <1>2
<1>4. /\ hydration.phase \in {"reading", "ready"} /\ hydration.touched \in BOOLEAN
      /\ hydration.read \in Kept \cup {NotRead} /\ ui.min \in SUBSET UiTerminals
  BY <1>2 DEF Hydration, Snapshot
<1> QED BY <1>1, <1>2, <1>3, <1>4 DEF UiTypes, Patch

\* The page reads what the API has.
LEMMA ReadKeeps == ASSUME UiInv, ServeSnapshot PROVE UiInv'
<1> PICK s : s = Pruned(stored, existing) OBVIOUS
<1>1. UiTypes BY DEF UiInv
<1>2. s \in Kept /\ s.min = stored.min \cap existing /\ s.nav = stored.nav /\ s.open = stored.open
  BY <1>1, UiParts, PrunedType
<1>3. /\ hydration.phase = "reading" /\ hydration' = [hydration EXCEPT !.read = s]
      /\ UNCHANGED <<stored, existing, columns, ui, baseline, saveTimer, patches, doubt>>
  BY DEF ServeSnapshot, ReadSnapshot
<1>4. /\ hydration' \in Hydration /\ hydration'.phase = "reading" /\ hydration'.read = s
      /\ hydration'.touched = hydration.touched
  BY <1>1, <1>2, <1>3, UiParts DEF Hydration
<1>5. Saved(s)' BY <1>2, <1>3 DEF Saved, UiInv, MinimizedAreThere
<1>6. UiTypes' BY <1>1, <1>3, <1>4 DEF UiTypes
<1>7. MinimizedAreThere' /\ (ui.min \subseteq columns)' BY <1>3 DEF UiInv, MinimizedAreThere
<1>8. Opening' BY <1>3 DEF UiInv, Opening
<1>9. Untouched' /\ HasBaseline' /\ RestingCopies' /\ SavingCopies'
  BY <1>4 DEF Untouched, HasBaseline, RestingCopies, SavingCopies
<1>10. OpeningCopies' BY <1>3, <1>4, <1>5 DEF UiInv, OpeningCopies, Saved
<1> QED BY <1>6, <1>7, <1>8, <1>9, <1>10 DEF UiInv

\* The page is hydrated: with what it read, with the defaults, or not at all.
LEMMA HydrationKeeps ==
    ASSUME UiInv, HydrateUi(existing) \/ HydrateWithout(existing) \/ HydrateFails PROVE UiInv'
<1>1. UiTypes BY DEF UiInv
<1>2. /\ hydration.phase = "reading"
      /\ hydration' = [hydration EXCEPT !.phase = "ready", !.read = NotRead]
      /\ UNCHANGED <<stored, existing, patches>>
  BY DEF HydrateUi, HydrateWithout, HydrateFails
<1>3. hydration' \in Hydration /\ hydration'.phase = "ready"
  BY <1>1, <1>2, UiParts DEF Hydration
<1>4. Defaults \in Snapshot /\ Defaults.min = {} BY UiAssumption DEF Defaults, Snapshot
<1>5. ui = Defaults /\ (\A s \in 1..Len(patches) : patches[s].orphan = TRUE)
  BY <1>2 DEF UiInv, Opening
<1>6. MinimizedAreThere' BY <1>2 DEF UiInv, MinimizedAreThere
<1>7. Opening' /\ OpeningCopies' BY <1>3 DEF Opening, OpeningCopies
<1>8. CASE HydrateUi(existing)
  <2> PICK f : f = Filled(hydration.read) OBVIOUS
  <2> PICK r : r = Retained(f, existing) OBVIOUS
  <2>1. /\ hydration.read # NotRead /\ columns' = existing /\ baseline' = r /\ ui' = r /\ SaveEffect
    BY <1>8 DEF HydrateUi
  <2>2. /\ f \in Snapshot /\ f.min = hydration.read.min /\ f.open = hydration.read.open
        /\ f.nav = hydration.read.nav \/ (hydration.read.nav = Unset /\ f.nav = Default)
    BY <1>1, <2>1, UiParts, PrunedType
  <2>3. r \in Snapshot /\ r.min = f.min \cap existing /\ r.open \subseteq f.open /\ r.nav = f.nav
    BY <1>1, <2>2, UiParts, PrunedType
  <2>4. /\ saveTimer' = FALSE
        /\ doubt' \in {"all", doubt}
    <3>1. hydration'.phase # hydration.phase /\ baseline' = ui' BY <1>2, <1>3, <2>1
    <3> QED BY <2>1, <3>1 DEF SaveEffect
  <2>5. UiTypes' /\ (ui.min \subseteq columns)'
    BY <1>1, <1>2, <1>3, <2>1, <2>3, <2>4 DEF UiTypes
  <2>6. Untouched' BY <1>2, <1>5, <2>1 DEF Untouched
  <2>7. HasBaseline' BY <2>1, <2>3 DEF HasBaseline
  <2>8. ASSUME doubt' # "all"
        PROVE  patches = <<>> /\ Saved(r)'
    <3>1. doubt' = doubt /\ patches = <<>> /\ Saved(hydration.read)
      BY <1>2, <2>1, <2>4, <2>8 DEF UiInv, OpeningCopies
    <3> QED BY <1>2, <2>2, <2>3, <3>1 DEF Saved
  <2>9. RestingCopies' /\ SavingCopies'
    BY <1>2, <2>1, <2>4, <2>8 DEF RestingCopies, SavingCopies, Saved
  <2> QED BY <1>6, <1>7, <2>5, <2>6, <2>7, <2>9 DEF UiInv
<1>9. CASE HydrateWithout(existing) \/ HydrateFails
  <2>1. /\ doubt' = "all" /\ ui' = Defaults /\ saveTimer' \in BOOLEAN
        /\ columns' \in {{}, existing} /\ baseline' \in {Defaults, NotRead}
    BY <1>5, <1>9 DEF HydrateWithout, HydrateFails
  <2>2. UiTypes' /\ (ui.min \subseteq columns)'
    BY <1>1, <1>2, <1>3, <1>4, <2>1 DEF UiTypes
  <2>3. Untouched' BY <1>2, <1>5, <2>1 DEF Untouched
  <2>4. HasBaseline' /\ RestingCopies' /\ SavingCopies'
    BY <2>1 DEF HasBaseline, RestingCopies, SavingCopies
  <2> QED BY <1>6, <1>7, <2>2, <2>3, <2>4 DEF UiInv
<1> QED BY <1>8, <1>9

\* What the page shows changes, and the effect that saves has run.
LEMMA EditKeeps ==
    ASSUME UiInv, hydration.phase = "ready", ui' \in Snapshot, columns' \in SUBSET UiTerminals,
           ui'.min \subseteq columns', SaveEffect,
           UNCHANGED <<stored, existing, baseline, patches>>,
           hydration' \in Hydration, hydration'.phase = "ready",
           hydration'.touched = FALSE => hydration.touched = FALSE /\ ui'.nav = ui.nav
    PROVE  UiInv'
<1>1. UiTypes BY DEF UiInv
<1>2. /\ saveTimer' \in BOOLEAN /\ doubt' \in {doubt, "all"}
      /\ ui' = ui => saveTimer' = saveTimer
      /\ ui' # ui /\ saveTimer' = FALSE => baseline = ui'
      /\ ui' # ui /\ baseline = ui' /\ patches # <<>> => doubt' = "all"
  <2>1. CASE ui' = ui BY <1>1, <2>1 DEF SaveEffect, UiTypes
  <2>2. CASE ui' # ui
    <3>1. saveTimer' = (baseline # ui') BY <2>2 DEF SaveEffect
    <3>2. doubt' \in {doubt, "all"} BY DEF SaveEffect
    <3>3. baseline = ui' /\ patches # <<>> => doubt' = "all" BY <2>2 DEF SaveEffect
    <3> QED BY <2>2, <3>1, <3>2, <3>3
  <2> QED BY <2>1, <2>2
<1>3. UiTypes' BY <1>1, <1>2 DEF UiTypes
<1>4. MinimizedAreThere' BY DEF UiInv, MinimizedAreThere
<1>5. Opening' /\ OpeningCopies' BY DEF Opening, OpeningCopies
<1>6. Untouched' BY DEF UiInv, Untouched
<1>7. HasBaseline' BY <1>2 DEF UiInv, HasBaseline
<1>8. RestingCopies'
  BY <1>2 DEF UiInv, RestingCopies, Saved
<1>9. SavingCopies'
  BY <1>2 DEF UiInv, SavingCopies, Saved
<1> QED BY <1>3, <1>4, <1>5, <1>6, <1>7, <1>8, <1>9 DEF UiInv

LEMMA UserKeeps ==
    ASSUME UiInv, RefreshList \/ \E next \in Snapshot : Change(next) PROVE UiInv'
<1>1. UiTypes BY DEF UiInv
<1>2. CASE RefreshList
  <2> PICK r : r = Retained(ui, existing) OBVIOUS
  <2>1. r \in Snapshot /\ r.min = ui.min \cap existing /\ r.nav = ui.nav
    BY <1>1, UiParts, PrunedType
  <2>2. /\ hydration.phase = "ready" /\ columns' = existing /\ ui' = r /\ SaveEffect
        /\ UNCHANGED <<stored, existing, hydration, baseline, patches>>
    BY <1>2 DEF RefreshList
  <2>3. existing \in SUBSET UiTerminals /\ hydration \in Hydration BY <1>1, UiParts
  <2> QED BY <2>1, <2>2, <2>3, EditKeeps
<1>3. ASSUME NEW next \in Snapshot, Change(next) PROVE UiInv'
  <2>1. /\ hydration.phase = "ready" /\ next.min \subseteq columns /\ ui' = next
        /\ hydration' = [hydration EXCEPT !.touched = TRUE] /\ SaveEffect
        /\ UNCHANGED <<stored, existing, columns, baseline, patches>>
    BY <1>3 DEF Change
  <2>2. hydration' \in Hydration /\ hydration'.phase = "ready" /\ hydration'.touched = TRUE
    BY <1>1, <2>1, UiParts DEF Hydration
  <2>3. columns \in SUBSET UiTerminals BY <1>1, UiParts
  <2> QED BY <2>1, <2>2, <2>3, EditKeeps
<1> QED BY <1>2, <1>3

\* A PATCH is sent: it is the only one, or the copies may have parted.
LEMMA SendKeepsUi == ASSUME UiInv, SendPatch PROVE UiInv'
<1>1. UiTypes BY DEF UiInv
<1> PICK p : p = [payload |-> ui, phase |-> "sent", orphan |-> FALSE] OBVIOUS
<1>2. /\ saveTimer = TRUE /\ saveTimer' = FALSE /\ patches' = Append(patches, p)
      /\ doubt' = IF patches # <<>> THEN "all" ELSE doubt
      /\ UNCHANGED <<stored, existing, hydration, columns, ui, baseline>>
  BY <1>1 DEF SendPatch, UiTypes
<1>3. p \in Patch /\ p.payload = ui /\ p.phase = "sent" /\ p.orphan = FALSE
  BY <1>1, UiParts DEF Patch
<1>4. hydration.phase = "ready" BY <1>1, <1>2, UiParts DEF UiInv, Opening
<1>5. /\ patches' \in Seq(Patch) /\ Len(patches') = Len(patches) + 1 /\ patches' # <<>>
      /\ patches'[Len(patches) + 1] = p
      /\ \A s \in 1..Len(patches) : patches'[s] = patches[s]
  BY <1>1, <1>2, <1>3, UiParts
<1>6. UiTypes' BY <1>1, <1>2, <1>5 DEF UiTypes
<1>7. MinimizedAreThere' /\ (ui.min \subseteq columns)' BY <1>2 DEF UiInv, MinimizedAreThere
<1>8. Opening' /\ OpeningCopies' /\ RestingCopies'
  BY <1>2, <1>4, <1>5 DEF Opening, OpeningCopies, RestingCopies
<1>9. HasBaseline' BY <1>2 DEF UiInv, HasBaseline
<1>10. Untouched'
  <2>1. ASSUME NEW s \in 1..Len(patches') PROVE s \in 1..Len(patches) \/ patches'[s] = p
    BY <1>1, <1>5, UiParts
  <2> QED BY <1>2, <1>3, <1>5, <2>1 DEF UiInv, Untouched
<1>11. SavingCopies'
  <2> SUFFICES ASSUME doubt' # "all"
               PROVE  /\ Len(patches') = 1 /\ patches'[1] = p
    BY <1>2, <1>3 DEF SavingCopies
  <2>1. patches = <<>> BY <1>2
  <2>2. Len(patches) = 0 BY <2>1
  <2> QED BY <1>5, <2>2
<1> QED BY <1>6, <1>7, <1>8, <1>9, <1>10, <1>11 DEF UiInv

\* A PATCH is answered: the page takes its payload for what the API has.
LEMMA AnswerKeeps == ASSUME UiInv, NEW s \in 1..MaxPatches, PatchAnswered(s) PROVE UiInv'
<1>1. UiTypes BY DEF UiInv
<1>2. s \in 1..Len(patches) /\ patches[s].phase # "sent" BY <1>1, UiParts DEF PatchAnswered
<1> DEFINE good == patches[s].phase = "ok" /\ patches[s].orphan = FALSE
<1>3. /\ patches' = UiSeqs!RemoveAt(patches, s)
      /\ baseline' = (IF good THEN patches[s].payload ELSE baseline)
      /\ doubt' = (IF good THEN doubt ELSE "all")
      /\ UNCHANGED <<stored, existing, hydration, columns, ui, saveTimer>>
  <2>1. patches[s].orphan \in BOOLEAN BY <1>1, <1>2, UiParts
  <2> QED BY <2>1 DEF PatchAnswered
<1>4. /\ patches' \in Seq(Patch) /\ Len(patches') = Len(patches) - 1
      /\ \A j \in 1..Len(patches') : \E i \in 1..Len(patches) : patches'[j] = patches[i]
  <2>1. patches \in Seq(Patch) /\ patches' = UiSeqs!RemoveAt(patches, s)
    BY <1>1, <1>3, UiParts
  <2> QED BY <1>2, <2>1, RemovedAt
<1>5. patches[s] \in Patch /\ patches[s].payload \in Snapshot BY <1>1, <1>2, UiParts
<1>6. UiTypes' BY <1>1, <1>3, <1>4, <1>5 DEF UiTypes
<1>7. MinimizedAreThere' /\ (ui.min \subseteq columns)' BY <1>3 DEF UiInv, MinimizedAreThere
<1>8. Opening' BY <1>3, <1>4 DEF UiInv, Opening
<1>9. Untouched' BY <1>2, <1>3, <1>4 DEF UiInv, Untouched
<1>10. HasBaseline' BY <1>3, <1>5 DEF UiInv, HasBaseline
<1>11. OpeningCopies'
  <2>1. patches # <<>> BY <1>1, <1>2, UiParts
  <2> QED BY <1>3, <2>1 DEF UiInv, OpeningCopies
<1>12. ASSUME hydration.phase = "ready", doubt' # "all"
       PROVE  /\ patches' = <<>> /\ Saved(baseline')
              /\ saveTimer = FALSE => ui = baseline'
  <2>1. good /\ doubt' = doubt BY <1>3, <1>12
  <2>2. patches # <<>> BY <1>1, <1>2, UiParts
  <2>3. Len(patches) = 1 /\ s = 1
    <3>1. doubt # "all" BY <1>12, <2>1
    <3>2. Len(patches) = 1 BY <1>12, <2>2, <3>1 DEF UiInv, SavingCopies
    <3> QED BY <1>2, <3>2
  <2>4. patches' = <<>> BY <1>4, <2>3
  <2> QED BY <1>3, <1>12, <2>1, <2>2, <2>3, <2>4 DEF UiInv, SavingCopies
<1>13. RestingCopies' /\ SavingCopies'
  BY <1>3, <1>12 DEF RestingCopies, SavingCopies, Saved
<1> QED BY <1>6, <1>7, <1>8, <1>9, <1>10, <1>11, <1>13 DEF UiInv

\* The page is loaded anew: nothing of it is left but the requests under way.
LEMMA ReloadKeeps == ASSUME UiInv, ReloadPage PROVE UiInv'
<1>1. UiTypes BY DEF UiInv
<1>2. /\ hydration.phase = "ready" /\ hydration' = Reading /\ columns' = {} /\ ui' = Defaults
      /\ baseline' = NotRead /\ saveTimer' = FALSE
      /\ patches' = [s \in DOMAIN patches |-> [patches[s] EXCEPT !.orphan = TRUE]]
      /\ doubt' = IF patches = <<>> THEN "none" ELSE "all"
      /\ UNCHANGED <<stored, existing>>
  BY DEF ReloadPage
<1>3. Defaults \in Snapshot /\ Defaults.min = {} BY UiAssumption DEF Defaults, Snapshot
<1>4. /\ hydration' \in Hydration /\ hydration'.phase = "reading" /\ hydration'.read = NotRead
  BY <1>2 DEF Hydration, Reading
<1>5. /\ patches' \in Seq(Patch) /\ Len(patches') = Len(patches)
      /\ \A s \in 1..Len(patches') : patches'[s].orphan = TRUE
  <2>1. Len(patches) \in Nat /\ DOMAIN patches = 1..Len(patches) BY <1>1, UiParts
  <2>2. \A s \in 1..Len(patches) : /\ [patches[s] EXCEPT !.orphan = TRUE] \in Patch
                                   /\ [patches[s] EXCEPT !.orphan = TRUE].orphan = TRUE
    BY <1>1, UiParts DEF Patch
  <2>3. patches' = [s \in 1..Len(patches) |-> [patches[s] EXCEPT !.orphan = TRUE]]
    BY <1>2, <2>1
  <2>4. patches' \in [1..Len(patches) -> Patch] BY <2>2, <2>3
  <2>5. patches' \in Seq(Patch) /\ Len(patches') = Len(patches) BY <2>1, <2>3, <2>4
  <2> QED BY <2>2, <2>3, <2>5
<1>6. patches = <<>> => patches' = <<>>
  <2>1. patches = <<>> => Len(patches') = 0 BY <1>5
  <2> QED BY <1>5, <2>1
<1>7. UiTypes' BY <1>1, <1>2, <1>3, <1>4, <1>5 DEF UiTypes
<1>8. MinimizedAreThere' /\ (ui.min \subseteq columns)'
  BY <1>2, <1>3 DEF UiInv, MinimizedAreThere
<1>9. Opening' BY <1>2, <1>5 DEF Opening
<1>10. OpeningCopies' BY <1>2, <1>4, <1>6 DEF OpeningCopies
<1>11. Untouched' /\ HasBaseline' /\ RestingCopies' /\ SavingCopies'
  BY <1>4 DEF Untouched, HasBaseline, RestingCopies, SavingCopies
<1> QED BY <1>7, <1>8, <1>9, <1>10, <1>11 DEF UiInv

\* A PATCH reaches the API, or is refused or lost.
LEMMA ServeKeepsUi ==
    ASSUME UiInv, NEW s \in 1..MaxPatches, ServePatch(s) \/ PatchFails(s) PROVE UiInv'
<1>1. UiTypes BY DEF UiInv
<1>2. PICK phase \in {"ok", "error"} :
        /\ s \in 1..Len(patches) /\ patches[s].phase = "sent"
        /\ patches' = [patches EXCEPT ![s].phase = phase]
        /\ phase = "ok" => stored' = Pruned(patches[s].payload, existing)
        /\ phase = "error" => stored' = stored
        /\ UNCHANGED <<existing, hydration, columns, ui, baseline, saveTimer, doubt>>
  BY <1>1, UiParts DEF ServePatch, PatchFails
<1> PICK p : p = [patches[s] EXCEPT !.phase = phase] OBVIOUS
<1>3. /\ p \in Patch /\ p.payload = patches[s].payload /\ p.orphan = patches[s].orphan
      /\ p.phase = phase
  BY <1>1, <1>2, UiParts DEF Patch
<1>4. patches' = [patches EXCEPT ![s] = p] BY <1>1, <1>2, UiParts
<1>5. /\ patches' \in Seq(Patch) /\ Len(patches') = Len(patches)
      /\ \A i \in 1..Len(patches) : patches'[i] = IF i = s THEN p ELSE patches[i]
  BY <1>1, <1>2, <1>3, <1>4, UiParts
<1>6. /\ stored' \in Kept
      /\ phase = "ok" => /\ stored'.min = p.payload.min \cap existing
                         /\ stored'.nav = p.payload.nav /\ stored'.open = p.payload.open
  <2>1. patches[s].payload \in Kept /\ existing \in SUBSET UiTerminals /\ stored \in Kept
    BY <1>1, <1>2, UiParts, PrunedType
  <2> QED BY <1>2, <1>3, <2>1, PrunedType
<1>7. UiTypes' BY <1>1, <1>2, <1>5, <1>6 DEF UiTypes
<1>8. MinimizedAreThere' /\ (ui.min \subseteq columns)'
  BY <1>2, <1>6 DEF UiInv, MinimizedAreThere
<1>9. Opening' /\ HasBaseline' BY <1>2, <1>3, <1>5 DEF UiInv, Opening, HasBaseline
<1>10. Untouched' BY <1>2, <1>3, <1>5 DEF UiInv, Untouched
<1>11. patches # <<>> /\ patches' # <<>> BY <1>1, <1>2, <1>5, UiParts
<1>12. OpeningCopies' /\ RestingCopies'
  BY <1>2, <1>11 DEF UiInv, OpeningCopies, RestingCopies
<1>13. SavingCopies'
  <2> SUFFICES ASSUME hydration.phase = "ready", doubt # "all" PROVE SavingCopies'
    BY <1>2 DEF SavingCopies
  <2>1. Len(patches) = 1 /\ patches[1].orphan = FALSE
        /\ (saveTimer = FALSE => ui = patches[1].payload)
    BY <1>11 DEF UiInv, SavingCopies
  <2>2. s = 1 BY <1>2, <2>1
  <2>3. patches'[1] = p BY <1>5, <2>1, <2>2
  <2>4. Len(patches') = 1 /\ p.orphan = FALSE BY <1>3, <1>5, <2>1, <2>2
  <2>5. phase = "ok" => Saved(p.payload)' BY <1>2, <1>6 DEF Saved
  <2>6. (patches[1].phase = "ok" => Saved(patches[1].payload))'
    BY <1>3, <2>3, <2>5 DEF Saved
  <2>7. saveTimer' = FALSE => ui' = patches'[1].payload BY <1>2, <1>3, <2>1, <2>2, <2>3
  <2> QED BY <2>3, <2>4, <2>6, <2>7 DEF SavingCopies
<1> QED BY <1>7, <1>8, <1>9, <1>10, <1>12, <1>13 DEF UiInv

\* A terminal comes or goes: what mentions it is pruned or may have parted.
LEMMA TerminalKeeps ==
    ASSUME UiInv, NEW t \in UiTerminals, CreateTerminal(t) \/ TerminalDeleted(t) PROVE UiInv'
<1>1. UiTypes BY DEF UiInv
<1>2. /\ existing' \in {existing \cup {t}, existing \ {t}} /\ stored' = Pruned(stored, existing')
      /\ doubt' \in {doubt, "all"}
      /\ UNCHANGED <<hydration, columns, ui, baseline, saveTimer, patches>>
  BY DEF CreateTerminal, TerminalDeleted
<1>3. /\ existing' \in SUBSET UiTerminals /\ stored' \in Kept
      /\ stored'.min = stored.min \cap existing' /\ stored'.nav = stored.nav
      /\ stored'.open = stored.open
  <2>1. existing' \in SUBSET UiTerminals /\ stored \in Kept BY <1>1, <1>2, UiParts
  <2> QED BY <1>2, <2>1, PrunedType
<1>4. UiTypes' BY <1>1, <1>2, <1>3, UiParts DEF UiTypes
<1>5. MinimizedAreThere' /\ (ui.min \subseteq columns)'
  BY <1>2, <1>3 DEF UiInv, MinimizedAreThere
<1>6. Opening' /\ Untouched' /\ HasBaseline'
  BY <1>2 DEF UiInv, Opening, Untouched, HasBaseline
<1>7. ASSUME doubt' # "all", NEW v, Saved(v),
             hydration.phase = "ready" => patches # <<>> \/ v = baseline
      PROVE  Saved(v)'
  <2>1. stored.min = v.min \cap existing /\ doubt' = doubt BY <1>2, <1>7 DEF Saved
  <2>2. stored'.min = v.min \cap existing'
    <3>1. CASE existing' = existing \ {t} BY <1>3, <2>1, <3>1
    <3>2. CASE existing' # existing \ {t}
      <4>1. t \notin Mentioned BY <1>7, <3>2 DEF CreateTerminal, TerminalDeleted
      <4>2. hydration.phase = "ready" /\ v = baseline
        BY <1>1, <1>7, <4>1, UiParts DEF Mentioned
      <4>3. baseline \in Snapshot BY <1>2, <1>7, <4>2 DEF UiInv, HasBaseline
      <4>4. baseline # NotRead BY <4>3 DEF Snapshot, NotRead
      <4>5. t \notin v.min BY <4>1, <4>2, <4>4 DEF Mentioned
      <4>6. existing' = existing \cup {t} BY <1>2, <3>2
      <4> QED BY <1>3, <2>1, <4>5, <4>6
    <3> QED BY <3>1, <3>2
  <2> QED BY <1>3, <1>7, <2>1, <2>2 DEF Saved
<1>8. OpeningCopies' BY <1>2, <1>7 DEF UiInv, OpeningCopies, Saved
<1>9. RestingCopies' BY <1>2, <1>7 DEF UiInv, RestingCopies, Saved
<1>10. SavingCopies' BY <1>2, <1>7 DEF UiInv, SavingCopies, Saved
<1> QED BY <1>4, <1>5, <1>6, <1>8, <1>9, <1>10 DEF UiInv

\* The API restarts: it loses the view, and nothing else.
LEMMA RestartKeepsUi == ASSUME UiInv, ApiRestart PROVE UiInv'
<1>1. UiTypes BY DEF UiInv
<1> PICK v : v = Parsed(stored) OBVIOUS
<1>2. /\ stored' = Pruned(v, existing)
      /\ doubt' = IF doubt = "none" THEN "view" ELSE doubt
      /\ UNCHANGED <<existing, hydration, columns, ui, baseline, saveTimer, patches>>
  BY DEF ApiRestart
<1>3. v \in Kept /\ v.min = stored.min /\ v.open = stored.open
  BY <1>1, UiParts DEF Parsed, Kept
<1>4. /\ stored' \in Kept /\ stored'.min = stored.min \cap existing /\ stored'.open = stored.open
  <2>1. existing \in SUBSET UiTerminals BY <1>1, UiParts
  <2> QED BY <1>2, <1>3, <2>1, PrunedType
<1>5. doubt' \in {"view", "all"} /\ (doubt' # "all" => doubt # "all")
  BY <1>1, <1>2 DEF UiTypes
<1>6. UiTypes' BY <1>1, <1>2, <1>4, <1>5 DEF UiTypes
<1>7. MinimizedAreThere' /\ (ui.min \subseteq columns)'
  BY <1>2, <1>4 DEF UiInv, MinimizedAreThere
<1>8. Opening' /\ Untouched' /\ HasBaseline'
  BY <1>2, <1>5 DEF UiInv, Opening, Untouched, HasBaseline
<1>9. ASSUME NEW u, Saved(u) PROVE Saved(u)' BY <1>2, <1>4, <1>5, <1>9 DEF Saved
<1>10. OpeningCopies' BY <1>2, <1>5, <1>9 DEF UiInv, OpeningCopies, Saved
<1>11. RestingCopies' BY <1>2, <1>5, <1>9 DEF UiInv, RestingCopies, Saved
<1>12. SavingCopies' BY <1>2, <1>5, <1>9 DEF UiInv, SavingCopies, Saved
<1> QED BY <1>6, <1>7, <1>8, <1>10, <1>11, <1>12 DEF UiInv

LEMMA UiStart == UiInit => UiInv
<1> SUFFICES ASSUME UiInit PROVE UiInv OBVIOUS
<1>1. Defaults \in Snapshot /\ Defaults.min = {} BY UiAssumption DEF Defaults, Snapshot
<1>2. stored \in Kept /\ stored.min = {} BY DEF UiInit, Kept
<1>3. hydration \in Hydration /\ hydration.phase = "reading" /\ hydration.read = NotRead
  BY DEF UiInit, Reading, Hydration
<1>4. patches \in Seq(Patch) /\ Len(patches) = 0 BY DEF UiInit
<1>5. UiTypes BY <1>1, <1>2, <1>3, <1>4 DEF UiInit, UiTypes
<1>6. MinimizedAreThere /\ ui.min \subseteq columns BY <1>1, <1>2 DEF UiInit, MinimizedAreThere
<1>7. Opening BY <1>4 DEF UiInit, Opening
<1>8. OpeningCopies BY <1>3 DEF UiInit, OpeningCopies
<1>9. Untouched /\ HasBaseline /\ RestingCopies /\ SavingCopies
  BY <1>3 DEF Untouched, HasBaseline, RestingCopies, SavingCopies
<1> QED BY <1>5, <1>6, <1>7, <1>8, <1>9 DEF UiInv

LEMMA UiStep == UiInv /\ [UiNext]_uiVars => UiInv'
<1> SUFFICES ASSUME UiInv, [UiNext]_uiVars PROVE UiInv' OBVIOUS
<1>1. CASE ServeSnapshot BY <1>1, ReadKeeps
<1>2. CASE HydrateUi(existing) \/ HydrateWithout(existing) \/ HydrateFails
  BY <1>2, HydrationKeeps
<1>3. CASE RefreshList \/ \E next \in Snapshot : Change(next) BY <1>3, UserKeeps
<1>4. CASE SendPatch BY <1>4, SendKeepsUi
<1>5. CASE ReloadPage BY <1>5, ReloadKeeps
<1>6. CASE ApiRestart BY <1>6, RestartKeepsUi
<1>7. CASE \E s \in 1..MaxPatches : ServePatch(s) \/ PatchFails(s) BY <1>7, ServeKeepsUi
<1>8. CASE \E s \in 1..MaxPatches : PatchAnswered(s) BY <1>8, AnswerKeeps
<1>9. CASE \E t \in UiTerminals : CreateTerminal(t) \/ TerminalDeleted(t) BY <1>9, TerminalKeeps
<1>10. CASE UNCHANGED uiVars
  BY <1>10 DEF uiVars, UiInv, UiTypes, MinimizedAreThere, Opening, Untouched, OpeningCopies,
               RestingCopies, SavingCopies, HasBaseline, Saved
<1> QED BY <1>1, <1>2, <1>3, <1>4, <1>5, <1>6, <1>7, <1>8, <1>9, <1>10 DEF UiNext

\* usePersistedUiState and applyUiStatePatch: a page that has nothing to save
\* shows what the API has of the terminals there are, and more.
THEOREM SettledPageIsSaved == UiSpec => []UiSafe
BY UiStart, UiStep, UiInvIsSafe, PTL DEF UiSpec

-----------------------------------------------------------------------------
(* CanvasPanels.                                                           *)

Effects == {"cols", "panels", "ids", "nodes", "pending"}

Canvas ==
    [ready : BOOLEAN, cols : SUBSET Terminals, nodes : SUBSET Terminals,
     panels : SUBSET Terminals, ids : SUBSET Nodes(Terminals), dirty : SUBSET Effects,
     hydrated : BOOLEAN, auto : BOOLEAN, pending : Terminals \cup {None},
     recent : Terminals \cup {None}, handled : Terminals \cup {None}, inFlight : BOOLEAN]

Sweep ==
    [phase : {"closed", "asking", "deleting"}, all : BOOLEAN, left : SUBSET Terminals,
     failed : BOOLEAN]

CanvasTypes ==
    /\ alive \in SUBSET Terminals /\ prompted \in SUBSET Terminals
    /\ saved \in SUBSET Nodes(Terminals) /\ page \in Canvas /\ sweep \in Sweep
    /\ owed \in SUBSET Terminals

\* Nothing is to be done before the list was read, and the first effects that
\* run make the page one that reports its panels.
LoadsInOrder ==
    /\ page.ready = FALSE => page.dirty = {}
    /\ page.ready = TRUE => page.dirty # {} \/ page.hydrated = TRUE

\* What is reported as open is open, unless the panels have changed since.
ReportsPanels ==
    (page.ready = TRUE /\ "panels" \notin page.dirty) => page.ids \subseteq Nodes(page.panels)

CanvasInv == CanvasTypes /\ LoadsInOrder /\ ReportsPanels

LEMMA CanvasInvIsSafe == CanvasInv => CanvasSafe
<1> SUFFICES ASSUME CanvasInv PROVE CanvasSafe OBVIOUS
<1>1. page \in Canvas /\ sweep \in Sweep BY DEF CanvasInv, CanvasTypes
<1>2. AtRest => page.ready = TRUE /\ page.dirty = {} BY <1>1 DEF AtRest, Canvas
<1>3. CanvasTypeOK
  <2>1. /\ page.cols \cup page.nodes \cup page.panels \subseteq Terminals
        /\ page.ids \subseteq Nodes(Terminals) /\ page.pending \in Terminals \cup {None}
    BY <1>1 DEF Canvas
  <2>2. sweep.left \subseteq Terminals BY <1>1 DEF Sweep
  <2> QED BY <1>2, <2>1, <2>2 DEF CanvasInv, CanvasTypes, LoadsInOrder, CanvasTypeOK
<1>4. ClosedIsNotSaved BY <1>2 DEF CanvasInv, ReportsPanels, ClosedIsNotSaved
<1> QED BY <1>3, <1>4 DEF CanvasSafe

\* The fields of the page, told apart.
LEMMA CanvasParts ==
    ASSUME CanvasTypes
    PROVE  /\ page.ready \in BOOLEAN /\ page.hydrated \in BOOLEAN /\ page.dirty \in SUBSET Effects
           /\ page.cols \in SUBSET Terminals /\ page.nodes \in SUBSET Terminals
           /\ page.panels \in SUBSET Terminals /\ page.ids \in SUBSET Nodes(Terminals)
           /\ page.pending \in Terminals \cup {None} /\ page.recent \in Terminals \cup {None}
           /\ page.handled \in Terminals \cup {None} /\ sweep.left \in SUBSET Terminals
<1>1. page \in Canvas /\ sweep \in Sweep BY DEF CanvasTypes
<1> QED BY <1>1 DEF Canvas, Sweep

\* What other steps leave alone of the page.
LEMMA PageKept ==
    ASSUME CanvasInv, alive' \in SUBSET Terminals, prompted' \in SUBSET Terminals,
           saved' \in SUBSET Nodes(Terminals), sweep' \in Sweep, owed' \in SUBSET Terminals,
           page' = page
    PROVE  CanvasInv'
<1>1. CanvasTypes' BY DEF CanvasInv, CanvasTypes
<1>2. LoadsInOrder' /\ ReportsPanels' BY DEF CanvasInv, LoadsInOrder, ReportsPanels
<1> QED BY <1>1, <1>2 DEF CanvasInv

\* A page at rest that is given a list and panels: its effects run again.
LEMMA PageChanges ==
    ASSUME CanvasInv, AtRest, NEW p, p \in Canvas, page' = p,
           p.ready = TRUE, p.hydrated = page.hydrated, p.ids = page.ids,
           p.panels = page.panels \/ "panels" \in p.dirty,
           alive' \in SUBSET Terminals, prompted' \in SUBSET Terminals,
           saved' \in SUBSET Nodes(Terminals), sweep' \in Sweep, owed' \in SUBSET Terminals
    PROVE  CanvasInv'
<1>1. page.ready = TRUE /\ page.dirty = {} BY DEF AtRest, CanvasInv, CanvasTypes, Canvas
<1>2. CanvasTypes' BY DEF CanvasTypes
<1>3. LoadsInOrder' BY <1>1 DEF CanvasInv, LoadsInOrder
<1>4. ReportsPanels' BY <1>1 DEF CanvasInv, ReportsPanels
<1> QED BY <1>2, <1>3, <1>4 DEF CanvasInv

\* The list, the panels and the terminals to open that are set on a page.
LEMMA PageUpdates ==
    ASSUME NEW p \in Canvas
    PROVE  /\ \A known \in SUBSET Terminals :
                /\ Listed(p, known) \in Canvas /\ Listed(p, known).cols = known
                /\ Listed(p, known).dirty = p.dirty \cup {"cols"}
                /\ Listed(p, known).ready = p.ready /\ Listed(p, known).hydrated = p.hydrated
                /\ Listed(p, known).ids = p.ids /\ Listed(p, known).panels = p.panels
           /\ \A panels \in SUBSET Terminals :
                /\ Paneled(p, panels) \in Canvas
                /\ "panels" \in Paneled(p, panels).dirty /\ Paneled(p, panels).ready = p.ready
                /\ Paneled(p, panels).hydrated = p.hydrated /\ Paneled(p, panels).ids = p.ids
<1>1. ASSUME NEW known \in SUBSET Terminals
      PROVE  /\ Listed(p, known) \in Canvas /\ Listed(p, known).cols = known
             /\ Listed(p, known).dirty = p.dirty \cup {"cols"}
             /\ Listed(p, known).ready = p.ready /\ Listed(p, known).hydrated = p.hydrated
             /\ Listed(p, known).ids = p.ids /\ Listed(p, known).panels = p.panels
  <2> PICK d : d = p.dirty \cup {"cols"} OBVIOUS
  <2>1. d \in SUBSET Effects BY DEF Canvas, Effects
  <2>2. Listed(p, known) = [p EXCEPT !.cols = known, !.dirty = d] BY DEF Listed
  <2> QED BY <2>1, <2>2 DEF Canvas
<1>2. ASSUME NEW panels \in SUBSET Terminals
      PROVE  /\ Paneled(p, panels) \in Canvas
             /\ "panels" \in Paneled(p, panels).dirty /\ Paneled(p, panels).ready = p.ready
             /\ Paneled(p, panels).hydrated = p.hydrated /\ Paneled(p, panels).ids = p.ids
  <2> PICK d : d = p.dirty \cup {"panels"} OBVIOUS
  <2>1. d \in SUBSET Effects /\ "panels" \in d BY DEF Canvas, Effects
  <2>2. Paneled(p, panels) = [p EXCEPT !.panels = panels, !.dirty = d] BY DEF Paneled
  <2> QED BY <2>1, <2>2 DEF Canvas
<1> QED BY <1>1, <1>2

\* What the effects of one render open, and report.
OpenedPage(p) == (IF ChildOpens(p) THEN {p.recent} ELSE {})
             \cup (IF PendingOpens(p) THEN {p.pending} ELSE {})
OpenPanels(p) == Synced(p, p.panels \cup RestoredPanels(p)) \cup OpenedPage(p)
Reported(p, h) == IF "cols" \in p.dirty THEN PrunedIds(ReportedIds(h), p.cols) ELSE ReportedIds(h)

LEMMA EffectsAreTyped ==
    ASSUME NEW p \in Canvas, NEW h \in Canvas
    PROVE  /\ OpenPanels(p) \in SUBSET Terminals
           /\ Reported(p, h) \in SUBSET Nodes(Terminals)
           /\ Reported(p, h) \subseteq ReportedIds(h)
<1>1. OpenedPage(p) \in SUBSET Terminals
  BY DEF OpenedPage, ChildOpens, PendingOpens, Resolves, Canvas
<1>2. OpenPanels(p) \in SUBSET Terminals
  BY <1>1 DEF OpenPanels, Synced, RestoredPanels, Canvas
<1>3. ReportedIds(h) \in SUBSET Nodes(Terminals) BY DEF ReportedIds, Canvas, Nodes
<1> QED BY <1>2, <1>3 DEF Reported, PrunedIds

\* The effects of a render.
LEMMA CommitKeeps == ASSUME CanvasInv, CommitRender PROVE CanvasInv'
<1>1. CanvasTypes BY DEF CanvasInv
<1>2. page \in Canvas /\ page.dirty # {} /\ page.ready = TRUE
  BY <1>1, CanvasParts DEF CommitRender, CanvasInv, CanvasTypes, LoadsInOrder
<1> DEFINE H == [page EXCEPT !.hydrated = page.ready]
           Dirtied(relabelled) ==
             (IF OpenPanels(page) # page.panels \/ OpenedPage(page) # {} \/ relabelled
              THEN {"panels"} ELSE {})
             \cup (IF Reported(page, H) # page.ids THEN {"ids"} ELSE {})
             \cup (IF AutoOpens(page) /\ Sentiph \in page.cols THEN {"pending"} ELSE {})
           Handled == IF Unhandled(page) /\ ~ChildWaits(page) THEN page.recent ELSE H.handled
           Pending == IF AutoOpens(page) /\ Sentiph \in page.cols THEN Sentiph
                      ELSE IF PendingOpens(page) THEN None ELSE H.pending
           AutoTurn == H.auto \/ page.ready
<1>3. PICK relabelled \in BOOLEAN :
        page' = [H EXCEPT !.panels = OpenPanels(page), !.ids = Reported(page, H),
                          !.handled = Handled, !.pending = Pending, !.auto = AutoTurn,
                          !.dirty = Dirtied(relabelled)]
  BY DEF CommitRender, OpenPanels, OpenedPage, Reported
<1>4. UNCHANGED <<alive, prompted, saved, sweep, owed>> BY DEF CommitRender
<1> PICK h : h = H OBVIOUS
<1>5. /\ h \in Canvas /\ h.hydrated = TRUE /\ h.ready = TRUE /\ h.dirty = page.dirty
      /\ h.ids = page.ids /\ h.panels = page.panels
      /\ h.handled = page.handled /\ h.pending = page.pending /\ h.auto = page.auto
  BY <1>2 DEF Canvas
<1>6. H = h OBVIOUS
<1>7. /\ Handled \in Terminals \cup {None} /\ Pending \in Terminals \cup {None}
      /\ AutoTurn \in BOOLEAN
  BY <1>2, <1>5, CanvasAssumption DEF Canvas
<1>8. /\ Dirtied(relabelled) \in SUBSET Effects
      /\ OpenPanels(page) # page.panels => "panels" \in Dirtied(relabelled)
  BY DEF Effects
<1>9. /\ OpenPanels(page) \in SUBSET Terminals /\ Reported(page, h) \in SUBSET Nodes(Terminals)
      /\ Reported(page, h) \subseteq ReportedIds(h)
  BY <1>2, <1>5, EffectsAreTyped
<1> HIDE DEF Handled, Pending, AutoTurn, Dirtied
<1>10. page' = [h EXCEPT !.panels = OpenPanels(page), !.ids = Reported(page, h),
                         !.handled = Handled, !.pending = Pending, !.auto = AutoTurn,
                         !.dirty = Dirtied(relabelled)]
  BY <1>3, <1>6
<1> HIDE DEF H
<1>11. /\ page' \in Canvas /\ page'.ready = TRUE /\ page'.hydrated = TRUE
       /\ page'.panels = OpenPanels(page) /\ page'.ids = Reported(page, h)
       /\ page'.dirty = Dirtied(relabelled)
  <2> HIDE DEF OpenPanels
  <2>1. PICK d : d = Dirtied(relabelled) OBVIOUS
  <2>2. PICK handled, pending, auto : handled = Handled /\ pending = Pending
            /\ auto = AutoTurn OBVIOUS
  <2>3. PICK panels, ids : panels = OpenPanels(page) /\ ids = Reported(page, h) OBVIOUS
  <2>4. PICK r : r = page' OBVIOUS
  <2>5. r = [h EXCEPT !.panels = panels, !.ids = ids, !.handled = handled,
                      !.pending = pending, !.auto = auto, !.dirty = d]
    BY <1>10, <2>1, <2>2, <2>3, <2>4
  <2>6. /\ d \in SUBSET Effects /\ handled \in Terminals \cup {None} /\ auto \in BOOLEAN
        /\ pending \in Terminals \cup {None}
        /\ panels \in SUBSET Terminals /\ ids \in SUBSET Nodes(Terminals)
    BY <1>7, <1>8, <1>9, <2>1, <2>2, <2>3
  <2>7. /\ r \in Canvas /\ r.ready = h.ready /\ r.hydrated = h.hydrated
        /\ r.panels = panels /\ r.ids = ids /\ r.dirty = d
    BY <1>5, <2>5, <2>6 DEF Canvas
  <2> QED BY <1>5, <2>1, <2>3, <2>4, <2>7
<1>12. CanvasTypes' BY <1>1, <1>4, <1>11 DEF CanvasTypes
<1>13. LoadsInOrder' BY <1>11 DEF LoadsInOrder
<1>14. ReportsPanels'
  <2> SUFFICES ASSUME "panels" \notin Dirtied(relabelled)
               PROVE  Reported(page, h) \subseteq Nodes(page.panels)
    BY <1>8, <1>11 DEF ReportsPanels
  <2> QED BY <1>2, <1>5, <1>9 DEF CanvasInv, ReportsPanels, ReportedIds
<1> QED BY <1>12, <1>13, <1>14 DEF CanvasInv

\* The list is read: nothing that was saved as open is restored by it.
LEMMA HydrateKeeps ==
    ASSUME CanvasInv, Hydrate(alive) \/ Hydrate({}) PROVE CanvasInv'
<1>1. CanvasTypes BY DEF CanvasInv
<1>2. PICK known \in SUBSET Terminals :
        /\ page' = [Listed(page, known) EXCEPT !.ready = TRUE, !.ids = PrunedIds(saved, known)]
        /\ owed' = IF known = alive THEN {t \in alive : NodeId(t) \in saved} ELSE {}
        /\ UNCHANGED <<alive, prompted, saved, sweep>>
  BY <1>1 DEF Hydrate, CanvasTypes
<1>3. PrunedIds(saved, known) = {}
  BY <1>1, CanvasAssumption DEF PrunedIds, CanvasTypes
<1> PICK p : p = Listed(page, known) OBVIOUS
<1>4. p \in Canvas /\ "cols" \in p.dirty BY <1>1, PageUpdates DEF CanvasTypes
<1>5. page' = [p EXCEPT !.ready = TRUE, !.ids = {}] BY <1>2, <1>3
<1>6. page' \in Canvas /\ page'.ready = TRUE /\ page'.ids = {} /\ page'.dirty = p.dirty
  BY <1>4, <1>5 DEF Canvas
<1>7. owed' \in SUBSET Terminals BY <1>1, <1>2 DEF CanvasTypes
<1>8. CanvasTypes' BY <1>1, <1>2, <1>6, <1>7 DEF CanvasTypes
<1>9. LoadsInOrder' /\ ReportsPanels' BY <1>4, <1>6 DEF LoadsInOrder, ReportsPanels
<1> QED BY <1>8, <1>9 DEF CanvasInv

LEMMA NewPageKeeps ==
    /\ NewPage \in Canvas /\ NoSweep \in Sweep
    /\ NewPage.ready = FALSE /\ NewPage.dirty = {}
BY DEF NewPage, NoSweep, Canvas, Sweep, Nodes

LEMMA ReloadKeepsCanvas == ASSUME CanvasInv, Reload PROVE CanvasInv'
<1>1. page' = NewPage /\ sweep' = NoSweep /\ owed' = {} /\ UNCHANGED <<alive, prompted, saved>>
  BY DEF Reload
<1>2. CanvasTypes' BY <1>1, NewPageKeeps DEF CanvasInv, CanvasTypes
<1>3. LoadsInOrder' /\ ReportsPanels' BY <1>1, NewPageKeeps DEF LoadsInOrder, ReportsPanels
<1> QED BY <1>2, <1>3 DEF CanvasInv

\* What the page does at rest: a list that is read, a tick, and the user.
LEMMA RestingPageKeeps ==
    ASSUME CanvasInv, \/ RefreshColumns \/ Simulate \/ ClickSentiph
                      \/ \E t \in Terminals : ClickSession(t) \/ Minimize(t) \/ Activity(t)
    PROVE  CanvasInv'
<1>1. CanvasTypes BY DEF CanvasInv
<1>2. AtRest BY DEF RefreshColumns, Simulate, ClickSentiph, ClickSession, Minimize, Activity
<1>3. /\ page \in Canvas /\ page.ready = TRUE /\ page.panels \in SUBSET Terminals
      /\ page.cols \in SUBSET Terminals
  BY <1>1, <1>2, CanvasParts DEF AtRest, CanvasTypes
<1>4. /\ alive' \in SUBSET Terminals /\ saved' \in SUBSET Nodes(Terminals) /\ sweep' \in Sweep
      /\ prompted' \in SUBSET Terminals /\ owed' \in SUBSET Terminals
  BY <1>1 DEF RefreshColumns, Simulate, ClickSentiph, ClickSession, Minimize, Activity, CanvasTypes
<1> DEFINE Fits(p) == /\ p \in Canvas /\ p.ready = TRUE /\ p.hydrated = page.hydrated
                      /\ p.ids = page.ids
                      /\ p.panels = page.panels \/ "panels" \in p.dirty
<1>5. \A known \in SUBSET Terminals : Fits(Listed(page, known)) BY <1>3, PageUpdates
<1>6. \A panels \in SUBSET Terminals : Fits(Paneled(page, panels)) BY <1>3, PageUpdates
<1>7. \A t \in Terminals : Fits(Toggled(page, t)) BY <1>3, <1>6 DEF Toggled
<1>8. PICK p : page' = p /\ Fits(p)
  <2>1. CASE RefreshColumns BY <1>1, <1>5, <2>1 DEF RefreshColumns, CanvasTypes
  <2>2. CASE Simulate
    <3>1. page' = [page EXCEPT !.nodes = page.cols, !.dirty = {"nodes"}] BY <2>2 DEF Simulate
    <3>2. {"nodes"} \in SUBSET Effects BY DEF Effects
    <3>3. Fits([page EXCEPT !.nodes = page.cols, !.dirty = {"nodes"}]) BY <1>3, <3>2 DEF Canvas
    <3> QED BY <3>1, <3>3
  <2>3. CASE ClickSentiph
    <3>1. CASE page' = [page EXCEPT !.inFlight = TRUE]
      <4>1. Fits([page EXCEPT !.inFlight = TRUE]) BY <1>3 DEF Canvas
      <4> QED BY <3>1, <4>1
    <3>2. CASE page' # [page EXCEPT !.inFlight = TRUE]
      <4>1. page' = Toggled(page, Sentiph) \/ page' = Paneled(page, page.panels)
        BY <2>3, <3>2 DEF ClickSentiph
      <4> QED BY <1>3, <1>6, <1>7, <4>1, CanvasAssumption
    <3> QED BY <3>1, <3>2
  <2>4. ASSUME NEW t \in Terminals, ClickSession(t) PROVE Fits(page')
    BY <1>7, <2>4 DEF ClickSession
  <2>5. ASSUME NEW t \in Terminals, Minimize(t) PROVE Fits(page')
    BY <1>3, <1>6, <2>5 DEF Minimize
  <2>6. ASSUME NEW t \in Terminals, Activity(t) PROVE Fits(page')
    BY <1>3, <1>5, <2>6 DEF Activity
  <2> QED BY <2>1, <2>2, <2>3, <2>4, <2>5, <2>6
<1> QED BY <1>2, <1>4, <1>8, PageChanges

\* The answer to a POST for a terminal of Sentiph.
LEMMA SpawnKeeps ==
    ASSUME CanvasInv, NEW s \in Askers, ReceiveSpawn(s) \/ SpawnFails(s) PROVE CanvasInv'
<1>1. CanvasTypes BY DEF CanvasInv
<1>2. /\ AtRest /\ UNCHANGED <<alive, prompted, saved, sweep, owed>>
  BY DEF ReceiveSpawn, SpawnFails
<1>3. page \in Canvas /\ page.ready = TRUE BY <1>1, <1>2 DEF AtRest, CanvasTypes, Canvas
<1>4. PICK q : /\ q \in {page, Listed(page, alive)}
               /\ \E f \in BOOLEAN :
                    \/ page' = [[q EXCEPT !.inFlight = f] EXCEPT !.pending = Sentiph]
                    \/ page' = [q EXCEPT !.inFlight = f]
  <2>1. CASE ReceiveSpawn(s)
    <3> PICK q : q = Listed(page, alive) OBVIOUS
    <3>1. page' = [Released(q, s, TRUE) EXCEPT !.pending = Sentiph] BY <2>1 DEF ReceiveSpawn
    <3> PICK f \in BOOLEAN : f = (q.inFlight /\ s # "node") OBVIOUS
    <3>2. page' = [[q EXCEPT !.inFlight = f] EXCEPT !.pending = Sentiph] BY <3>1 DEF Released
    <3> QED BY <3>2
  <2>2. CASE SpawnFails(s)
    <3> PICK f \in BOOLEAN : f = (page.inFlight /\ s # "node") OBVIOUS
    <3>1. page' = [page EXCEPT !.inFlight = f] BY <2>2 DEF SpawnFails, Released
    <3> QED BY <3>1
  <2> QED BY <2>1, <2>2
<1>5. /\ q \in Canvas /\ q.ready = TRUE /\ q.hydrated = page.hydrated
      /\ q.ids = page.ids /\ q.panels = page.panels
  BY <1>1, <1>3, <1>4, PageUpdates DEF CanvasTypes
<1>6. /\ page' \in Canvas /\ page'.ready = TRUE /\ page'.hydrated = page.hydrated
      /\ page'.ids = page.ids /\ page'.panels = page.panels
  BY <1>4, <1>5, CanvasAssumption DEF Canvas
<1> PICK p : p = page' OBVIOUS
<1>7. p \in Canvas /\ p.ready = TRUE /\ p.hydrated = page.hydrated
      /\ p.ids = page.ids /\ p.panels = page.panels
  BY <1>6
<1> QED BY <1>1, <1>2, <1>7, PageChanges DEF CanvasTypes

\* Agents and other clients.
LEMMA OthersKeep ==
    ASSUME CanvasInv, NEW t \in Terminals, NEW told \in BOOLEAN,
           CreateChild(t, told) \/ DeleteTerminal(t, told)
    PROVE  CanvasInv'
<1>1. CanvasTypes BY DEF CanvasInv
<1>2. /\ alive' \in SUBSET Terminals /\ prompted' \in SUBSET Terminals
      /\ saved' \in SUBSET Nodes(Terminals) /\ owed' \in SUBSET Terminals /\ sweep' \in Sweep
  BY <1>1 DEF CanvasTypes, CreateChild, DeleteTerminal, Cascade
<1>3. PICK known \in SUBSET Terminals : Told(told, t, known)
  BY <1>1, CanvasParts DEF CreateChild, DeleteTerminal, Cascade
<1>4. CASE told
  <2>1. AtRest BY <1>3, <1>4 DEF Told
  <2>2. page \in Canvas /\ page.ready = TRUE BY <1>1, <2>1 DEF AtRest, CanvasTypes, Canvas
  <2> PICK q : q = Listed(page, known) OBVIOUS
  <2>3. /\ q \in Canvas /\ q.ready = TRUE /\ q.hydrated = page.hydrated
        /\ q.ids = page.ids /\ q.panels = page.panels
    BY <2>2, PageUpdates
  <2> PICK r : r = IF t \in known THEN t ELSE q.recent OBVIOUS
  <2> PICK p : p = page' OBVIOUS
  <2>4. r \in Terminals \cup {None} BY <2>3 DEF Canvas
  <2>5. p = [q EXCEPT !.recent = r] BY <1>3, <1>4 DEF Told
  <2>6. /\ p \in Canvas /\ p.ready = TRUE /\ p.hydrated = page.hydrated
        /\ p.ids = page.ids /\ p.panels = page.panels
    BY <2>3, <2>4, <2>5 DEF Canvas
  <2> QED BY <1>2, <2>1, <2>6, PageChanges
<1>5. CASE ~told BY <1>2, <1>3, <1>5, PageKept DEF Told
<1> QED BY <1>4, <1>5

\* The dialog that deletes all terminals.
LEMMA SweepKeeps ==
    ASSUME CanvasInv,
           \/ OpenSweep \/ ConfirmSweep \/ CancelSweep \/ SweepDone
           \/ \E t \in Terminals : SweepOne(t)
    PROVE  CanvasInv'
<1>1. CanvasTypes BY DEF CanvasInv
<1>2. sweep \in Sweep /\ NoSweep \in Sweep BY <1>1, NewPageKeeps DEF CanvasTypes
<1>3. sweep' \in Sweep
  <2>1. CASE OpenSweep
    <3>1. PICK all \in BOOLEAN : sweep' = [NoSweep EXCEPT !.phase = "asking", !.all = all]
      BY <2>1 DEF OpenSweep
    <3> QED BY <1>2, <3>1 DEF Sweep
  <2>2. CASE ConfirmSweep
    <3>1. PICK targets \in SUBSET Terminals :
            sweep' = [sweep EXCEPT !.phase = "deleting", !.left = targets, !.failed = FALSE]
      BY <1>1, <2>2, CanvasParts DEF ConfirmSweep
    <3> QED BY <1>2, <3>1 DEF Sweep
  <2>3. CASE CancelSweep BY <1>2, <2>3 DEF CancelSweep
  <2>4. CASE SweepDone
    <3>1. sweep' \in {NoSweep, [sweep EXCEPT !.phase = "asking"]} BY <2>4 DEF SweepDone
    <3> QED BY <1>2, <3>1 DEF Sweep
  <2>5. CASE \E t \in Terminals : SweepOne(t)
    <3>1. PICK left \in SUBSET Terminals, failed \in BOOLEAN :
            sweep' = [sweep EXCEPT !.left = left, !.failed = failed]
      <4>1. PICK t \in Terminals, gone \in BOOLEAN :
              sweep' = [sweep EXCEPT !.left = sweep.left \ {t}, !.failed = sweep.failed \/ ~gone]
        BY <2>5 DEF SweepOne
      <4>2. sweep.left \ {t} \in SUBSET Terminals BY <1>1, CanvasParts
      <4>3. (sweep.failed \/ ~gone) \in BOOLEAN OBVIOUS
      <4> QED BY <4>1, <4>2, <4>3
    <3> QED BY <1>2, <3>1 DEF Sweep
  <2> QED BY <2>1, <2>2, <2>3, <2>4, <2>5
<1>4. /\ alive' \in SUBSET Terminals /\ prompted' \in SUBSET Terminals
      /\ saved' \in SUBSET Nodes(Terminals) /\ owed' \in SUBSET Terminals
  BY <1>1 DEF CanvasTypes, OpenSweep, ConfirmSweep, CancelSweep, SweepDone, SweepOne
<1>5. CASE SweepDone
  <2>1. AtRest /\ page' = Listed(Paneled(page, {}), alive) BY <1>5 DEF SweepDone
  <2>2. page \in Canvas /\ page.ready = TRUE BY <1>1, <2>1 DEF AtRest, CanvasTypes, Canvas
  <2> PICK q : q = Paneled(page, {}) OBVIOUS
  <2> PICK p : p = Listed(q, alive) OBVIOUS
  <2>3. /\ q \in Canvas /\ "panels" \in q.dirty /\ q.ready = TRUE
        /\ q.hydrated = page.hydrated /\ q.ids = page.ids
    BY <2>2, PageUpdates
  <2>4. /\ p \in Canvas /\ "panels" \in p.dirty /\ p.ready = TRUE
        /\ p.hydrated = page.hydrated /\ p.ids = page.ids
    BY <1>1, <2>3, PageUpdates DEF CanvasTypes
  <2> QED BY <1>3, <1>4, <2>1, <2>4, PageChanges
<1>6. CASE ~SweepDone
  <2>1. page' = page BY <1>6 DEF OpenSweep, ConfirmSweep, CancelSweep, SweepOne
  <2> QED BY <1>3, <1>4, <2>1, PageKept
<1> QED BY <1>5, <1>6

\* Saving, and the requests that the page makes.
LEMMA RequestsKeep ==
    ASSUME CanvasInv, Save \/ NewAgent \/ \E s \in Askers : ServeSpawn(s) PROVE CanvasInv'
<1>1. CanvasTypes BY DEF CanvasInv
<1>2. page' = page /\ sweep' = sweep /\ owed' = owed /\ prompted' = prompted
  BY DEF Save, NewAgent, ServeSpawn
<1>3. alive' \in SUBSET Terminals /\ saved' \in SUBSET Nodes(Terminals)
  BY <1>1, CanvasParts, CanvasAssumption DEF CanvasTypes, Save, NewAgent, ServeSpawn
<1> QED BY <1>1, <1>2, <1>3, PageKept DEF CanvasTypes

LEMMA CanvasStart == CanvasInit => CanvasInv
<1> SUFFICES ASSUME CanvasInit PROVE CanvasInv OBVIOUS
<1>1. CanvasTypes BY NewPageKeeps DEF CanvasInit, CanvasTypes
<1>2. LoadsInOrder /\ ReportsPanels
  BY NewPageKeeps DEF CanvasInit, LoadsInOrder, ReportsPanels
<1> QED BY <1>1, <1>2 DEF CanvasInv

LEMMA CanvasStep == CanvasInv /\ [CanvasNext]_canvasVars => CanvasInv'
<1> SUFFICES ASSUME CanvasInv, [CanvasNext]_canvasVars PROVE CanvasInv' OBVIOUS
<1>1. CASE CommitRender BY <1>1, CommitKeeps
<1>2. CASE Hydrate(alive) \/ Hydrate({}) BY <1>2, HydrateKeeps
<1>3. CASE Reload BY <1>3, ReloadKeepsCanvas
<1>4. CASE \/ RefreshColumns \/ Simulate \/ ClickSentiph
           \/ \E t \in Terminals : ClickSession(t) \/ Minimize(t) \/ Activity(t)
  BY <1>4, RestingPageKeeps
<1>5. CASE Save \/ NewAgent \/ \E s \in Askers : ServeSpawn(s) BY <1>5, RequestsKeep
<1>6. CASE \/ OpenSweep \/ ConfirmSweep \/ CancelSweep \/ SweepDone
           \/ \E t \in Terminals : SweepOne(t)
  BY <1>6, SweepKeeps
<1>7. CASE \E t \in Terminals, told \in BOOLEAN : CreateChild(t, told) \/ DeleteTerminal(t, told)
  BY <1>7, OthersKeep
<1>8. CASE \E s \in Askers : ReceiveSpawn(s) \/ SpawnFails(s) BY <1>8, SpawnKeeps
<1>9. CASE UNCHANGED canvasVars
  BY <1>9 DEF canvasVars, CanvasInv, CanvasTypes, LoadsInOrder, ReportsPanels
<1> QED BY <1>1, <1>2, <1>3, <1>4, <1>5, <1>6, <1>7, <1>8, <1>9 DEF CanvasNext

\* useOpenTerminals and DeleteAllTerminalsDialog: what was closed, by hand, by
\* the dialog or with its terminal, is not reported to be saved as open.
THEOREM ClosedStaysClosed == CanvasSpec => []CanvasSafe
BY CanvasStart, CanvasStep, CanvasInvIsSafe, PTL DEF CanvasSpec

-----------------------------------------------------------------------------
(* TerminalStream.                                                         *)

Message == [kind : {"open", "close", "history", "output"}, data : Seq(Nat)]

PtySizes == {Clamp(s) : s \in Sizes} \cup {DefaultSize}

Session == [live : BOOLEAN, scroll : Seq(Nat), size : PtySizes]

Pane ==
    [conn : {"connecting", "open", "waiting"}, attempts : 0..MaxAttempts,
     term : {"loading", "ready", "failed"}, screen : Seq(Nat), hasHistory : BOOLEAN,
     history : Seq(Nat), pending : Seq(Nat), fit : Sizes, sent : Sizes \cup {Unsent},
     timer : BOOLEAN]

StreamTypes ==
    /\ session \in Session /\ Len(session.scroll) <= Keep /\ attached \in BOOLEAN
    /\ down \in Seq(Message) /\ up \in Seq(Sizes) /\ pane \in Pane /\ made \in Nat
    /\ attached = TRUE => session.live = TRUE /\ pane.conn # "waiting"

\* Numbers in their order, up to n.
Rising(s, n) ==
    /\ \A i \in 1..Len(s) : s[i] <= n
    /\ \A i, j \in 1..Len(s) : i < j => s[i] < s[j]

EndsWith(s, t) ==
    /\ Len(s) <= Len(t)
    /\ \A i \in 1..Len(s) : s[i] = t[(Len(t) - Len(s)) + i]

\* Where a history may come: first, or after the open event and the banner of a
\* session that was created for the pane, of which the first may have been received.
MayFollow(q, i) ==
    \/ i = 1
    \/ i = 2 /\ q[1].kind \in {"open", "output"}
    \/ i = 3 /\ q[1].kind = "open" /\ q[2].kind = "output"

\* The events on their way to the pane: an open event, a banner, a history, chunks,
\* and a close event, each of which may be missing; the last is, on a socket that
\* lives.
Orderly(q, live) ==
    \A i \in 1..Len(q) :
       /\ q[i].kind = "open" => i = 1
       /\ q[i].kind = "history" => MayFollow(q, i)
       /\ q[i].kind = "close" => i = Len(q) /\ live = FALSE
       /\ q[i].kind = "output" => Len(q[i].data) = 1

HistoryAt(q, i) == i <= Len(q) /\ q[i].kind = "history"

\* How many messages come before the chunks that stay, and where these end.
LeadOf(q) ==
    IF HistoryAt(q, 3) THEN 3 ELSE IF HistoryAt(q, 2) THEN 2
    ELSE IF Len(q) > 0 /\ q[1].kind \in {"open", "history"} THEN 1 ELSE 0
EndOf(q) == IF Len(q) > 0 /\ q[Len(q)].kind = "close" THEN Len(q) - 1 ELSE Len(q)

ChunksOf(q) == [i \in 1..(EndOf(q) - LeadOf(q)) |-> q[LeadOf(q) + i].data[1]]

\* What the pane has to show, loaded or not, and what it will have to show once
\* it has received everything.
Shown == IF pane.term = "ready" THEN pane.screen ELSE pane.history \o pane.pending
BaseOf(q, shown) ==
    IF LeadOf(q) > 0 /\ q[LeadOf(q)].kind = "history" THEN q[LeadOf(q)].data ELSE shown
ToShow(q, shown) == BaseOf(q, shown) \o ChunksOf(q)

\* A banner that comes before the history is newer than what the pane shows.
BannerIsNew(q, shown, n) ==
    \A i \in {1, 2} : HistoryAt(q, i + 1) /\ q[i].kind = "output" =>
       q[i].data[1] \in 0..n /\ \A j \in 1..Len(shown) : shown[j] < q[i].data[1]

StreamInv ==
    /\ StreamTypes /\ Orderly(down, attached)
    /\ pane.term # "ready" => pane.screen = << >>
    /\ Rising(session.scroll, made) /\ Rising(Shown, made) /\ Rising(ToShow(down, Shown), made)
    /\ BannerIsNew(down, Shown, made)
    /\ attached = TRUE => EndsWith(session.scroll, ToShow(down, Shown))

LEMMA TwoMessages ==
    ASSUME NEW S, NEW m \in S, NEW h \in S PROVE <<m>> \o <<h>> = <<m, h>>
<1>1. <<m>> \in Seq(S) /\ <<m>> \o <<h>> = Append(<<m>>, h) OBVIOUS
<1> PICK a, b : a = Append(<<m>>, h) /\ b = <<m, h>> OBVIOUS
<1>2. a \in Seq(S) /\ Len(a) = 2 /\ a[1] = m /\ a[2] = h
  <2>1. a \in Seq(S) OBVIOUS
  <2>2. Len(a) = 2 OBVIOUS
  <2>3. a[1] = m OBVIOUS
  <2>4. a[2] = h OBVIOUS
  <2> QED BY <2>1, <2>2, <2>3, <2>4
<1>3. b \in Seq(S) /\ Len(b) = 2 /\ b[1] = m /\ b[2] = h OBVIOUS
<1>4. a = [i \in 1..2 |-> IF i = 1 THEN m ELSE h]
  BY <1>2
<1>5. b = [i \in 1..2 |-> IF i = 1 THEN m ELSE h]
  BY <1>3
<1> QED BY <1>1, <1>4, <1>5

LEMMA ThreeMessages ==
    ASSUME NEW S, NEW m \in S, NEW c \in S, NEW h \in S
    PROVE  /\ (<<m>> \o << >>) \o << >> = <<m>>
           /\ (<<m>> \o << >>) \o <<h>> = <<m, h>>
           /\ (<<m>> \o <<c>>) \o <<h>> = <<m, c, h>>
<1> PICK e : e = <<m>> OBVIOUS
<1>1. e \in Seq(S) /\ Len(e) = 1 OBVIOUS
<1>2. e \o << >> = e BY <1>1
<1>3. e \o <<h>> = <<m, h>> /\ e \o <<c>> = <<m, c>> BY TwoMessages
<1> PICK p, q : p = <<m, c>> /\ q = <<m, c, h>> OBVIOUS
<1>4. p \in Seq(S) /\ p \o <<h>> = Append(p, h) OBVIOUS
<1>5. p \o <<h>> = q
  <2> PICK a : a = Append(p, h) OBVIOUS
  <2>1. a \in Seq(S) /\ Len(a) = 3 BY <1>4
  <2>2. a[1] = m /\ a[2] = c /\ a[3] = h BY <1>4
  <2>3. q \in Seq(S) /\ Len(q) = 3 /\ q[1] = m /\ q[2] = c /\ q[3] = h OBVIOUS
  <2>4. a = [i \in 1..3 |-> IF i = 1 THEN m ELSE IF i = 2 THEN c ELSE h] BY <2>1, <2>2
  <2>5. q = [i \in 1..3 |-> IF i = 1 THEN m ELSE IF i = 2 THEN c ELSE h] BY <2>3
  <2> QED BY <1>4, <2>4, <2>5
<1> QED BY <1>2, <1>3, <1>5

\* Sequences with the same elements, and with one more.
Same(s, t) == Len(s) = Len(t) /\ \A i \in 1..Len(t) : s[i] = t[i]
Grown(s, t, n) == Len(s) = Len(t) + 1 /\ s[Len(s)] = n /\ \A i \in 1..Len(t) : s[i] = t[i]

LEMMA RisingKept ==
    ASSUME NEW s \in Seq(Nat), NEW t \in Seq(Nat), NEW n \in Nat
    PROVE  /\ Rising(s, n) => Rising(s, n + 1)
           /\ Rising(t, n) /\ Same(s, t) => Rising(s, n)
           /\ Rising(t, n) /\ Grown(s, t, n + 1) => Rising(s, n + 1)
<1>1. Rising(s, n) => Rising(s, n + 1) BY DEF Rising
<1>2. Rising(t, n) /\ Same(s, t) => Rising(s, n) BY DEF Rising, Same
<1>3. ASSUME Rising(t, n), Grown(s, t, n + 1) PROVE Rising(s, n + 1)
  <2>1. Len(t) \in Nat /\ Len(s) = Len(t) + 1 /\ s[Len(s)] = n + 1 BY <1>3 DEF Grown
  <2>2. \A i \in 1..Len(s) : i \in 1..Len(t) \/ i = Len(s) BY <2>1
  <2>3. \A i \in 1..Len(t) : s[i] = t[i] /\ t[i] <= n /\ t[i] \in Nat /\ i < Len(s)
    BY <1>3, <2>1 DEF Grown, Rising
  <2>4. ASSUME NEW i \in 1..Len(s) PROVE s[i] <= n + 1
    <3>1. CASE i = Len(s) BY <2>1, <3>1
    <3>2. CASE i \in 1..Len(t)
      <4>1. PICK v \in Nat : v = t[i] BY <2>3, <3>2
      <4>2. s[i] = v /\ v <= n BY <2>3, <3>2, <4>1
      <4> QED BY <4>2
    <3> QED BY <2>2, <3>1, <3>2
  <2>5. ASSUME NEW i \in 1..Len(s), NEW j \in 1..Len(s), i < j PROVE s[i] < s[j]
    <3>1. i \in 1..Len(t) BY <2>1, <2>5
    <3>2. CASE j = Len(s) BY <2>1, <2>3, <3>1, <3>2
    <3>3. CASE j \in 1..Len(t) BY <1>3, <2>3, <2>5, <3>1, <3>3 DEF Rising
    <3> QED BY <2>2, <3>2, <3>3
  <2> QED BY <2>4, <2>5 DEF Rising
<1> QED BY <1>1, <1>2, <1>3

\* What the scrollback keeps of a, when n is added to it.
KeptOf(b, a, n) ==
    /\ Len(b) >= 1 /\ Len(b) <= Len(a) + 1 /\ b[Len(b)] = n
    /\ \A i \in 1..(Len(b) - 1) : b[i] = a[((Len(a) + 1) - Len(b)) + i]

LEMMA ScrolledKeeps ==
    ASSUME NEW a \in Seq(Nat), NEW n \in Nat, NEW long \in BOOLEAN
    PROVE  /\ Scrolled(a, n, long) \in Seq(Nat) /\ KeptOf(Scrolled(a, n, long), a, n)
           /\ Len(a) <= Keep => Len(Scrolled(a, n, long)) <= Keep
<1>1. KeptOf(<<n>>, a, n) /\ Len(<<n>>) <= Keep BY StreamAssumption DEF KeptOf
<1>2. KeptOf(Append(a, n), a, n) /\ Len(Append(a, n)) = Len(a) + 1 BY DEF KeptOf
<1>3. ASSUME a # << >>
      PROVE  KeptOf(Append(Tail(a), n), a, n) /\ Len(Append(Tail(a), n)) = Len(a)
             /\ Append(Tail(a), n) \in Seq(Nat)
  <2>1. Len(a) \in Nat /\ Len(a) >= 1 BY <1>3
  <2>2. Tail(a) \in Seq(Nat) /\ Len(Tail(a)) = Len(a) - 1 BY <1>3
  <2>3. \A i \in 1..(Len(a) - 1) : Tail(a)[i] = a[i + 1] BY <1>3
  <2> QED BY <2>1, <2>2, <2>3 DEF KeptOf
<1>4. CASE long \/ Len(a) < Keep BY <1>1, <1>2, <1>4, StreamAssumption DEF Scrolled
<1>5. CASE ~long /\ ~(Len(a) < Keep)
  <2>1. a # << >> BY <1>5, StreamAssumption
  <2> QED BY <1>3, <1>5, <2>1 DEF Scrolled
<1> QED BY <1>4, <1>5

\* The scrollback stays a suffix of what the pane shows.
LEMMA SuffixKept ==
    ASSUME NEW a \in Seq(Nat), NEW s \in Seq(Nat), NEW t \in Seq(Nat), EndsWith(a, t), Same(s, t)
    PROVE  EndsWith(a, s)
<1>1. Len(a) \in Nat /\ Len(s) = Len(t) /\ Len(t) \in Nat /\ Len(a) <= Len(t)
  BY DEF EndsWith, Same
<1>2. ASSUME NEW i \in 1..Len(a) PROVE a[i] = s[(Len(s) - Len(a)) + i]
  <2>1. (Len(t) - Len(a)) + i \in 1..Len(t) BY <1>1
  <2> QED BY <1>1, <2>1 DEF EndsWith, Same
<1> QED BY <1>1, <1>2 DEF EndsWith

LEMMA SuffixGrows ==
    ASSUME NEW a \in Seq(Nat), NEW s \in Seq(Nat), NEW t \in Seq(Nat), NEW n \in Nat,
           NEW b \in Seq(Nat), EndsWith(a, t), Grown(s, t, n), KeptOf(b, a, n)
    PROVE  EndsWith(b, s)
<1>1. /\ Len(a) \in Nat /\ Len(s) \in Nat /\ Len(t) \in Nat /\ Len(b) \in Nat
      /\ Len(s) = Len(t) + 1 /\ Len(a) <= Len(t) /\ s[Len(s)] = n
      /\ Len(b) >= 1 /\ Len(b) <= Len(a) + 1 /\ b[Len(b)] = n
  BY DEF EndsWith, Grown, KeptOf
<1>2. ASSUME NEW i \in 1..Len(b) PROVE b[i] = s[(Len(s) - Len(b)) + i]
  <2>1. CASE i = Len(b)
    <3>1. (Len(s) - Len(b)) + i = Len(s) BY <1>1, <2>1
    <3> QED BY <1>1, <2>1, <3>1
  <2>2. CASE i # Len(b)
    <3>1. PICK la \in Nat, lb \in Nat, ls \in Nat, lt \in Nat :
            la = Len(a) /\ lb = Len(b) /\ ls = Len(s) /\ lt = Len(t)
      BY <1>1
    <3>2. /\ i \in Nat /\ i >= 1 /\ i <= lb - 1 /\ lb >= 1 /\ lb <= la + 1 /\ ls = lt + 1
          /\ la <= lt
      BY <1>1, <2>2, <3>1
    <3> PICK j : j = ((la + 1) - lb) + i OBVIOUS
    <3>3. /\ j \in 1..la /\ i \in 1..(lb - 1) /\ (lt - la) + j \in 1..lt
          /\ (lt - la) + j = (ls - lb) + i
      BY <3>2
    <3>4. b[i] = a[j] BY <3>1, <3>3 DEF KeptOf
    <3>5. a[j] = t[(lt - la) + j] BY <3>1, <3>3 DEF EndsWith
    <3>6. s[(lt - la) + j] = t[(lt - la) + j] BY <3>1, <3>3 DEF Grown
    <3> QED BY <3>1, <3>3, <3>4, <3>5, <3>6

  <2> QED BY <2>1, <2>2
<1> QED BY <1>1, <1>2 DEF EndsWith

\* The kinds of the messages of a queue, and the chunks among them.
LEMMA MessageParts ==
    ASSUME NEW q \in Seq(Message)
    PROVE  /\ Len(q) \in Nat
           /\ \A i \in 1..Len(q) : /\ q[i] \in Message /\ q[i].data \in Seq(Nat)
                                   /\ q[i].kind \in {"open", "close", "history", "output"}
<1>1. \A i \in 1..Len(q) : q[i] \in Message OBVIOUS
<1> QED BY <1>1 DEF Message

LEMMA OrderlyParts ==
    ASSUME NEW q \in Seq(Message), NEW live \in BOOLEAN, Orderly(q, live)
    PROVE  /\ LeadOf(q) \in Nat /\ EndOf(q) \in Nat /\ LeadOf(q) <= EndOf(q) /\ EndOf(q) <= Len(q)
           /\ live = TRUE => EndOf(q) = Len(q)
           /\ \A i \in 1..(EndOf(q) - LeadOf(q)) :
                /\ LeadOf(q) + i \in 1..Len(q) /\ q[LeadOf(q) + i].kind = "output"
                /\ q[LeadOf(q) + i].data[1] \in Nat
                /\ q[LeadOf(q) + i].data = <<q[LeadOf(q) + i].data[1]>>
<1>1. /\ Len(q) \in Nat
      /\ \A i \in 1..Len(q) : /\ q[i].kind \in {"open", "close", "history", "output"}
                              /\ q[i].data \in Seq(Nat)
  BY MessageParts
<1>2. LeadOf(q) \in {0, 1, 2, 3} /\ EndOf(q) \in Nat /\ EndOf(q) <= Len(q)
  BY <1>1 DEF LeadOf, EndOf
<1>3. live = TRUE => EndOf(q) = Len(q) BY <1>1 DEF EndOf, Orderly
<1>4. LeadOf(q) <= EndOf(q)
  <2>1. LeadOf(q) > 0 => LeadOf(q) <= Len(q) /\ q[LeadOf(q)].kind # "close"
    BY <1>1 DEF LeadOf, HistoryAt
  <2>2. CASE LeadOf(q) = Len(q) /\ LeadOf(q) > 0 BY <1>1, <2>1, <2>2 DEF EndOf
  <2>3. CASE LeadOf(q) # Len(q) \/ LeadOf(q) = 0
    <3>1. LeadOf(q) = 0 \/ LeadOf(q) <= Len(q) - 1 BY <1>1, <1>2, <2>1, <2>3
    <3>2. EndOf(q) >= Len(q) - 1 BY <1>1 DEF EndOf
    <3> QED BY <1>1, <1>2, <3>1, <3>2
  <2> QED BY <1>2, <2>2, <2>3
<1>5. ASSUME NEW i \in 1..(EndOf(q) - LeadOf(q))
      PROVE  /\ LeadOf(q) + i \in 1..Len(q) /\ q[LeadOf(q) + i].kind = "output"
             /\ q[LeadOf(q) + i].data[1] \in Nat
             /\ q[LeadOf(q) + i].data = <<q[LeadOf(q) + i].data[1]>>
  <2>1. PICK k \in 1..Len(q) : k = LeadOf(q) + i BY <1>1, <1>2
  <2>2. q[k].kind # "open" /\ q[k].kind # "history"
    <3>1. k > LeadOf(q) /\ k \in Nat BY <1>2, <2>1
    <3>2. ASSUME q[k].kind = "open" PROVE FALSE
      <4>1. k = 1 BY <3>2 DEF Orderly
      <4> QED BY <1>1, <3>1, <3>2, <4>1 DEF LeadOf
    <3>3. ASSUME q[k].kind = "history" PROVE FALSE
      <4>1. k = 1 \/ k = 2 \/ k = 3 BY <3>3 DEF Orderly, MayFollow
      <4>2. Len(q) >= k /\ HistoryAt(q, k) BY <1>1, <3>3 DEF HistoryAt
      <4> QED BY <1>1, <3>1, <3>3, <4>1, <4>2 DEF LeadOf
    <3> QED BY <3>2, <3>3
  <2>3. q[k].kind # "close"
    <3>1. k <= EndOf(q) BY <1>2, <2>1
    <3> QED BY <1>1, <3>1 DEF Orderly, EndOf
  <2>4. q[k].kind = "output" BY <1>1, <2>2, <2>3
  <2>5. Len(q[k].data) = 1 /\ q[k].data \in Seq(Nat) BY <1>1, <2>4 DEF Orderly
  <2>6. q[k].data = <<q[k].data[1]>> /\ q[k].data[1] \in Nat BY <2>5
  <2> QED BY <2>1, <2>4, <2>6
<1> QED BY <1>1, <1>2, <1>3, <1>4, <1>5

LEMMA NumbersInARow ==
    ASSUME NEW m \in Nat, NEW f \in [1..m -> Nat] PROVE f \in Seq(Nat) /\ Len(f) = m
OBVIOUS

\* What is to be shown, number by number.
LEMMA ToShowElements ==
    ASSUME NEW q \in Seq(Message), NEW live \in BOOLEAN, Orderly(q, live), NEW shown \in Seq(Nat)
    PROVE  /\ BaseOf(q, shown) \in Seq(Nat) /\ ToShow(q, shown) \in Seq(Nat)
           /\ Len(ToShow(q, shown)) = Len(BaseOf(q, shown)) + (EndOf(q) - LeadOf(q))
           /\ \A i \in 1..Len(BaseOf(q, shown)) : ToShow(q, shown)[i] = BaseOf(q, shown)[i]
           /\ \A i \in 1..(EndOf(q) - LeadOf(q)) :
                ToShow(q, shown)[Len(BaseOf(q, shown)) + i] = q[LeadOf(q) + i].data[1]
<1>1. /\ LeadOf(q) \in Nat /\ EndOf(q) \in Nat /\ LeadOf(q) <= EndOf(q) /\ EndOf(q) <= Len(q)
      /\ \A i \in 1..(EndOf(q) - LeadOf(q)) : q[LeadOf(q) + i].data[1] \in Nat
  BY OrderlyParts
<1> PICK m \in Nat : m = EndOf(q) - LeadOf(q) BY <1>1
<1>2. PICK b : b = BaseOf(q, shown) OBVIOUS
<1>3. b \in Seq(Nat)
  <2>1. LeadOf(q) \in 1..Len(q) => q[LeadOf(q)].data \in Seq(Nat) BY MessageParts
  <2>2. LeadOf(q) > 0 => LeadOf(q) \in 1..Len(q)
    <3>1. Len(q) \in Nat BY MessageParts
    <3> QED BY <1>1, <3>1
  <2> QED BY <1>2, <2>1, <2>2 DEF BaseOf
<1>4. PICK c : c \in Seq(Nat) /\ Len(c) = m /\ c = ChunksOf(q)
               /\ \A i \in 1..m : c[i] = q[LeadOf(q) + i].data[1]
  <2>1. ChunksOf(q) = [i \in 1..m |-> q[LeadOf(q) + i].data[1]] BY DEF ChunksOf
  <2>2. ChunksOf(q) \in [1..m -> Nat] BY <1>1, <2>1
  <2>3. ChunksOf(q) \in Seq(Nat) /\ Len(ChunksOf(q)) = m BY <2>2, NumbersInARow
  <2> QED BY <2>1, <2>3
<1>5. PICK r : r = ToShow(q, shown) OBVIOUS
<1>6. Joined(r, b, c) BY <1>2, <1>4, <1>5 DEF Joined, ToShow
<1>7. /\ r \in Seq(Nat) /\ Len(r) = Len(b) + Len(c)
      /\ \A j \in 1..Len(b) : r[j] = b[j]
      /\ \A j \in 1..Len(c) : r[Len(b) + j] = c[j]
  BY <1>3, <1>4, <1>6, JoinedElements
<1>8. \A i \in 1..m : r[Len(b) + i] = q[LeadOf(q) + i].data[1] BY <1>4, <1>7
<1> QED BY <1>2, <1>3, <1>4, <1>5, <1>7, <1>8

\* What is to be shown is n numbers of the base and k chunks.
ShownAs(q, shown, t, k, n) ==
    /\ LeadOf(q) + k = EndOf(q) /\ n = Len(BaseOf(q, shown)) /\ Len(t) = n + k
    /\ \A i \in 1..n : t[i] = BaseOf(q, shown)[i]
    /\ \A i \in 1..k : t[n + i] = q[LeadOf(q) + i].data[1]

LEMMA ShownParts ==
    ASSUME NEW q \in Seq(Message), NEW live \in BOOLEAN, Orderly(q, live), NEW shown \in Seq(Nat)
    PROVE  \E k \in Nat, n \in Nat : ShownAs(q, shown, ToShow(q, shown), k, n)
<1>1. LeadOf(q) \in Nat /\ EndOf(q) \in Nat /\ LeadOf(q) <= EndOf(q) BY OrderlyParts
<1>2. PICK l \in Nat, e \in Nat : l = LeadOf(q) /\ e = EndOf(q) /\ l <= e BY <1>1
<1>3. e - l \in Nat /\ l + (e - l) = e BY <1>2
<1>4. PICK k \in Nat : k = e - l BY <1>3
<1>5. BaseOf(q, shown) \in Seq(Nat) BY ToShowElements
<1>6. PICK n \in Nat : n = Len(BaseOf(q, shown)) BY <1>5
<1>7. ShownAs(q, shown, ToShow(q, shown), k, n)
  BY <1>2, <1>3, <1>4, <1>6, ToShowElements DEF ShownAs
<1> QED BY <1>7

LEMMA InTwoParts ==
    ASSUME NEW n \in Nat, NEW k \in Nat, NEW i \in 1..(n + k)
    PROVE  i \in 1..n \/ \E j \in 1..k : i = n + j
<1>1. CASE i <= n BY <1>1
<1>2. CASE i > n
  <2>1. i - n \in 1..k /\ i = n + (i - n) BY <1>2
  <2> QED BY <2>1
<1> QED BY <1>1, <1>2

\* A chunk that is sent is shown last, and a close event is not shown.
LEMMA PushedAt ==
    ASSUME NEW q \in Seq(Message), NEW m \in Message
    PROVE  /\ Append(q, m) \in Seq(Message) /\ Len(Append(q, m)) = Len(q) + 1
           /\ \A i \in 1..Len(q) : Append(q, m)[i] = q[i]
           /\ Append(q, m)[Len(q) + 1] = m
OBVIOUS

\* It is no history, and what came before it stays where it was.
LEMMA PushedHistory ==
    ASSUME NEW q \in Seq(Message), NEW m \in Message, m.kind \in {"output", "close"},
           NEW r, r = Append(q, m)
    PROVE  /\ HistoryAt(r, 2) = HistoryAt(q, 2) /\ HistoryAt(r, 3) = HistoryAt(q, 3)
           /\ \A i \in 1..Len(q) : MayFollow(q, i) => MayFollow(r, i)
           /\ \A i \in {1, 2} : HistoryAt(q, i + 1) => r[i] = q[i]
<1>1. /\ Len(r) = Len(q) + 1 /\ \A i \in 1..Len(q) : r[i] = q[i]
      /\ r[Len(q) + 1] = m
  BY PushedAt
<1>2. Len(q) \in Nat BY MessageParts
<1>3. ASSUME NEW i \in {2, 3} PROVE HistoryAt(r, i) = HistoryAt(q, i)
  <2>1. CASE i <= Len(q)
    <3>1. i \in 1..Len(q) /\ i <= Len(r) BY <1>1, <1>2, <2>1
    <3> QED BY <1>1, <2>1, <3>1 DEF HistoryAt
  <2>2. CASE i = Len(q) + 1 BY <1>1, <1>2, <2>2 DEF HistoryAt
  <2>3. CASE i > Len(q) + 1 BY <1>1, <1>2, <2>3 DEF HistoryAt
  <2> QED BY <1>2, <2>1, <2>2, <2>3
<1>4. ASSUME NEW i \in 1..Len(q), MayFollow(q, i) PROVE MayFollow(r, i)
  <2>1. \A j \in {1, 2} : j <= i => r[j] = q[j]
    <3>1. \A j \in {1, 2} : j <= i => j \in 1..Len(q) BY <1>2
    <3> QED BY <1>1, <3>1
  <2> QED BY <1>4, <2>1 DEF MayFollow
<1>5. ASSUME NEW i \in {1, 2}, HistoryAt(q, i + 1) PROVE r[i] = q[i]
  <2>1. i \in 1..Len(q) BY <1>2, <1>5 DEF HistoryAt
  <2> QED BY <1>1, <2>1
<1> QED BY <1>3, <1>4, <1>5

LEMMA NoBanner ==
    ASSUME NEW q, NEW shown, NEW n, ~HistoryAt(q, 2), ~HistoryAt(q, 3)
    PROVE  BannerIsNew(q, shown, n)
<1>1. \A i \in {1, 2} : i + 1 = 2 \/ i + 1 = 3 OBVIOUS
<1> QED BY <1>1 DEF BannerIsNew

LEMMA BannerStays ==
    ASSUME NEW q, NEW shown, NEW n \in Nat, NEW n1 \in Nat, BannerIsNew(q, shown, n), n <= n1
    PROVE  BannerIsNew(q, shown, n1)
<1>1. \A k \in 0..n : k \in 0..n1 OBVIOUS
<1> QED BY <1>1 DEF BannerIsNew

\* The banner is as new as it was.
LEMMA PushedBanner ==
    ASSUME NEW q \in Seq(Message), NEW m \in Message, m.kind \in {"output", "close"},
           NEW r, r = Append(q, m), NEW shown \in Seq(Nat), NEW n \in Nat, NEW n1 \in Nat,
           BannerIsNew(q, shown, n), n <= n1
    PROVE  BannerIsNew(r, shown, n1)
<1> SUFFICES ASSUME NEW i \in {1, 2}, HistoryAt(r, i + 1), r[i].kind = "output"
             PROVE  /\ r[i].data[1] \in 0..n1
                    /\ \A j \in 1..Len(shown) : shown[j] < r[i].data[1]
  BY DEF BannerIsNew
<1>4. /\ HistoryAt(r, 2) = HistoryAt(q, 2) /\ HistoryAt(r, 3) = HistoryAt(q, 3)
      /\ \A j \in {1, 2} : HistoryAt(q, j + 1) => r[j] = q[j]
  <2>1. m.kind \in {"output", "close"} /\ r = Append(q, m) OBVIOUS
  <2>2. HistoryAt(r, 2) = HistoryAt(q, 2) /\ HistoryAt(r, 3) = HistoryAt(q, 3)
    BY <2>1, PushedHistory
  <2>3. \A j \in {1, 2} : HistoryAt(q, j + 1) => r[j] = q[j] BY <2>1, PushedHistory
  <2> QED BY <2>2, <2>3
<1>1. HistoryAt(q, i + 1)
  <2>1. i + 1 = 2 \/ i + 1 = 3 OBVIOUS
  <2> QED BY <1>4, <2>1
<1>2. r[i] = q[i] BY <1>1, <1>4
<1>3. q[i].data[1] \in 0..n /\ \A j \in 1..Len(shown) : shown[j] < q[i].data[1]
  BY <1>1, <1>2 DEF BannerIsNew
<1> QED BY <1>2, <1>3

LEMMA PushedLead ==
    ASSUME NEW q \in Seq(Message), NEW m \in Message, m.kind \in {"output", "close"},
           NEW r, r = Append(q, m), NEW shown
    PROVE  LeadOf(r) = LeadOf(q) /\ BaseOf(r, shown) = BaseOf(q, shown)
<1>2. /\ Len(r) = Len(q) + 1 /\ \A i \in 1..Len(q) : r[i] = q[i]
      /\ r[Len(q) + 1] = m
  BY PushedAt
<1>3. Len(q) \in Nat BY MessageParts
<1>1. m.kind \in {"output", "close"} OBVIOUS
<1>6. LeadOf(r) = LeadOf(q)
  <2>1. HistoryAt(r, 2) = HistoryAt(q, 2) /\ HistoryAt(r, 3) = HistoryAt(q, 3)
    BY <1>1, <1>2, <1>3, PushedHistory
  <2>2. (Len(r) > 0 /\ r[1].kind \in {"open", "history"})
          = (Len(q) > 0 /\ q[1].kind \in {"open", "history"})
    <3>1. CASE Len(q) = 0 BY <1>1, <1>2, <3>1
    <3>2. CASE Len(q) > 0
      <4>1. 1 \in 1..Len(q) BY <1>3, <3>2
      <4> QED BY <1>2, <1>3, <3>2, <4>1
    <3> QED BY <1>3, <3>1, <3>2
  <2> QED BY <2>1, <2>2 DEF LeadOf
<1>7. LeadOf(q) > 0 => LeadOf(q) \in 1..Len(q) BY <1>3 DEF LeadOf, HistoryAt
<1>8. BaseOf(r, shown) = BaseOf(q, shown) BY <1>2, <1>6, <1>7 DEF BaseOf
<1> QED BY <1>6, <1>8

LEMMA PushChunk ==
    ASSUME NEW q \in Seq(Message), Orderly(q, TRUE), NEW shown \in Seq(Nat), NEW n \in Nat
    PROVE  /\ Append(q, Chunk(n)) \in Seq(Message) /\ Orderly(Append(q, Chunk(n)), TRUE)
           /\ Grown(ToShow(Append(q, Chunk(n)), shown), ToShow(q, shown), n)
           /\ \A n0 \in Nat : n0 <= n /\ BannerIsNew(q, shown, n0) =>
                BannerIsNew(Append(q, Chunk(n)), shown, n)
<1>1. PICK m \in Message : m = Chunk(n) /\ m.kind = "output" /\ Len(m.data) = 1 /\ m.data[1] = n
  <2>1. Chunk(n) \in Message BY DEF Chunk, Message
  <2> QED BY <2>1 DEF Chunk
<1>2. PICK r : /\ r = Append(q, m) /\ r \in Seq(Message) /\ Len(r) = Len(q) + 1
               /\ \A i \in 1..Len(q) : r[i] = q[i]
               /\ r[Len(q) + 1] = m
  BY PushedAt
<1>3. Len(q) \in Nat BY MessageParts
<1>4. \A i \in 1..Len(r) : i \in 1..Len(q) \/ i = Len(q) + 1 BY <1>2, <1>3
<1>5. Orderly(r, TRUE)
  <2> SUFFICES ASSUME NEW i \in 1..Len(r)
               PROVE  /\ r[i].kind = "open" => i = 1
                      /\ r[i].kind = "history" => MayFollow(r, i)
                      /\ r[i].kind # "close"
                      /\ r[i].kind = "output" => Len(r[i].data) = 1
    BY DEF Orderly
  <2>1. CASE i = Len(q) + 1 BY <1>1, <1>2, <2>1
  <2>2. CASE i \in 1..Len(q)
    <3>1. MayFollow(q, i) => MayFollow(r, i) BY <1>1, <1>2, <2>2, PushedHistory
    <3> QED BY <1>2, <2>2, <3>1 DEF Orderly
  <2> QED BY <1>4, <2>1, <2>2
<1>6. LeadOf(r) = LeadOf(q) /\ BaseOf(r, shown) = BaseOf(q, shown)
  BY <1>1, <1>2, PushedLead
<1>7. EndOf(q) = Len(q) /\ EndOf(r) = Len(r) BY <1>2, <1>5, OrderlyParts
<1>8. LeadOf(q) \in Nat /\ LeadOf(q) <= Len(q) BY <1>7, OrderlyParts
<1>10. PICK s, t : s = ToShow(r, shown) /\ t = ToShow(q, shown) OBVIOUS
<1>11. PICK k \in Nat, n0 \in Nat : ShownAs(q, shown, t, k, n0) BY <1>10, ShownParts
<1>12. PICK k1 \in Nat, n1 \in Nat : ShownAs(r, shown, s, k1, n1)
  BY <1>2, <1>5, <1>10, ShownParts
<1>13. n1 = n0 /\ k1 = k + 1 /\ LeadOf(q) + k = Len(q)
  BY <1>2, <1>3, <1>6, <1>7, <1>8, <1>11, <1>12 DEF ShownAs
<1>14. PICK l \in Nat : l = LeadOf(q) BY <1>8
<1>15. ASSUME NEW i \in 1..k PROVE s[n0 + i] = t[n0 + i]
  <2>1. l + i \in 1..Len(q) /\ i \in 1..k1 BY <1>13, <1>14
  <2> QED BY <1>2, <1>6, <1>11, <1>12, <1>13, <1>14, <2>1 DEF ShownAs
<1>16. s[n0 + (k + 1)] = n
  <2>1. k + 1 \in 1..k1 /\ l + (k + 1) = Len(q) + 1 BY <1>13, <1>14
  <2> QED BY <1>1, <1>2, <1>6, <1>12, <1>13, <1>14, <2>1 DEF ShownAs
<1>17. \A i \in 1..n0 : s[i] = t[i] BY <1>6, <1>11, <1>12, <1>13 DEF ShownAs
<1>18. Len(t) = n0 + k /\ Len(s) = n0 + (k + 1) BY <1>11, <1>12, <1>13 DEF ShownAs
<1>19. Grown(s, t, n)
  <2>1. Len(s) = Len(t) + 1 /\ s[Len(s)] = n BY <1>16, <1>18
  <2>2. ASSUME NEW i \in 1..Len(t) PROVE s[i] = t[i]
    <3>1. i \in 1..n0 \/ \E j \in 1..k : i = n0 + j BY <1>18, InTwoParts
    <3> QED BY <1>15, <1>17, <3>1
  <2> QED BY <2>1, <2>2 DEF Grown
<1>20. \A j \in Nat : j <= n /\ BannerIsNew(q, shown, j) => BannerIsNew(r, shown, n)
  <2> TAKE j \in Nat
  <2> HAVE j <= n /\ BannerIsNew(q, shown, j)
  <2> QED BY <1>1, <1>2, PushedBanner
<1> QED BY <1>1, <1>2, <1>5, <1>10, <1>19, <1>20

\* What is shown of two queues is the same when their bases and chunks are.
LEMMA ShownTheSame ==
    ASSUME NEW q, NEW r, NEW shown, NEW after, NEW t, NEW s, NEW k \in Nat, NEW n \in Nat,
           ShownAs(q, shown, t, k, n), ShownAs(r, after, s, k, n),
           BaseOf(r, after) = BaseOf(q, shown),
           \A i \in 1..k : r[LeadOf(r) + i] = q[LeadOf(q) + i]
    PROVE  Same(s, t)
<1>1. Len(s) = n + k /\ Len(t) = n + k BY DEF ShownAs
<1>2. ASSUME NEW i \in 1..(n + k) PROVE s[i] = t[i]
  <2>1. i \in 1..n \/ \E j \in 1..k : i = n + j BY InTwoParts
  <2>2. \A j \in 1..n : s[j] = t[j] BY DEF ShownAs
  <2>3. ASSUME NEW j \in 1..k PROVE s[n + j] = t[n + j]
    <3>1. s[n + j] = r[LeadOf(r) + j].data[1] /\ t[n + j] = q[LeadOf(q) + j].data[1]
      BY DEF ShownAs
    <3>2. r[LeadOf(r) + j] = q[LeadOf(q) + j] OBVIOUS
    <3> QED BY <3>1, <3>2, Zenon
  <2> QED BY <2>1, <2>2, <2>3
<1> QED BY <1>1, <1>2 DEF Same

LEMMA PushClose ==
    ASSUME NEW q \in Seq(Message), Orderly(q, TRUE), NEW shown \in Seq(Nat)
    PROVE  /\ Append(q, Closed) \in Seq(Message) /\ Orderly(Append(q, Closed), FALSE)
           /\ Same(ToShow(Append(q, Closed), shown), ToShow(q, shown))
           /\ \A n \in Nat : BannerIsNew(q, shown, n) => BannerIsNew(Append(q, Closed), shown, n)
<1>1. PICK m \in Message : m = Closed /\ m.kind = "close" /\ m.kind \in {"output", "close"}
  <2>1. Closed \in Message BY DEF Closed, Message
  <2> QED BY <2>1 DEF Closed
<1>2. PICK r : /\ r = Append(q, m) /\ r \in Seq(Message) /\ Len(r) = Len(q) + 1
               /\ \A i \in 1..Len(q) : r[i] = q[i]
               /\ r[Len(q) + 1] = m
  BY PushedAt
<1>3. Len(q) \in Nat BY MessageParts
<1>4. \A i \in 1..Len(r) : i \in 1..Len(q) \/ i = Len(q) + 1 BY <1>2, <1>3
<1>5. Orderly(r, FALSE)
  <2> SUFFICES ASSUME NEW i \in 1..Len(r)
               PROVE  /\ r[i].kind = "open" => i = 1
                      /\ r[i].kind = "history" => MayFollow(r, i)
                      /\ r[i].kind = "close" => i = Len(r)
                      /\ r[i].kind = "output" => Len(r[i].data) = 1
    BY DEF Orderly
  <2>1. CASE i = Len(q) + 1 BY <1>1, <1>2, <2>1
  <2>2. CASE i \in 1..Len(q)
    <3>1. MayFollow(q, i) => MayFollow(r, i) BY <1>1, <1>2, <2>2, PushedHistory
    <3> QED BY <1>2, <2>2, <3>1 DEF Orderly
  <2> QED BY <1>4, <2>1, <2>2
<1>6. LeadOf(r) = LeadOf(q) /\ BaseOf(r, shown) = BaseOf(q, shown)
  <2>1. m.kind \in {"output", "close"} /\ r = Append(q, m) BY <1>1, <1>2
  <2> QED BY <2>1, PushedLead, Zenon
<1>7. EndOf(q) = Len(q) BY OrderlyParts
<1>8. EndOf(r) = Len(q) BY <1>1, <1>2, <1>3 DEF EndOf
<1>9. LeadOf(q) \in Nat /\ LeadOf(q) <= Len(q) BY <1>7, OrderlyParts
<1>10. PICK s, t : s = ToShow(r, shown) /\ t = ToShow(q, shown) OBVIOUS
<1>11. PICK k \in Nat, n \in Nat : ShownAs(q, shown, t, k, n) BY <1>10, ShownParts
<1>12. PICK k1 \in Nat, n1 \in Nat : ShownAs(r, shown, s, k1, n1)
  BY <1>2, <1>5, <1>10, ShownParts
<1>13. PICK l \in Nat : l = LeadOf(q) /\ l + k = Len(q) /\ n1 = n /\ k1 = k
  BY <1>3, <1>6, <1>7, <1>8, <1>9, <1>11, <1>12 DEF ShownAs
<1>14. ASSUME NEW i \in 1..k PROVE r[LeadOf(r) + i] = q[LeadOf(q) + i]
  <2>1. l + i \in 1..Len(q) BY <1>13
  <2> QED BY <1>2, <1>6, <1>13, <2>1
<1>15. Same(s, t) BY <1>6, <1>11, <1>12, <1>13, <1>14, ShownTheSame
<1>16. \A j \in Nat : BannerIsNew(q, shown, j) => BannerIsNew(r, shown, j)
  <2> TAKE j \in Nat
  <2> HAVE BannerIsNew(q, shown, j)
  <2>1. j <= j OBVIOUS
  <2> QED BY <1>1, <1>2, <2>1, PushedBanner
<1> QED BY <1>1, <1>2, <1>5, <1>10, <1>15, <1>16

\* The queue after its first message was received.
Popped(r, q) == Len(q) = Len(r) + 1 /\ \A i \in 1..Len(r) : r[i] = q[i + 1]

LEMMA TailPopped ==
    ASSUME NEW q \in Seq(Message), q # << >>
    PROVE  Tail(q) \in Seq(Message) /\ Popped(Tail(q), q) /\ Len(q) >= 1
<1>1. Len(q) \in Nat /\ Len(q) >= 1 OBVIOUS
<1>2. Tail(q) \in Seq(Message) /\ Len(Tail(q)) = Len(q) - 1 OBVIOUS
<1>3. \A i \in 1..Len(Tail(q)) : Tail(q)[i] = q[i + 1] OBVIOUS
<1> QED BY <1>1, <1>2, <1>3 DEF Popped

\* The first message is the banner that comes before the history.
BeforeHistory(q) == HistoryAt(q, 2) /\ q[1].kind = "output"

LEMMA PopOrderly ==
    ASSUME NEW q \in Seq(Message), NEW r \in Seq(Message), NEW live \in BOOLEAN,
           Orderly(q, live), Popped(r, q)
    PROVE  /\ Orderly(r, live)
           /\ q[1].kind = "open" => LeadOf(q) = LeadOf(r) + 1
           /\ q[1].kind \in {"history", "close"} => LeadOf(r) = 0
           /\ q[1].kind = "history" => LeadOf(q) = 1
           /\ q[1].kind = "close" => LeadOf(q) = 0
           /\ BeforeHistory(q) => LeadOf(q) = 2 /\ LeadOf(r) = 1
           /\ q[1].kind = "output" /\ ~BeforeHistory(q) => LeadOf(q) = 0 /\ LeadOf(r) = 0
           /\ q[1].kind = "close" => Len(r) = 0 /\ EndOf(q) = 0 /\ EndOf(r) = 0 /\ live = FALSE
           /\ q[1].kind # "close" => EndOf(q) = EndOf(r) + 1
<1>1. PICK m \in Nat : m = Len(r) /\ Len(q) = m + 1 BY MessageParts DEF Popped
<1>2. \A i \in 1..m : r[i] = q[i + 1] /\ i + 1 \in 1..Len(q) BY <1>1 DEF Popped
<1>3. 1 \in 1..Len(q) /\ q[1].kind \in {"open", "close", "history", "output"}
  BY <1>1, MessageParts
<1>4. ASSUME NEW i \in 1..m
      PROVE  /\ r[i].kind # "open"
             /\ r[i].kind = "history" => MayFollow(q, i + 1)
             /\ r[i].kind = "close" => i = m /\ live = FALSE
             /\ r[i].kind = "output" => Len(r[i].data) = 1
  <2>1. i + 1 # 1 /\ (i + 1 = Len(q) => i = m) BY <1>1
  <2> QED BY <1>2, <2>1 DEF Orderly
<1>13. ASSUME NEW i \in 1..m, r[i].kind = "history"
       PROVE  /\ MayFollow(r, i) /\ (i = 1 => q[1].kind \in {"open", "output"})
              /\ i = 1 \/ (i = 2 /\ q[1].kind = "open" /\ q[2].kind = "output")
  <2>3. MayFollow(q, i + 1) BY <1>4, <1>13
  <2>4. i \in Nat /\ i >= 1 OBVIOUS
  <2>1. \/ i = 1 /\ q[1].kind \in {"open", "output"}
        \/ i = 2 /\ q[1].kind = "open" /\ q[2].kind = "output"
    BY <2>3, <2>4 DEF MayFollow
  <2>2. i = 2 => 1 \in 1..m /\ r[1] = q[2]
    <3>1. i = 2 => 1 \in 1..m /\ 1 + 1 = 2 OBVIOUS
    <3> QED BY <1>2, <3>1
  <2> QED BY <2>1, <2>2 DEF MayFollow
<1>5. Orderly(r, live) BY <1>1, <1>4, <1>13 DEF Orderly
<1>14. HistoryAt(r, 1) = HistoryAt(q, 2) /\ HistoryAt(r, 2) = HistoryAt(q, 3) /\ ~HistoryAt(r, 3)
  <2>1. \A i \in {1, 2} : i <= m => r[i] = q[i + 1] BY <1>2
  <2>2. 1 + 1 = 2 /\ 2 + 1 = 3 OBVIOUS
  <2>3. HistoryAt(r, 1) = HistoryAt(q, 2) /\ HistoryAt(r, 2) = HistoryAt(q, 3)
    BY <1>1, <2>1, <2>2 DEF HistoryAt
  <2>4. ASSUME HistoryAt(r, 3) PROVE FALSE
    <3>1. 3 \in 1..m /\ r[3].kind = "history" BY <1>1, <2>4 DEF HistoryAt
    <3> QED BY <1>13, <3>1
  <2> QED BY <2>3, <2>4
<1>6. m = 0 \/ (m \in Nat /\ m >= 1 /\ 1 \in 1..m) OBVIOUS
<1>7. m >= 1 => r[1] = q[2] /\ r[1].kind # "open"
  <2>1. m >= 1 => 1 \in 1..m /\ 1 + 1 = 2 OBVIOUS
  <2> QED BY <1>2, <1>4, <2>1
<1>15. /\ LeadOf(r) = IF HistoryAt(q, 3) THEN 2 ELSE IF HistoryAt(q, 2) THEN 1 ELSE 0
       /\ LeadOf(q) = IF HistoryAt(q, 3) THEN 3 ELSE IF HistoryAt(q, 2) THEN 2
                      ELSE IF q[1].kind \in {"open", "history"} THEN 1 ELSE 0
  <2>1. (m > 0 /\ r[1].kind \in {"open", "history"}) = HistoryAt(q, 2)
    BY <1>1, <1>7, <1>14 DEF HistoryAt
  <2>2. Len(q) > 0 BY <1>1
  <2> QED BY <1>1, <1>14, <2>1, <2>2 DEF LeadOf
<1>16. /\ HistoryAt(q, 2) => q[1].kind \in {"open", "output"}
       /\ HistoryAt(q, 3) => q[1].kind = "open"
  <2>1. HistoryAt(r, 1) => q[1].kind \in {"open", "output"}
    <3>1. HistoryAt(r, 1) => 1 \in 1..m /\ r[1].kind = "history" BY <1>1 DEF HistoryAt
    <3> QED BY <1>13, <3>1
  <2>2. HistoryAt(r, 2) => q[1].kind = "open"
    <3>1. HistoryAt(r, 2) => 2 \in 1..m /\ r[2].kind = "history" BY <1>1 DEF HistoryAt
    <3> QED BY <1>13, <3>1
  <2> QED BY <1>14, <2>1, <2>2
<1>8. q[1].kind = "open" => LeadOf(q) = LeadOf(r) + 1 BY <1>15
<1>9. q[1].kind \in {"history", "close"} => LeadOf(r) = 0 BY <1>15, <1>16
<1>10. /\ q[1].kind = "history" => LeadOf(q) = 1
       /\ q[1].kind = "close" => LeadOf(q) = 0
       /\ BeforeHistory(q) => LeadOf(q) = 2 /\ LeadOf(r) = 1
       /\ q[1].kind = "output" /\ ~BeforeHistory(q) => LeadOf(q) = 0 /\ LeadOf(r) = 0
  BY <1>15, <1>16 DEF BeforeHistory
<1>11. q[1].kind = "close" => Len(r) = 0 /\ EndOf(q) = 0 /\ EndOf(r) = 0 /\ live = FALSE
  <2> SUFFICES ASSUME q[1].kind = "close"
      PROVE m = 0 /\ EndOf(q) = 0 /\ EndOf(r) = 0 /\ live = FALSE
    BY <1>1
  <2>1. 1 = Len(q) /\ live = FALSE BY <1>3 DEF Orderly
  <2>2. m = 0 BY <1>1, <2>1
  <2> QED BY <1>1, <2>1, <2>2 DEF EndOf
<1>12. q[1].kind # "close" => EndOf(q) = EndOf(r) + 1
  <2> SUFFICES ASSUME q[1].kind # "close" PROVE EndOf(q) = EndOf(r) + 1 OBVIOUS
  <2>1. CASE m = 0 BY <1>1, <2>1 DEF EndOf
  <2>2. CASE m >= 1
    <3>1. m \in 1..m BY <2>2
    <3>2. r[m] = q[m + 1] BY <1>2, <3>1
    <3> QED BY <1>1, <2>2, <3>2 DEF EndOf
  <2> QED BY <1>6, <2>1, <2>2
<1> QED BY <1>5, <1>8, <1>9, <1>10, <1>11, <1>12

\* A message that is received changes what is shown, and not what is to be.
LEMMA PopBefore ==
    ASSUME NEW q \in Seq(Message), NEW r \in Seq(Message), NEW live \in BOOLEAN,
           Orderly(q, live), Popped(r, q), NEW shown \in Seq(Nat), NEW after \in Seq(Nat),
           \/ q[1].kind \in {"open", "close"} /\ after = shown
           \/ q[1].kind = "history" /\ after = q[1].data
           \/ BeforeHistory(q)
    PROVE  Same(ToShow(r, after), ToShow(q, shown))
<1>1. /\ Orderly(r, live)
      /\ q[1].kind = "open" => LeadOf(q) = LeadOf(r) + 1
      /\ BeforeHistory(q) => LeadOf(q) = 2 /\ LeadOf(r) = 1 /\ q[1].kind = "output"
      /\ q[1].kind \in {"history", "close"} => LeadOf(r) = 0
      /\ q[1].kind = "history" => LeadOf(q) = 1
      /\ q[1].kind = "close" => LeadOf(q) = 0 /\ EndOf(q) = 0 /\ EndOf(r) = 0
      /\ q[1].kind # "close" => EndOf(q) = EndOf(r) + 1
  BY PopOrderly DEF BeforeHistory
<1>12. q[1].kind = "open" => after = shown BY DEF BeforeHistory
<1>2. PICK l \in Nat, e \in Nat, m \in Nat :
        /\ l = LeadOf(r) /\ e = EndOf(r) /\ l <= e /\ e <= m /\ m = Len(r) /\ Len(q) = m + 1
  BY <1>1, OrderlyParts, MessageParts DEF Popped
<1>3. PICK s, t : s = ToShow(r, after) /\ t = ToShow(q, shown) OBVIOUS
<1>4. PICK k \in Nat, n \in Nat : ShownAs(q, shown, t, k, n) BY <1>3, ShownParts
<1>5. PICK k1 \in Nat, n1 \in Nat : ShownAs(r, after, s, k1, n1) BY <1>1, <1>3, ShownParts
<1>6. LeadOf(q) + k = EndOf(q) /\ l + k1 = e BY <1>2, <1>4, <1>5 DEF ShownAs
<1>7. k1 = k
  <2>1. CASE q[1].kind = "close" BY <1>1, <1>2, <1>6, <2>1
  <2>2. CASE q[1].kind = "history" BY <1>1, <1>2, <1>6, <2>2
  <2>3. CASE q[1].kind = "open" BY <1>1, <1>2, <1>6, <2>3
  <2>4. CASE BeforeHistory(q)
    <3>1. 2 + k = e + 1 /\ 1 + k1 = e BY <1>1, <1>2, <1>6, <2>4
    <3> QED BY <1>2, <3>1
  <2> QED BY <2>1, <2>2, <2>3, <2>4
<1>8. BaseOf(r, after) = BaseOf(q, shown)
  <2>1. CASE q[1].kind = "close" BY <1>1, <2>1 DEF BaseOf
  <2>2. CASE q[1].kind = "history" BY <1>1, <2>2 DEF BaseOf
  <2>3. CASE q[1].kind = "open"
    <3>1. LeadOf(q) = l + 1 BY <1>1, <1>2, <2>3
    <3>2. CASE l = 0
      <4>1. BaseOf(q, shown) = shown BY <2>3, <3>1, <3>2 DEF BaseOf
      <4>2. BaseOf(r, after) = after BY <1>2, <3>2 DEF BaseOf
      <4> QED BY <1>12, <2>3, <4>1, <4>2
    <3>3. CASE l > 0
      <4>1. l \in 1..Len(r) BY <1>2, <3>3
      <4>2. r[l] = q[l + 1] /\ l + 1 > 0 BY <1>2, <4>1 DEF Popped
      <4> QED BY <1>2, <1>12, <2>3, <3>1, <3>3, <4>2 DEF BaseOf
    <3>4. l = 0 \/ l > 0 BY <1>2
    <3> QED BY <3>2, <3>3, <3>4
  <2>4. CASE BeforeHistory(q)
    <3>1. 2 <= Len(q) /\ q[2].kind = "history" BY <2>4 DEF BeforeHistory, HistoryAt
    <3>2. r[1] = q[1 + 1] BY <1>2, <3>1 DEF Popped
    <3> QED BY <1>1, <2>4, <3>1, <3>2 DEF BaseOf
  <2> QED BY <2>1, <2>2, <2>3, <2>4
<1>9. ASSUME NEW i \in 1..k PROVE r[LeadOf(r) + i] = q[LeadOf(q) + i]
  <2>1. q[1].kind # "close" /\ LeadOf(q) = l + 1
    <3>1. k >= 1 BY <1>9
    <3>2. q[1].kind # "close" BY <1>1, <1>2, <1>6, <1>7, <3>1
    <3> QED BY <1>1, <1>2, <3>2
  <2>2. l + i \in 1..Len(r) BY <1>2, <1>6, <1>7, <1>9
  <2>3. (l + i) + 1 = (l + 1) + i BY <1>2, <1>9
  <2> QED BY <1>2, <2>1, <2>2, <2>3 DEF Popped
<1>10. n1 = n BY <1>4, <1>5, <1>8 DEF ShownAs
<1>11. ShownAs(r, after, s, k, n) BY <1>5, <1>7, <1>10
<1> QED BY <1>3, <1>4, <1>8, <1>9, <1>11, ShownTheSame

LEMMA PopChunk ==
    ASSUME NEW q \in Seq(Message), NEW r \in Seq(Message), NEW live \in BOOLEAN,
           Orderly(q, live), Popped(r, q), NEW shown \in Seq(Nat), NEW after \in Seq(Nat),
           q[1].kind = "output", ~BeforeHistory(q), Grown(after, shown, q[1].data[1])
    PROVE  Same(ToShow(r, after), ToShow(q, shown))
<1>1. Orderly(r, live) /\ LeadOf(r) = 0 /\ LeadOf(q) = 0 /\ EndOf(q) = EndOf(r) + 1
  BY PopOrderly
<1>2. PICK e \in Nat, m \in Nat : e = EndOf(r) /\ e <= m /\ m = Len(r)
  BY <1>1, OrderlyParts, MessageParts
<1>3. PICK s, t : s = ToShow(r, after) /\ t = ToShow(q, shown) OBVIOUS
<1>4. PICK k \in Nat, n \in Nat : ShownAs(q, shown, t, k, n) BY <1>3, ShownParts
<1>5. PICK k1 \in Nat, n1 \in Nat : ShownAs(r, after, s, k1, n1) BY <1>1, <1>3, ShownParts
<1>6. k = k1 + 1 /\ k1 = e BY <1>1, <1>2, <1>4, <1>5 DEF ShownAs
<1>7. BaseOf(r, after) = after /\ BaseOf(q, shown) = shown BY <1>1 DEF BaseOf
<1>8. n1 = n + 1 /\ n = Len(shown) /\ n1 = Len(after) /\ after[n1] = q[1].data[1]
      /\ \A i \in 1..n : after[i] = shown[i]
  BY <1>4, <1>5, <1>7 DEF ShownAs, Grown
<1>9. Len(s) = n1 + k1 /\ Len(t) = n + k BY <1>4, <1>5 DEF ShownAs
<1>10. ASSUME NEW i \in 1..(n + k) PROVE s[i] = t[i]
  <2>1. i \in 1..n \/ \E j \in 1..k : i = n + j BY InTwoParts
  <2>2. CASE i \in 1..n
    <3>1. t[i] = shown[i] BY <1>4, <1>7, <2>2 DEF ShownAs
    <3>2. i \in 1..n1 BY <1>8, <2>2
    <3>3. s[i] = after[i] BY <1>5, <1>7, <3>2 DEF ShownAs
    <3> QED BY <1>8, <2>2, <3>1, <3>3
  <2>3. ASSUME NEW j \in 1..k, i = n + j PROVE s[i] = t[i]
    <3>1. t[i] = q[j].data[1]
      <4>1. t[n + j] = q[0 + j].data[1] BY <1>1, <1>4 DEF ShownAs
      <4>2. 0 + j = j OBVIOUS
      <4> QED BY <2>3, <4>1, <4>2
    <3>2. CASE j = 1
      <4>1. n1 \in 1..n1 /\ i = n1 BY <1>8, <2>3, <3>2
      <4>2. s[n1] = after[n1] BY <1>5, <1>7, <4>1 DEF ShownAs
      <4> QED BY <1>8, <3>1, <3>2, <4>1, <4>2
    <3>3. CASE j # 1
      <4>1. PICK h \in 1..k1 : j = h + 1
        <5>1. j - 1 \in 1..k1 /\ j = (j - 1) + 1 BY <1>6, <3>3
        <5> QED BY <5>1
      <4>2. n1 + h = i /\ h \in 1..Len(r) BY <1>2, <1>6, <1>8, <2>3, <4>1
      <4>3. s[n1 + h] = r[0 + h].data[1] BY <1>1, <1>5 DEF ShownAs
      <4>4. 0 + h = h /\ r[h] = q[h + 1] BY <4>2 DEF Popped
      <4> QED BY <3>1, <4>1, <4>2, <4>3, <4>4
    <3> QED BY <3>2, <3>3
  <2> QED BY <2>1, <2>2, <2>3
<1>11. Len(s) = Len(t)
  <2>1. \A u, v \in Nat : (u + 1) + v = u + (v + 1) OBVIOUS
  <2>2. n1 = n + 1 /\ k = k1 + 1 BY <1>6, <1>8
  <2> QED BY <1>9, <2>1, <2>2
<1> QED BY <1>3, <1>9, <1>10, <1>11 DEF Same

\* The fields of the session and of the pane, told apart.
LEMMA StreamParts ==
    ASSUME StreamTypes
    PROVE  /\ session.live \in BOOLEAN /\ session.scroll \in Seq(Nat)
           /\ session.size \in PtySizes
           /\ pane.conn \in {"connecting", "open", "waiting"} /\ pane.attempts \in 0..MaxAttempts
           /\ pane.term \in {"loading", "ready", "failed"} /\ pane.screen \in Seq(Nat)
           /\ pane.history \in Seq(Nat) /\ pane.pending \in Seq(Nat) /\ pane.fit \in Sizes
           /\ pane.hasHistory \in BOOLEAN /\ pane.timer \in BOOLEAN
           /\ pane.sent \in Sizes \cup {Unsent} /\ Shown \in Seq(Nat)
<1>1. session \in Session /\ pane \in Pane BY DEF StreamTypes
<1>2. /\ session.live \in BOOLEAN /\ session.scroll \in Seq(Nat)
      /\ session.size \in PtySizes
  BY <1>1 DEF Session
<1>3. /\ pane.conn \in {"connecting", "open", "waiting"} /\ pane.attempts \in 0..MaxAttempts
      /\ pane.term \in {"loading", "ready", "failed"} /\ pane.screen \in Seq(Nat)
      /\ pane.history \in Seq(Nat) /\ pane.pending \in Seq(Nat) /\ pane.fit \in Sizes
      /\ pane.hasHistory \in BOOLEAN /\ pane.timer \in BOOLEAN
      /\ pane.sent \in Sizes \cup {Unsent}
  BY <1>1 DEF Pane
<1>4. PICK u, v : u = pane.history /\ v = pane.pending /\ u \in Seq(Nat) /\ v \in Seq(Nat)
  BY <1>3
<1>5. u \o v \in Seq(Nat) BY <1>4
<1> QED BY <1>2, <1>3, <1>4, <1>5 DEF Shown

\* Steps that touch none of them.
LEMMA QuietKeeps ==
    ASSUME StreamInv, StreamTypes', Shown' = Shown, down' = down, attached' = attached,
           session'.scroll = session.scroll, made' = made,
           pane'.term # "ready" => pane'.screen = << >>
    PROVE  StreamInv'
BY DEF StreamInv

LEMMA ResizesKeep ==
    ASSUME StreamInv, \/ \E s \in Sizes : ResizeSession(s) \/ Resize(s) \/ Refit(s)
                      \/ ReceiveResize \/ SendResize
    PROVE  StreamInv'
<1>1. StreamTypes BY DEF StreamInv
<1>2. CASE (\E s \in Sizes : ResizeSession(s)) \/ ReceiveResize
  <2>1. PICK w \in PtySizes : session' = [session EXCEPT !.size = w]
    <3>1. up # << >> => Head(up) \in Sizes BY <1>1 DEF StreamTypes
    <3>2. PICK z \in Sizes : session' = [session EXCEPT !.size = Clamp(z)]
      BY <1>2, <3>1 DEF ResizeSession, ReceiveResize
    <3>3. Clamp(z) \in PtySizes BY DEF PtySizes
    <3> QED BY <3>2, <3>3
  <2>2. /\ up' \in Seq(Sizes) /\ UNCHANGED <<attached, down, pane, made>>
    <3>1. up \in Seq(Sizes) BY <1>1 DEF StreamTypes
    <3>2. up # << >> => Tail(up) \in Seq(Sizes) BY <3>1
    <3>3. CASE \E s \in Sizes : ResizeSession(s) BY <3>1, <3>3 DEF ResizeSession
    <3>4. CASE ReceiveResize BY <3>2, <3>4 DEF ReceiveResize
    <3> QED BY <1>2, <3>3, <3>4
  <2>3. /\ session' \in Session /\ session'.scroll = session.scroll
        /\ session'.live = session.live
    BY <1>1, <2>1 DEF StreamTypes, Session
  <2>4. StreamTypes' BY <1>1, <2>2, <2>3 DEF StreamTypes
  <2>5. Shown' = Shown BY <2>2 DEF Shown
  <2>6. pane'.term # "ready" => pane'.screen = << >> BY <2>2 DEF StreamInv
  <2> QED BY <2>2, <2>3, <2>4, <2>5, <2>6, QuietKeeps
<1>3. CASE (\E s \in Sizes : Resize(s) \/ Refit(s)) \/ SendResize
  <2>1. PICK fit \in Sizes, timer \in BOOLEAN, sent \in Sizes \cup {Unsent} :
          pane' = [pane EXCEPT !.fit = fit, !.timer = timer, !.sent = sent]
    <3>1. pane \in Pane BY <1>1 DEF StreamTypes
    <3>2. ASSUME NEW s \in Sizes, Resize(s)
          PROVE  pane' = [pane EXCEPT !.fit = s, !.timer = TRUE, !.sent = pane.sent]
      BY <3>1, <3>2 DEF Resize, Pane
    <3>4. ASSUME NEW s \in Sizes, Refit(s)
          PROVE  pane' = [pane EXCEPT !.fit = s, !.timer = pane.timer, !.sent = pane.sent]
      BY <3>1, <3>4 DEF Refit, Pane
    <3>3. ASSUME SendResize
          PROVE  pane' = [pane EXCEPT !.fit = pane.fit, !.timer = FALSE, !.sent = pane.fit]
      BY <3>1, <3>3 DEF SendResize, Pane
    <3> QED BY <1>1, <1>3, <3>2, <3>3, <3>4, StreamParts
  <2>2. /\ up' \in Seq(Sizes) /\ UNCHANGED <<session, attached, down, made>>
    <3>1. up \in Seq(Sizes) BY <1>1 DEF StreamTypes
    <3>2. pane.fit \in Sizes BY <1>1, StreamParts
    <3>3. Append(up, pane.fit) \in Seq(Sizes) BY <3>1, <3>2
    <3>4. up' \in {up, Append(up, pane.fit)} BY <1>3 DEF Resize, Refit, SendResize
    <3>5. UNCHANGED <<session, attached, down, made>> BY <1>3 DEF Resize, Refit, SendResize
    <3> QED BY <3>1, <3>3, <3>4, <3>5
  <2>3. /\ pane' \in Pane /\ pane'.conn = pane.conn /\ pane'.term = pane.term
        /\ pane'.screen = pane.screen /\ pane'.history = pane.history
        /\ pane'.pending = pane.pending
    BY <1>1, <2>1 DEF StreamTypes, Pane
  <2>4. StreamTypes' BY <1>1, <2>2, <2>3 DEF StreamTypes
  <2>5. Shown' = Shown BY <2>3 DEF Shown
  <2>6. pane'.term # "ready" => pane'.screen = << >> BY <2>3 DEF StreamInv
  <2> QED BY <2>2, <2>4, <2>5, <2>6, QuietKeeps
<1> QED BY <1>2, <1>3

\* The xterm of the pane is there, or never will be, and a new connection.
LEMMA PaneKeeps == ASSUME StreamInv, TerminalReady \/ TerminalFails \/ Reconnect PROVE StreamInv'
<1>1. StreamTypes BY DEF StreamInv
<1>2. UNCHANGED <<session, attached, down, up, made>>
  BY DEF TerminalReady, TerminalFails, Reconnect
<1>3. pane \in Pane /\ pane.history \in Seq(Nat) /\ pane.pending \in Seq(Nat)
  BY <1>1, StreamParts DEF StreamTypes
<1>4. CASE TerminalReady
  <2>1. PICK v \in Seq(Nat) : v = pane.history \o pane.pending
    <3>1. PICK a, b : a = pane.history /\ b = pane.pending /\ a \in Seq(Nat) /\ b \in Seq(Nat)
      BY <1>3
    <3>2. a \o b \in Seq(Nat) BY <3>1
    <3> QED BY <3>1, <3>2
  <2>2. pane.term = "loading" BY <1>4 DEF TerminalReady
  <2>3. pane' = [pane EXCEPT !.term = "ready", !.timer = TRUE, !.screen = v,
                             !.hasHistory = FALSE, !.history = << >>, !.pending = << >>]
    BY <1>4, <2>1 DEF TerminalReady
  <2>4. << >> \in Seq(Nat) OBVIOUS
  <2>5. /\ pane' \in Pane /\ pane'.term = "ready" /\ pane'.screen = v /\ pane'.conn = pane.conn
    BY <1>3, <2>3, <2>4 DEF Pane
  <2>6. Shown' = Shown BY <2>1, <2>2, <2>5 DEF Shown
  <2>7. StreamTypes' BY <1>1, <1>2, <2>5 DEF StreamTypes
  <2> QED BY <1>2, <2>5, <2>6, <2>7, QuietKeeps
<1>5. CASE TerminalFails \/ Reconnect
  <2>1. PICK conn \in {pane.conn, "connecting"}, term \in {pane.term, "failed"} :
          pane' = [pane EXCEPT !.conn = conn, !.term = term]
              /\ (term # pane.term => pane.term = "loading")
    BY <1>3, <1>5 DEF TerminalFails, Reconnect, Pane
  <2>2. /\ pane' \in Pane /\ pane'.conn = conn /\ pane'.term = term /\ pane'.screen = pane.screen
        /\ pane'.history = pane.history /\ pane'.pending = pane.pending
    BY <1>3, <2>1 DEF Pane
  <2>3. StreamTypes' BY <1>1, <1>2, <2>1, <2>2 DEF StreamTypes
  <2>4. Shown' = Shown BY <2>1, <2>2 DEF Shown
  <2>5. pane'.term # "ready" => pane'.screen = << >> BY <2>1, <2>2 DEF StreamInv
  <2> QED BY <1>2, <2>3, <2>4, <2>5, QuietKeeps
<1> QED BY <1>4, <1>5

\* Short queues: nothing, and what an upgrade sends first.
LEMMA EmptyQueue ==
    ASSUME NEW live \in BOOLEAN, NEW shown \in Seq(Nat)
    PROVE  /\ << >> \in Seq(Message) /\ Orderly(<< >>, live)
           /\ Same(ToShow(<< >>, shown), shown)
           /\ \A n \in Nat : BannerIsNew(<< >>, shown, n)
<1> PICK q : q = << >> OBVIOUS
<1>1. q \in Seq(Message) /\ q = << >> /\ Len(q) = 0 OBVIOUS
<1>2. Orderly(q, live) BY <1>1 DEF Orderly
<1>9. ~HistoryAt(q, 2) /\ ~HistoryAt(q, 3) BY <1>1 DEF HistoryAt
<1>3. LeadOf(q) = 0 /\ EndOf(q) = 0 BY <1>1, <1>9 DEF LeadOf, EndOf
<1>4. BaseOf(q, shown) = shown BY <1>3 DEF BaseOf
<1>5. PICK t : t = ToShow(q, shown) OBVIOUS
<1>6. PICK k \in Nat, n \in Nat : ShownAs(q, shown, t, k, n) BY <1>1, <1>2, <1>5, ShownParts
<1>7. k = 0 /\ n = Len(shown) /\ Len(t) = n BY <1>3, <1>4, <1>6 DEF ShownAs
<1>8. Same(t, shown) BY <1>4, <1>6, <1>7 DEF ShownAs, Same
<1>10. \A m \in Nat : BannerIsNew(q, shown, m) BY <1>9, NoBanner
<1> QED BY <1>1, <1>2, <1>5, <1>8, <1>10

LEMMA FirstMessages ==
    ASSUME NEW live \in BOOLEAN, NEW shown \in Seq(Nat), NEW data \in Seq(Nat)
    PROVE  /\ <<Opened>> \in Seq(Message) /\ Orderly(<<Opened>>, live)
           /\ Same(ToShow(<<Opened>>, shown), shown)
           /\ <<Opened, History(data)>> \in Seq(Message)
           /\ Orderly(<<Opened, History(data)>>, live)
           /\ Same(ToShow(<<Opened, History(data)>>, shown), data)
           /\ \A n \in Nat : /\ BannerIsNew(<<Opened>>, shown, n)
                             /\ BannerIsNew(<<Opened, History(data)>>, shown, n)
<1> PICK m, h : m = Opened /\ h = History(data) OBVIOUS
<1>1. /\ m \in Message /\ h \in Message
      /\ m.kind = "open" /\ h.kind = "history" /\ h.data = data
  BY DEF Opened, History, Message
<1> PICK q, r : q = <<m>> /\ r = <<m, h>> OBVIOUS
<1>2. q \in Seq(Message) /\ Len(q) = 1 /\ q[1] = m BY <1>1
<1>3. r \in Seq(Message) /\ Len(r) = 2 /\ r[1] = m /\ r[2] = h BY <1>1
<1>4. Orderly(q, live) BY <1>1, <1>2 DEF Orderly
<1>5. Orderly(r, live)
  <2>1. \A i \in 1..2 : i = 1 \/ i = 2 OBVIOUS
  <2> QED BY <1>1, <1>3, <2>1 DEF Orderly, MayFollow
<1>16. ~HistoryAt(q, 2) /\ ~HistoryAt(q, 3) /\ ~HistoryAt(r, 3)
  BY <1>2, <1>3 DEF HistoryAt
<1>6. LeadOf(q) = 1 /\ EndOf(q) = 1 /\ BaseOf(q, shown) = shown
  BY <1>1, <1>2, <1>16 DEF LeadOf, EndOf, BaseOf
<1>7. LeadOf(r) = 2 /\ EndOf(r) = 2 /\ BaseOf(r, shown) = data
  <2>1. LeadOf(r) = 2 BY <1>1, <1>3, <1>16 DEF LeadOf, HistoryAt
  <2>2. EndOf(r) = 2 BY <1>1, <1>3 DEF EndOf
  <2> QED BY <1>1, <1>3, <2>1, <2>2 DEF BaseOf
<1>8. PICK s, t : s = ToShow(q, shown) /\ t = ToShow(r, shown) OBVIOUS
<1>9. PICK k \in Nat, n \in Nat : ShownAs(q, shown, s, k, n) BY <1>2, <1>4, <1>8, ShownParts
<1>10. PICK k1 \in Nat, n1 \in Nat : ShownAs(r, shown, t, k1, n1)
  BY <1>3, <1>5, <1>8, ShownParts
<1>11. k = 0 /\ n = Len(shown) /\ Len(s) = n BY <1>6, <1>9 DEF ShownAs
<1>12. k1 = 0 /\ n1 = Len(data) /\ Len(t) = n1 BY <1>7, <1>10 DEF ShownAs
<1>13. Same(s, shown) BY <1>6, <1>9, <1>11 DEF ShownAs, Same
<1>14. Same(t, data) BY <1>7, <1>10, <1>12 DEF ShownAs, Same
<1>15. q = <<Opened>> /\ r = <<Opened, History(data)>> OBVIOUS
<1>17. \A i \in Nat : BannerIsNew(q, shown, i) BY <1>16, NoBanner
<1>18. ASSUME NEW i \in Nat PROVE BannerIsNew(r, shown, i)
  <2>1. \A j \in {1, 2} : ~(HistoryAt(r, j + 1) /\ r[j].kind = "output")
    BY <1>1, <1>3, <1>16
  <2> QED BY <2>1 DEF BannerIsNew
<1> QED BY <1>2, <1>3, <1>4, <1>5, <1>8, <1>13, <1>14, <1>15, <1>17, <1>18

\* The banner of a session that is created for the pane comes twice; the history
\* replaces the first.
LEMMA BannerMessages ==
    ASSUME NEW live \in BOOLEAN, NEW shown \in Seq(Nat), NEW data \in Seq(Nat), NEW n \in Nat,
           Rising(shown, n), NEW r, r = <<Opened, Chunk(n + 1), History(data)>>
    PROVE  /\ r \in Seq(Message) /\ Orderly(r, live) /\ Same(ToShow(r, shown), data)
           /\ BannerIsNew(r, shown, n + 1)
<1> PICK m, c, h : m = Opened /\ c = Chunk(n + 1) /\ h = History(data) OBVIOUS
<1>1. /\ m \in Message /\ c \in Message /\ h \in Message
      /\ m.kind = "open" /\ c.kind = "output" /\ h.kind = "history" /\ h.data = data
      /\ c.data = <<n + 1>>
  BY DEF Opened, Chunk, History, Message
<1>2. r = <<m, c, h>> OBVIOUS
<1>3. r \in Seq(Message) /\ Len(r) = 3 /\ r[1] = m /\ r[2] = c /\ r[3] = h BY <1>1, <1>2
<1>13. PICK v \in Nat : v = n + 1 OBVIOUS
<1>14. c.data = <<v>> BY <1>1, <1>13
<1>4. Len(c.data) = 1 /\ c.data[1] = n + 1
  <2>1. Len(<<v>>) = 1 /\ <<v>>[1] = v OBVIOUS
  <2> QED BY <1>13, <1>14, <2>1
<1>5. Orderly(r, live)
  <2>1. \A i \in 1..3 : i = 1 \/ i = 2 \/ i = 3 OBVIOUS
  <2> QED BY <1>1, <1>3, <1>4, <2>1 DEF Orderly, MayFollow
<1>6. HistoryAt(r, 3) /\ ~HistoryAt(r, 2) BY <1>1, <1>3 DEF HistoryAt
<1>7. LeadOf(r) = 3 /\ EndOf(r) = 3 /\ BaseOf(r, shown) = data
  <2>1. LeadOf(r) = 3 BY <1>6 DEF LeadOf
  <2>2. EndOf(r) = 3 BY <1>1, <1>3 DEF EndOf
  <2> QED BY <1>1, <1>3, <2>1, <2>2 DEF BaseOf
<1> PICK t : t = ToShow(r, shown) OBVIOUS
<1>8. PICK k \in Nat, l \in Nat : ShownAs(r, shown, t, k, l) BY <1>3, <1>5, ShownParts
<1>9. k = 0 /\ l = Len(data) /\ Len(t) = l BY <1>7, <1>8 DEF ShownAs
<1>10. Same(t, data) BY <1>7, <1>8, <1>9 DEF ShownAs, Same
<1>11. \A j \in 1..Len(shown) : shown[j] \in Nat /\ shown[j] <= n BY DEF Rising
<1>12. BannerIsNew(r, shown, n + 1)
  <2> SUFFICES ASSUME NEW i \in {1, 2}, HistoryAt(r, i + 1)
               PROVE  /\ r[i].data[1] \in 0..(n + 1)
                      /\ \A j \in 1..Len(shown) : shown[j] < r[i].data[1]
    BY DEF BannerIsNew
  <2>1. i = 2 BY <1>6
  <2>2. r[i].data[1] = n + 1 BY <1>3, <1>4, <2>1
  <2>3. \A j \in 1..Len(shown) : shown[j] < n + 1 BY <1>11
  <2> QED BY <2>2, <2>3
<1> QED BY <1>3, <1>5, <1>10, <1>12

LEMMA SameSuffix ==
    ASSUME NEW a \in Seq(Nat), NEW t \in Seq(Nat)
    PROVE  /\ Same(t, a) => EndsWith(a, t)
           /\ a = << >> => EndsWith(a, t)
<1>1. Same(t, a) => EndsWith(a, t) BY DEF Same, EndsWith
<1>2. a = << >> => EndsWith(a, t) BY DEF EndsWith
<1> QED BY <1>1, <1>2

LEMMA NumberOfElements == ASSUME NEW a \in Seq(Nat) PROVE Len(a) \in Nat
OBVIOUS

\* What is added to the scrollback comes after what it keeps.
LEMMA RisingScroll ==
    ASSUME NEW a \in Seq(Nat), NEW b \in Seq(Nat), NEW n \in Nat, Rising(a, n), KeptOf(b, a, n + 1)
    PROVE  Rising(b, n + 1)
<1>1. PICK la \in Nat, lb \in Nat : la = Len(a) /\ lb = Len(b) BY Zenon, NumberOfElements
<1>2. lb >= 1 /\ lb <= la + 1 /\ b[lb] = n + 1 BY <1>1 DEF KeptOf
<1>3. PICK d \in Nat : (la + 1) = d + lb
  <2>1. (la + 1) - lb \in Nat /\ la + 1 = ((la + 1) - lb) + lb BY <1>2
  <2> QED BY <2>1
<1>4. ASSUME NEW i \in 1..(lb - 1)
      PROVE  d + i \in 1..la /\ b[i] = a[d + i] /\ b[i] \in Nat /\ b[i] <= n
  <2>1. d + i \in 1..la /\ ((la + 1) - lb) + i = d + i BY <1>2, <1>3
  <2>2. b[i] = a[d + i] BY <1>1, <2>1 DEF KeptOf
  <2>3. a[d + i] \in Nat /\ a[d + i] <= n BY <1>1, <2>1 DEF Rising
  <2> QED BY <2>1, <2>2, <2>3
<1>5. \A i \in 1..lb : i = lb \/ i \in 1..(lb - 1) BY <1>2
<1>6. ASSUME NEW i \in 1..lb PROVE b[i] <= n + 1
  <2>1. CASE i = lb BY <1>2, <2>1
  <2>2. CASE i \in 1..(lb - 1)
    <3>1. PICK v \in Nat : v = b[i] /\ v <= n BY <1>4, <2>2
    <3> QED BY <3>1
  <2> QED BY <1>5, <2>1, <2>2
<1>7. ASSUME NEW i \in 1..lb, NEW j \in 1..lb, i < j PROVE b[i] < b[j]
  <2>1. i \in 1..(lb - 1) BY <1>7
  <2>2. CASE j = lb
    <3>1. PICK v \in Nat : v = b[i] /\ v <= n BY <1>4, <2>1
    <3> QED BY <1>2, <2>2, <3>1
  <2>3. CASE j \in 1..(lb - 1)
    <3>1. d + i < d + j BY <1>7
    <3>2. a[d + i] < a[d + j] BY <1>1, <1>4, <2>1, <2>3, <3>1 DEF Rising
    <3> QED BY <1>4, <2>1, <2>3, <3>2
  <2> QED BY <1>5, <2>2, <2>3
<1> QED BY <1>1, <1>6, <1>7 DEF Rising

\* A queue that lives is one of a queue that may be closed.
LEMMA LivesOn == ASSUME NEW q, Orderly(q, TRUE) PROVE Orderly(q, FALSE)
BY DEF Orderly

\* The session prints, ends, or starts over the API.
LEMMA OutputKeepsStream ==
    ASSUME StreamInv, NEW long \in BOOLEAN, PtyOutput(long) PROVE StreamInv'
<1>1. StreamTypes BY DEF StreamInv
<1>2. PICK n \in Nat : n = made BY <1>1 DEF StreamTypes
<1>3. PICK a : a = session.scroll /\ a \in Seq(Nat) /\ Len(a) <= Keep /\ Rising(a, n)
  BY <1>1, <1>2, StreamParts DEF StreamInv, StreamTypes
<1>4. PICK b : b = Scrolled(a, n + 1, long) /\ b \in Seq(Nat) /\ KeptOf(b, a, n + 1)
          /\ Len(b) <= Keep
  <2>1. n + 1 \in Nat OBVIOUS
  <2> QED BY <1>3, <2>1, ScrolledKeeps
<1>5. /\ made' = n + 1 /\ session.live = TRUE /\ session' = [session EXCEPT !.scroll = b]
      /\ UNCHANGED <<attached, up, pane>>
      /\ down' = IF attached = TRUE THEN Append(down, Chunk(n + 1)) ELSE down
  <2>1. session.live = TRUE /\ made' = n + 1 /\ attached \in BOOLEAN
    BY <1>1, <1>2, StreamParts DEF PtyOutput, StreamTypes
  <2> QED BY <1>3, <1>4, <2>1 DEF PtyOutput, Broadcast
<1>6. /\ session' \in Session /\ session'.scroll = b /\ session'.live = session.live
  BY <1>1, <1>4, <1>5 DEF StreamTypes, Session
<1>7. PICK s \in Seq(Nat) : s = Shown /\ s = Shown' BY <1>1, <1>5, StreamParts DEF Shown
<1>8. PICK q : q = down /\ q \in Seq(Message) /\ Orderly(q, attached)
  BY <1>1 DEF StreamInv, StreamTypes
<1>9. PICK t : t = ToShow(q, s) /\ t \in Seq(Nat) /\ Rising(t, n)
               /\ (attached = TRUE => EndsWith(a, t))
  <2>1. attached \in BOOLEAN BY <1>1 DEF StreamTypes
  <2> QED BY <1>2, <1>3, <1>7, <1>8, <2>1, ToShowElements DEF StreamInv
<1>15. BannerIsNew(q, s, n) BY <1>2, <1>7, <1>8 DEF StreamInv
<1>10. PICK r, u : /\ r = down' /\ r \in Seq(Message) /\ Orderly(r, attached)
                   /\ u = ToShow(r, s) /\ u \in Seq(Nat) /\ Rising(u, n + 1)
                   /\ BannerIsNew(r, s, n + 1)
                   /\ (attached = TRUE => EndsWith(b, u))
  <2> PICK r, u : r = down' /\ u = ToShow(r, s) OBVIOUS
  <2>1. CASE attached = TRUE
    <3>1. r = Append(q, Chunk(n + 1)) BY <1>5, <1>8, <2>1
    <3>2. n + 1 \in Nat OBVIOUS
    <3>3. r \in Seq(Message) /\ Orderly(r, TRUE) /\ Grown(u, t, n + 1)
      BY <1>8, <1>9, <2>1, <3>1, <3>2, PushChunk
    <3>7. BannerIsNew(r, s, n + 1)
      <4>1. n <= n + 1 OBVIOUS
      <4> QED BY <1>8, <1>15, <2>1, <3>1, <3>2, <4>1, PushChunk
    <3>4. u \in Seq(Nat) BY <3>3, ToShowElements
    <3>5. Rising(u, n + 1) BY <1>9, <3>3, <3>4, RisingKept
    <3>6. EndsWith(b, u) BY <1>3, <1>4, <1>9, <2>1, <3>2, <3>3, <3>4, SuffixGrows
    <3> QED BY <2>1, <3>3, <3>4, <3>5, <3>6, <3>7
  <2>2. CASE attached # TRUE
    <3>1. r = q /\ u = t BY <1>5, <1>8, <1>9, <2>2
    <3>2. Rising(t, n + 1) BY <1>9, RisingKept
    <3>3. BannerIsNew(q, s, n + 1)
      <4>1. n <= n + 1 /\ n + 1 \in Nat OBVIOUS
      <4> QED BY <1>15, <4>1, BannerStays
    <3> QED BY <1>8, <1>9, <2>2, <3>1, <3>2, <3>3
  <2> QED BY <2>1, <2>2
<1>11. Rising(s, n + 1)
  <2>1. Rising(s, n) BY <1>2, <1>7 DEF StreamInv
  <2> QED BY <2>1, RisingKept
<1>12. Rising(b, n + 1) BY <1>3, <1>4, RisingScroll
<1>13. StreamTypes'
  <2>1. down' \in Seq(Message) BY <1>10
  <2>2. n + 1 \in Nat OBVIOUS
  <2> QED BY <1>1, <1>4, <1>5, <1>6, <2>1, <2>2 DEF StreamTypes
<1>14. pane'.term # "ready" => pane'.screen = << >> BY <1>5 DEF StreamInv
<1> QED BY <1>5, <1>6, <1>7, <1>10, <1>11, <1>12, <1>13, <1>14 DEF StreamInv

\* What the pane will show is in order when it is what was, and the scrollback too.
LEMMA SameKeeps ==
    ASSUME StreamInv, NEW r \in Seq(Message), NEW live \in BOOLEAN, Orderly(r, live),
           NEW s \in Seq(Nat), Same(ToShow(r, s), ToShow(down, Shown))
    PROVE  /\ ToShow(r, s) \in Seq(Nat) /\ Rising(ToShow(r, s), made)
           /\ attached = TRUE => EndsWith(session.scroll, ToShow(r, s))
<1>1. StreamTypes BY DEF StreamInv
<1>2. PICK n \in Nat, a \in Seq(Nat) : n = made /\ a = session.scroll
  <2>1. made \in Nat BY <1>1 DEF StreamTypes
  <2> QED BY <1>1, <2>1, StreamParts
<1>3. down \in Seq(Message) /\ attached \in BOOLEAN /\ Orderly(down, attached) /\ Shown \in Seq(Nat)
  <2>1. Shown \in Seq(Nat) BY <1>1, StreamParts
  <2> QED BY <1>1, <2>1 DEF StreamInv, StreamTypes
<1> PICK t, u : t = ToShow(down, Shown) /\ u = ToShow(r, s) OBVIOUS
<1>4. t \in Seq(Nat) /\ u \in Seq(Nat) BY <1>3, ToShowElements
<1>5. Rising(t, n) /\ (attached = TRUE => EndsWith(a, t)) BY <1>2 DEF StreamInv
<1>6. Rising(u, n) BY <1>4, <1>5, RisingKept
<1>7. attached = TRUE => EndsWith(a, u) BY <1>2, <1>4, <1>5, SuffixKept
<1> QED BY <1>2, <1>4, <1>6, <1>7

\* The connection breaks: a close event comes after what is under way.
LEMMA BreakKeeps == ASSUME StreamInv, Break PROVE StreamInv'
<1>1. StreamTypes BY DEF StreamInv
<1>2. /\ attached = TRUE /\ attached' = FALSE /\ up' = << >> /\ down' = Append(down, Closed)
      /\ UNCHANGED <<session, pane, made>>
  BY <1>1 DEF Break, StreamTypes
<1>3. PICK q : q = down /\ q \in Seq(Message) /\ Orderly(q, TRUE)
  BY <1>1, <1>2 DEF StreamInv, StreamTypes
<1>4. PICK s \in Seq(Nat) : s = Shown /\ s = Shown' BY <1>1, <1>2, StreamParts DEF Shown
<1>5. PICK r : r = down' /\ r \in Seq(Message) /\ Orderly(r, FALSE)
          /\ Same(ToShow(r, s), ToShow(q, s)) /\ BannerIsNew(r, s, made)
  <2> PICK r : r = Append(q, Closed) OBVIOUS
  <2>2. BannerIsNew(q, s, made) /\ made \in Nat
    BY <1>1, <1>3, <1>4 DEF StreamInv, StreamTypes
  <2>1. r \in Seq(Message) /\ Orderly(r, FALSE) /\ Same(ToShow(r, s), ToShow(q, s))
    BY <1>3, PushClose
  <2>3. BannerIsNew(r, s, made) BY <1>3, <2>2, PushClose
  <2> QED BY <1>2, <1>3, <2>1, <2>3
<1>6. Rising(ToShow(r, s), made) BY <1>3, <1>4, <1>5, SameKeeps
<1>7. StreamTypes'
  <2>1. << >> \in Seq(Sizes) OBVIOUS
  <2> QED BY <1>1, <1>2, <1>5, <2>1 DEF StreamTypes
<1>8. pane'.term # "ready" => pane'.screen = << >> BY <1>2 DEF StreamInv
<1> QED BY <1>2, <1>4, <1>5, <1>6, <1>7, <1>8 DEF StreamInv

\* The session ends, of itself, with a note, or because it is torn down.
LEMMA EndKeepsStream ==
    ASSUME StreamInv, NEW exited \in BOOLEAN, SessionEnds(exited) PROVE StreamInv'
<1>1. StreamTypes BY DEF StreamInv
<1>2. PICK n \in Nat, n1 \in Nat : n = made /\ n1 = made' /\ n1 = IF exited THEN n + 1 ELSE n
  <2>1. made \in Nat BY <1>1 DEF StreamTypes
  <2>2. made' = IF exited THEN made + 1 ELSE made BY DEF SessionEnds
  <2> QED BY <2>1, <2>2
<1>3. /\ session' = NoPty /\ attached' = FALSE /\ up' = << >> /\ UNCHANGED pane
      /\ down' = down \o IF ~attached THEN << >>
                         ELSE IF exited THEN <<Chunk(n1), Closed>> ELSE <<Closed>>
  BY <1>2 DEF SessionEnds
<1>4. PICK q : q = down /\ q \in Seq(Message) /\ Orderly(q, attached)
  BY <1>1 DEF StreamInv, StreamTypes
<1>5. PICK s \in Seq(Nat) : s = Shown /\ s = Shown' BY <1>1, <1>3, StreamParts DEF Shown
<1>6. PICK t : t = ToShow(q, s) /\ t \in Seq(Nat) /\ Rising(t, n)
  <2>1. attached \in BOOLEAN BY <1>1 DEF StreamTypes
  <2> QED BY <1>2, <1>4, <1>5, <2>1, ToShowElements DEF StreamInv
<1>7. Rising(t, n1)
  <2>1. CASE exited BY <1>2, <1>6, <2>1, RisingKept
  <2>2. CASE ~exited BY <1>2, <1>6, <2>2
  <2> QED BY <2>1, <2>2
<1>14. BannerIsNew(q, s, n) /\ BannerIsNew(q, s, n1)
  <2>1. BannerIsNew(q, s, n) BY <1>2, <1>4, <1>5 DEF StreamInv
  <2>2. n <= n1 BY <1>2
  <2> QED BY <2>1, <2>2, BannerStays
<1>8. PICK r : r = down' /\ r \in Seq(Message) /\ Orderly(r, FALSE) /\ Rising(ToShow(r, s), n1)
                 /\ BannerIsNew(r, s, n1)
  <2> PICK r : r = down' OBVIOUS
  <2>1. CASE attached # TRUE
    <3>1. attached = FALSE BY <1>1, <2>1 DEF StreamTypes
    <3>2. r = q \o << >> BY <1>3, <1>4, <3>1
    <3>3. r = q BY <1>4, <3>2
    <3> QED BY <1>4, <1>6, <1>7, <1>14, <3>1, <3>3
  <2>2. CASE attached = TRUE /\ ~exited
    <3>1. r = q \o <<Closed>> BY <1>3, <1>4, <2>2
    <3>2. r = Append(q, Closed) BY <1>4, <3>1
    <3>3. r \in Seq(Message) /\ Orderly(r, FALSE) /\ Same(ToShow(r, s), ToShow(q, s))
      BY <1>4, <2>2, <3>2, PushClose
    <3>4. ToShow(r, s) \in Seq(Nat) BY <3>3, ToShowElements
    <3>5. Rising(ToShow(r, s), n1) BY <1>6, <1>7, <3>3, <3>4, RisingKept
    <3>6. BannerIsNew(r, s, n1) BY <1>4, <1>14, <2>2, <3>2, PushClose
    <3> QED BY <3>3, <3>5, <3>6
  <2>3. CASE attached = TRUE /\ exited
    <3>1. r = q \o <<Chunk(n1), Closed>> BY <1>3, <1>4, <2>3
    <3> PICK p : p = Append(q, Chunk(n1)) OBVIOUS
    <3>2. r = Append(p, Closed)
      <4>1. Chunk(n1) \in Message BY DEF Chunk, Message
      <4>2. Closed \in Message BY DEF Closed, Message
      <4>3. PICK c \in Message, e \in Message : c = Chunk(n1) /\ e = Closed BY <4>1, <4>2
      <4>4. q \o <<c, e>> = Append(Append(q, c), e) BY <1>4
      <4> QED BY <3>1, <4>3, <4>4
    <3>3. p \in Seq(Message) /\ Orderly(p, TRUE) /\ Grown(ToShow(p, s), ToShow(q, s), n1)
      BY <1>4, <2>3, PushChunk
    <3>4. r \in Seq(Message) /\ Orderly(r, FALSE) /\ Same(ToShow(r, s), ToShow(p, s))
      BY <3>2, <3>3, PushClose
    <3> PICK u, v : u = ToShow(p, s) /\ v = ToShow(r, s) OBVIOUS
    <3>5. u \in Seq(Nat) /\ v \in Seq(Nat) BY <3>3, <3>4, ToShowElements
    <3>6. n1 = n + 1 BY <1>2, <2>3
    <3>7. Rising(u, n1) BY <1>6, <3>3, <3>5, <3>6, RisingKept
    <3>8. Rising(v, n1) BY <3>4, <3>5, <3>7, RisingKept
    <3>9. BannerIsNew(p, s, n1)
      <4>1. n <= n1 BY <3>6
      <4> QED BY <1>4, <1>14, <2>3, <4>1, PushChunk
    <3>10. BannerIsNew(r, s, n1) BY <3>2, <3>3, <3>9, PushClose
    <3> QED BY <3>4, <3>8, <3>10
  <2> QED BY <2>1, <2>2, <2>3
<1>9. Rising(s, n1)
  <2>1. Rising(s, n) BY <1>2, <1>5 DEF StreamInv
  <2>2. CASE exited BY <1>2, <2>1, <2>2, RisingKept
  <2>3. CASE ~exited BY <1>2, <2>1, <2>3
  <2> QED BY <2>2, <2>3
<1>10. session' \in Session /\ session'.scroll = << >> /\ Len(session'.scroll) = 0
  BY <1>3 DEF NoPty, Session, PtySizes
<1>11. StreamTypes'
  <2>1. << >> \in Seq(Sizes) OBVIOUS
  <2>2. Len(session'.scroll) <= Keep BY <1>10, StreamAssumption
  <2>3. up' \in Seq(Sizes) /\ attached' = FALSE /\ pane' = pane BY <1>3, <2>1
  <2>4. down' \in Seq(Message) /\ made' \in Nat BY <1>2, <1>8
  <2> QED BY <1>1, <1>10, <2>2, <2>3, <2>4 DEF StreamTypes
<1>12. Rising(session'.scroll, n1) BY <1>10 DEF Rising
<1>13. pane'.term # "ready" => pane'.screen = << >> BY <1>3 DEF StreamInv
<1> QED BY <1>2, <1>3, <1>5, <1>8, <1>9, <1>11, <1>12, <1>13 DEF StreamInv

LEMMA AppendGrows ==
    ASSUME NEW v \in Seq(Nat), NEW n \in Nat
    PROVE  Append(v, n) \in Seq(Nat) /\ Grown(Append(v, n), v, n)
BY DEF Grown

LEMMA JoinedGrows ==
    ASSUME NEW h \in Seq(Nat), NEW p \in Seq(Nat), NEW n \in Nat,
           NEW w, NEW x, NEW v, w = p \o <<n>>, x = h \o w, v = h \o p
    PROVE  x \in Seq(Nat) /\ Grown(x, v, n)
<1>1. w = Append(p, n) /\ w \in Seq(Nat) OBVIOUS
<1>2. Joined(x, h, w) /\ Joined(v, h, p) BY DEF Joined
<1>3. Grown(w, p, n) BY <1>1, AppendGrows
<1>4. /\ x \in Seq(Nat) /\ Len(x) = Len(h) + Len(w)
      /\ \A j \in 1..Len(h) : x[j] = h[j]
      /\ \A j \in 1..Len(w) : x[Len(h) + j] = w[j]
  BY <1>1, <1>2, JoinedElements
<1>5. /\ v \in Seq(Nat) /\ Len(v) = Len(h) + Len(p)
      /\ \A j \in 1..Len(h) : v[j] = h[j]
      /\ \A j \in 1..Len(p) : v[Len(h) + j] = p[j]
  BY <1>2, JoinedElements
<1>6. PICK lh \in Nat, lp \in Nat : lh = Len(h) /\ lp = Len(p)
  BY NumberOfElements, Zenon
<1>7. Len(w) = lp + 1 /\ w[lp + 1] = n /\ \A i \in 1..lp : w[i] = p[i]
  BY <1>3, <1>6 DEF Grown
<1>8. Len(x) = Len(v) + 1 /\ x[Len(x)] = n
  <2>1. lp + 1 \in 1..(lp + 1) /\ Len(x) = lh + (lp + 1) /\ Len(v) = lh + lp
    BY <1>4, <1>5, <1>6, <1>7
  <2>2. x[lh + (lp + 1)] = n BY <1>4, <1>6, <1>7, <2>1
  <2> QED BY <2>1, <2>2
<1>9. ASSUME NEW i \in 1..(lh + lp) PROVE x[i] = v[i]
  <2>1. i \in 1..lh \/ \E j \in 1..lp : i = lh + j BY InTwoParts
  <2>2. ASSUME NEW j \in 1..lp, i = lh + j PROVE x[i] = v[i]
    <3>1. j \in 1..(lp + 1) OBVIOUS
    <3> QED BY <1>4, <1>5, <1>6, <1>7, <2>2, <3>1
  <2> QED BY <1>4, <1>5, <1>6, <2>1, <2>2
<1> QED BY <1>4, <1>5, <1>6, <1>8, <1>9 DEF Grown

\* What is shown already comes first in what is to be shown.
LEMMA PrefixRising ==
    ASSUME NEW r \in Seq(Message), NEW live \in BOOLEAN, Orderly(r, live), LeadOf(r) = 0,
           NEW s \in Seq(Nat), NEW n \in Nat, Rising(ToShow(r, s), n)
    PROVE  Rising(s, n)
<1> PICK t : t = ToShow(r, s) OBVIOUS
<1>1. BaseOf(r, s) = s BY DEF BaseOf
<1>2. PICK k \in Nat, l \in Nat : ShownAs(r, s, t, k, l) BY ShownParts
<1>3. Len(s) = l /\ Len(t) = l + k /\ \A i \in 1..l : s[i] = t[i] BY <1>1, <1>2 DEF ShownAs
<1>4. \A i \in 1..l : i \in 1..(l + k) OBVIOUS
<1>5. \A i \in 1..(l + k) : t[i] <= n BY <1>3 DEF Rising
<1>6. \A i, j \in 1..(l + k) : i < j => t[i] < t[j] BY <1>3 DEF Rising
<1> QED BY <1>3, <1>4, <1>5, <1>6 DEF Rising

LEMMA NewIsLast ==
    ASSUME NEW w \in Seq(Nat), NEW s \in Seq(Nat), NEW m \in Nat, NEW n \in 0..m,
           Grown(w, s, n), Rising(s, m), \A j \in 1..Len(s) : s[j] < n
    PROVE  Rising(w, m)
<1>1. PICK l \in Nat : l = Len(s) BY NumberOfElements, Zenon
<1>2. Len(w) = l + 1 /\ w[l + 1] = n /\ \A i \in 1..l : w[i] = s[i] BY <1>1 DEF Grown
<1>3. \A i \in 1..l : s[i] < n /\ s[i] <= m /\ s[i] \in Nat BY <1>1 DEF Rising
<1>4. \A i \in 1..(l + 1) : i = l + 1 \/ i \in 1..l OBVIOUS
<1>5. ASSUME NEW i \in 1..(l + 1) PROVE w[i] <= m
  <2>1. n <= m OBVIOUS
  <2> QED BY <1>2, <1>3, <1>4, <2>1
<1>6. ASSUME NEW i \in 1..(l + 1), NEW j \in 1..(l + 1), i < j PROVE w[i] < w[j]
  <2>1. i \in 1..l BY <1>6
  <2>2. CASE j = l + 1 BY <1>2, <1>3, <2>1, <2>2
  <2>3. CASE j \in 1..l
    <3>1. s[i] < s[j] BY <1>1, <1>6, <2>1, <2>3 DEF Rising
    <3> QED BY <1>2, <2>1, <2>3, <3>1
  <2> QED BY <1>4, <2>2, <2>3
<1> QED BY <1>2, <1>5, <1>6 DEF Rising

\* A banner that is first now was behind the open event.
LEMMA PoppedBanner ==
    ASSUME NEW q \in Seq(Message), NEW r \in Seq(Message), NEW live \in BOOLEAN,
           Orderly(q, live), Popped(r, q), NEW i \in {1, 2}, HistoryAt(r, i + 1)
    PROVE  i = 1 /\ r[1] = q[2] /\ HistoryAt(q, 2 + 1) /\ q[1].kind = "open"
<1>1. PICK m \in Nat : m = Len(r) /\ Len(q) = m + 1 BY MessageParts DEF Popped
<1>2. i + 1 <= m /\ r[i + 1].kind = "history" BY <1>1 DEF HistoryAt
<1>3. r[i + 1] = q[(i + 1) + 1] /\ (i + 1) + 1 \in 1..Len(q) BY <1>1, <1>2 DEF Popped
<1>4. MayFollow(q, (i + 1) + 1) BY <1>2, <1>3 DEF Orderly
<1>5. i = 1 /\ q[1].kind = "open" BY <1>4 DEF MayFollow
<1>6. 1 \in 1..Len(r) /\ r[1] = q[1 + 1] BY <1>1, <1>2, <1>5 DEF Popped
<1> QED BY <1>1, <1>2, <1>3, <1>5, <1>6 DEF HistoryAt

\* An event arrives at the pane: what it has to show becomes what it shows.
LEMMA ShownAfter ==
    ASSUME StreamInv, Receive
    PROVE  /\ pane' \in Pane /\ (attached = TRUE => pane'.conn # "waiting")
           /\ pane'.term = pane.term /\ (pane'.term # "ready" => pane'.screen = << >>)
           /\ Shown' \in Seq(Nat)
           /\ \/ down[1].kind \in {"open", "close"} /\ Shown' = Shown
              \/ down[1].kind = "history" /\ Shown' = down[1].data
              \/ down[1].kind = "output" /\ Grown(Shown', Shown, down[1].data[1])
<1>1. StreamTypes BY DEF StreamInv
<1>2. down \in Seq(Message) /\ down # << >> /\ Orderly(down, attached)
  BY <1>1 DEF StreamInv, StreamTypes, Receive
<1> PICK m : m = down[1] OBVIOUS
<1>3. /\ m = Head(down) /\ m \in Message /\ m.data \in Seq(Nat) /\ 1 \in 1..Len(down)
      /\ m.kind \in {"open", "close", "history", "output"}
  <2>1. Len(down) \in Nat /\ Len(down) >= 1 BY <1>2
  <2>2. Head(down) = down[1] /\ 1 \in 1..Len(down) BY <1>2, <2>1
  <2> QED BY <1>2, <2>2, MessageParts
<1>4. /\ pane \in Pane /\ pane.term \in {"loading", "ready", "failed"}
      /\ pane.attempts \in 0..MaxAttempts
      /\ pane.screen \in Seq(Nat) /\ pane.history \in Seq(Nat) /\ pane.pending \in Seq(Nat)
      /\ pane.timer \in BOOLEAN /\ pane.conn \in {"connecting", "open", "waiting"}
  BY <1>1, StreamParts DEF StreamTypes
<1>5. attached = TRUE => pane.conn # "waiting" BY <1>1 DEF StreamTypes
<1>6. pane.term # "ready" => pane.screen = << >> BY DEF StreamInv
<1>7. CASE m.kind = "open"
  <2> PICK timer \in BOOLEAN : timer = (pane.timer \/ pane.term = "ready") OBVIOUS
  <2>1. pane' = [pane EXCEPT !.conn = "open", !.attempts = 0, !.timer = timer]
    BY <1>3, <1>7 DEF Receive, HandleOpen
  <2>2. 0 \in 0..MaxAttempts BY StreamAssumption
  <2>3. /\ pane' \in Pane /\ pane'.conn = "open" /\ pane'.term = pane.term
        /\ pane'.screen = pane.screen /\ pane'.history = pane.history
        /\ pane'.pending = pane.pending
    BY <1>4, <2>1, <2>2 DEF Pane
  <2>4. Shown' = Shown /\ Shown \in Seq(Nat) BY <1>1, <2>3, StreamParts DEF Shown
  <2> QED BY <1>6, <1>7, <2>3, <2>4
<1>8. CASE m.kind = "close"
  <2> PICK attempts : attempts = IF pane.attempts < MaxAttempts THEN pane.attempts + 1
                                 ELSE pane.attempts
    OBVIOUS
  <2>1. pane' = [pane EXCEPT !.conn = "waiting", !.attempts = attempts]
    BY <1>3, <1>8 DEF Receive, HandleClose
  <2>2. attempts \in 0..MaxAttempts BY <1>4, StreamAssumption
  <2>3. /\ pane' \in Pane /\ pane'.term = pane.term
        /\ pane'.screen = pane.screen /\ pane'.history = pane.history
        /\ pane'.pending = pane.pending
    BY <1>4, <2>1, <2>2 DEF Pane
  <2>4. attached = FALSE BY <1>2, <1>3, <1>8 DEF Orderly
  <2>5. Shown' = Shown /\ Shown \in Seq(Nat) BY <1>1, <2>3, StreamParts DEF Shown
  <2> QED BY <1>6, <1>8, <2>3, <2>4, <2>5
<1>9. CASE m.kind = "history"
  <2> PICK d : d = m.data /\ d \in Seq(Nat) BY <1>3
  <2>1. << >> \in Seq(Nat) OBVIOUS
  <2>2. CASE pane.term = "ready"
    <3>1. pane' = [pane EXCEPT !.screen = d] BY <1>3, <1>9, <2>2 DEF Receive, HandleHistory
    <3>2. /\ pane' \in Pane /\ pane'.term = pane.term /\ pane'.screen = d /\ pane'.conn = pane.conn
      BY <1>4, <3>1 DEF Pane
    <3>3. Shown' = d BY <2>2, <3>2 DEF Shown
    <3> QED BY <1>5, <1>9, <2>2, <3>2, <3>3
  <2>3. CASE pane.term # "ready"
    <3>1. pane' = [pane EXCEPT !.hasHistory = TRUE, !.history = d, !.pending = << >>]
      BY <1>3, <1>9, <2>3 DEF Receive, HandleHistory, Buffered
    <3>2. /\ pane' \in Pane /\ pane'.term = pane.term /\ pane'.screen = pane.screen
          /\ pane'.conn = pane.conn /\ pane'.history = d /\ pane'.pending = << >>
      BY <1>4, <2>1, <3>1 DEF Pane
    <3>3. d \o << >> = d OBVIOUS
    <3>4. Shown' = d BY <2>3, <3>2, <3>3 DEF Shown
    <3> QED BY <1>5, <1>6, <1>9, <2>3, <3>2, <3>4
  <2> QED BY <2>2, <2>3
<1>10. CASE m.kind = "output"
  <2>1. Len(m.data) = 1 BY <1>2, <1>3, <1>10 DEF Orderly
  <2>2. PICK n \in Nat : m.data = <<n>> /\ m.data[1] = n
    <3>1. m.data[1] \in Nat /\ m.data = <<m.data[1]>> BY <1>3, <2>1
    <3> QED BY <3>1
  <2>3. CASE pane.term = "ready"
    <3> PICK v \in Seq(Nat) : v = pane.screen BY <1>4
    <3> PICK w : w = v \o <<n>> OBVIOUS
    <3>1. w \in Seq(Nat) /\ Grown(w, v, n)
      <4>1. w = Append(v, n) OBVIOUS
      <4> QED BY <4>1, AppendGrows
    <3>2. pane' = [pane EXCEPT !.screen = w]
      BY <1>3, <1>10, <2>2, <2>3 DEF Receive, HandleOutput
    <3>3. /\ pane' \in Pane /\ pane'.term = pane.term /\ pane'.screen = w /\ pane'.conn = pane.conn
      BY <1>4, <3>1, <3>2 DEF Pane
    <3>4. Shown' = w /\ Shown = v BY <2>3, <3>3 DEF Shown
    <3> QED BY <1>5, <1>10, <2>2, <2>3, <3>1, <3>3, <3>4
  <2>4. CASE pane.term # "ready"
    <3> PICK h \in Seq(Nat), p \in Seq(Nat) : h = pane.history /\ p = pane.pending BY <1>4
    <3> PICK w, x : w = p \o <<n>> /\ x = h \o w OBVIOUS
    <3> PICK v : v = h \o p OBVIOUS
    <3>1. w \in Seq(Nat) /\ v \in Seq(Nat) OBVIOUS
    <3>3. x \in Seq(Nat) /\ Grown(x, v, n) BY JoinedGrows
    <3>4. pane' = [pane EXCEPT !.pending = w]
      BY <1>3, <1>10, <2>2, <2>4 DEF Receive, HandleOutput
    <3>5. /\ pane' \in Pane /\ pane'.term = pane.term /\ pane'.screen = pane.screen
          /\ pane'.conn = pane.conn /\ pane'.pending = w /\ pane'.history = pane.history
      BY <1>4, <3>1, <3>4 DEF Pane
    <3>6. Shown' = x /\ Shown = v BY <2>4, <3>5 DEF Shown
    <3> QED BY <1>5, <1>6, <1>10, <2>2, <2>4, <3>3, <3>5, <3>6
  <2> QED BY <2>3, <2>4
<1> QED BY <1>3, <1>7, <1>8, <1>9, <1>10

LEMMA ReceiveKeeps == ASSUME StreamInv, Receive PROVE StreamInv'
<1>1. StreamTypes BY DEF StreamInv
<1>2. down # << >> /\ down' = Tail(down) /\ UNCHANGED <<session, attached, up, made>>
  BY DEF Receive
<1> PICK q, r, s, w : q = down /\ r = down' /\ s = Shown /\ w = Shown' OBVIOUS
<1>3. /\ q \in Seq(Message) /\ Orderly(q, attached) /\ s \in Seq(Nat) /\ attached \in BOOLEAN
      /\ made \in Nat
  <2>1. s \in Seq(Nat) BY <1>1, StreamParts
  <2> QED BY <1>1, <2>1 DEF StreamInv, StreamTypes
<1>4. r \in Seq(Message) /\ Popped(r, q) BY <1>2, <1>3, TailPopped
<1>5. /\ pane' \in Pane /\ (attached = TRUE => pane'.conn # "waiting")
      /\ (pane'.term # "ready" => pane'.screen = << >>)
      /\ w \in Seq(Nat)
      /\ \/ q[1].kind \in {"open", "close"} /\ w = s
         \/ q[1].kind = "history" /\ w = q[1].data
         \/ q[1].kind = "output" /\ Grown(w, s, q[1].data[1])
  BY ShownAfter
<1>6. /\ Orderly(r, attached)
      /\ q[1].kind \in {"history", "output"} => LeadOf(r) = 0 \/ BeforeHistory(q)
  BY <1>3, <1>4, PopOrderly
<1>7. Same(ToShow(r, w), ToShow(q, s))
  <2>1. CASE q[1].kind = "output"
    <3>1. CASE BeforeHistory(q) BY <1>3, <1>4, <1>5, <3>1, PopBefore
    <3>2. CASE ~BeforeHistory(q) BY <1>3, <1>4, <1>5, <2>1, <3>2, PopChunk
    <3> QED BY <3>1, <3>2
  <2>2. CASE q[1].kind # "output"
    <3>1. \/ q[1].kind \in {"open", "close"} /\ w = s
          \/ q[1].kind = "history" /\ w = q[1].data
      BY <1>5, <2>2
    <3> QED BY <1>3, <1>4, <1>5, <3>1, PopBefore
  <2> QED BY <2>1, <2>2
<1>8. /\ Rising(ToShow(r, w), made)
      /\ attached = TRUE => EndsWith(session.scroll, ToShow(r, w))
  BY <1>3, <1>4, <1>5, <1>6, <1>7, SameKeeps
<1>9. Rising(w, made)
  <2>1. CASE q[1].kind \in {"history", "output"} /\ ~BeforeHistory(q)
    <3>1. LeadOf(r) = 0 BY <1>6, <2>1
    <3> QED BY <1>3, <1>4, <1>5, <1>6, <1>8, <3>1, PrefixRising
  <2>3. CASE BeforeHistory(q)
    <3>1. q[1].kind = "output" /\ HistoryAt(q, 1 + 1) BY <2>3 DEF BeforeHistory
    <3>2. PICK n \in 0..made : n = q[1].data[1] /\ \A j \in 1..Len(s) : s[j] < n
      BY <3>1 DEF StreamInv, BannerIsNew
    <3>3. Grown(w, s, n) BY <1>5, <3>1, <3>2
    <3>4. Rising(s, made) BY DEF StreamInv
    <3> QED BY <1>3, <1>5, <3>2, <3>3, <3>4, NewIsLast
  <2>2. CASE q[1].kind \notin {"history", "output"}
    <3>1. w = s BY <1>5, <2>2
    <3> QED BY <3>1 DEF StreamInv
  <2> QED BY <2>1, <2>2, <2>3
<1>11. BannerIsNew(r, w, made)
  <2> SUFFICES ASSUME NEW i \in {1, 2}, HistoryAt(r, i + 1), r[i].kind = "output"
               PROVE  /\ r[i].data[1] \in 0..made
                      /\ \A j \in 1..Len(w) : w[j] < r[i].data[1]
    BY DEF BannerIsNew
  <2>1. /\ i = 1 /\ r[1] = q[2] /\ HistoryAt(q, 2 + 1) /\ q[1].kind = "open"
    BY <1>3, <1>4, PoppedBanner
  <2>2. w = s BY <1>5, <2>1
  <2>3. BannerIsNew(q, s, made) BY DEF StreamInv
  <2> QED BY <2>1, <2>2, <2>3 DEF BannerIsNew
<1>10. StreamTypes' BY <1>1, <1>2, <1>4, <1>5 DEF StreamTypes
<1> QED BY <1>2, <1>5, <1>6, <1>8, <1>9, <1>10, <1>11 DEF StreamInv

LEMMA RisesOn ==
    ASSUME NEW n \in Nat, NEW s \in Seq(Nat)
    PROVE  Rising(<< >>, n) /\ (Rising(s, n) => Rising(s, n + 1))
<1>1. Rising(<< >>, n) BY DEF Rising
<1> QED BY <1>1, RisingKept

\* A session that is created has printed nothing, or its banner.
LEMMA CreatedSession ==
    ASSUME StreamTypes, NEW resumed \in BOOLEAN, Created(resumed)
    PROVE  /\ session.live = FALSE /\ attached = FALSE /\ made \in Nat
           /\ made' = IF resumed THEN made + 1 ELSE made
           /\ made' \in Nat /\ made <= made'
           /\ session' \in Session /\ session'.live = TRUE /\ Len(session'.scroll) <= Keep
           /\ session'.scroll = IF resumed THEN <<made + 1>> ELSE << >>
           /\ Rising(session'.scroll, made')
<1>1. session.live = FALSE /\ attached = FALSE /\ made \in Nat
  BY StreamParts DEF Created, StreamTypes
<1>2. made' = (IF resumed THEN made + 1 ELSE made) /\ made' \in Nat /\ made <= made'
  BY <1>1 DEF Created
<1>3. PICK q \in Seq(Nat) : /\ q = IF resumed THEN <<made + 1>> ELSE << >>
                            /\ Len(q) <= Keep /\ Rising(q, made')
  <2> PICK q : q = IF resumed THEN <<made + 1>> ELSE << >> OBVIOUS
  <2>1. CASE resumed
    <3>1. q \in Seq(Nat) /\ Len(q) = 1 /\ q[1] = made' BY <1>1, <1>2, <2>1
    <3>2. Rising(q, made') BY <1>2, <3>1 DEF Rising
    <3>3. 1 <= Keep BY StreamAssumption
    <3> QED BY <3>1, <3>2, <3>3
  <2>2. CASE ~resumed
    <3>1. q \in Seq(Nat) /\ Len(q) = 0 BY <2>2
    <3>2. Rising(q, made') BY <1>2, <3>1 DEF Rising
    <3>3. 0 <= Keep BY StreamAssumption
    <3> QED BY <3>1, <3>2, <3>3
  <2> QED BY <2>1, <2>2
<1>4. session' = [NoPty EXCEPT !.live = TRUE, !.scroll = q] BY <1>2, <1>3 DEF Created
<1>5. session' = [live |-> TRUE, scroll |-> q, size |-> DefaultSize] BY <1>4 DEF NoPty
<1>6. DefaultSize \in PtySizes BY DEF PtySizes
<1>7. session' \in Session /\ session'.scroll = q /\ session'.live = TRUE
  BY <1>5, <1>6 DEF Session
<1> QED BY <1>1, <1>2, <1>3, <1>7

\* The session is started for another client.
LEMMA StartKeepsStream ==
    ASSUME StreamInv, NEW resumed \in BOOLEAN, StartSession(resumed) PROVE StreamInv'
<1>1. StreamTypes BY DEF StreamInv
<1>2. Created(resumed) /\ UNCHANGED <<attached, down, up, pane>> BY DEF StartSession
<1> PICK n \in Nat, n1 \in Nat : n = made /\ n1 = made' /\ n <= n1 /\ (n1 = n \/ n1 = n + 1)
  BY <1>1, <1>2, CreatedSession
<1>3. /\ attached = FALSE /\ session' \in Session /\ session'.live = TRUE
      /\ Len(session'.scroll) <= Keep /\ Rising(session'.scroll, n1)
  BY <1>1, <1>2, CreatedSession
<1>4. StreamTypes' BY <1>1, <1>2, <1>3 DEF StreamTypes
<1> PICK s, t : s = Shown /\ t = ToShow(down, Shown) OBVIOUS
<1>5. s \in Seq(Nat) /\ Shown' = s BY <1>1, <1>2, StreamParts DEF Shown
<1>6. t \in Seq(Nat)
  <2>1. down \in Seq(Message) /\ Orderly(down, FALSE) BY <1>1, <1>3 DEF StreamInv, StreamTypes
  <2> QED BY <1>5, <2>1, ToShowElements
<1>7. Rising(s, n) /\ Rising(t, n) BY DEF StreamInv
<1>8. Rising(s, n1) /\ Rising(t, n1) BY <1>5, <1>6, <1>7, RisesOn
<1>9. BannerIsNew(down, s, n1)
  <2>1. BannerIsNew(down, s, n) BY DEF StreamInv
  <2> QED BY <2>1, BannerStays
<1>10. ToShow(down', Shown') = t BY <1>2, <1>5
<1>11. pane'.term # "ready" => pane'.screen = << >> BY <1>2 DEF StreamInv
<1> QED BY <1>2, <1>3, <1>4, <1>5, <1>8, <1>9, <1>10, <1>11 DEF StreamInv

\* The pane is attached: it is sent what the session remembers.
LEMMA UpgradeKeeps ==
    ASSUME StreamInv, NEW resumed \in BOOLEAN, Upgrade(resumed) PROVE StreamInv'
<1>1. StreamTypes BY DEF StreamInv
<1> PICK a, s, r : a = session'.scroll /\ s = Shown /\ r = down' OBVIOUS
<1>2. /\ pane.conn = "connecting" /\ attached' = TRUE /\ UNCHANGED <<up, pane>>
      /\ r = <<Opened>> \o (IF resumed THEN <<Chunk(made')>> ELSE << >>)
                \o (IF a = << >> THEN << >> ELSE <<History(a)>>)
      /\ \/ session.live /\ ~resumed /\ UNCHANGED <<session, made>>
         \/ Created(resumed)
  BY DEF Upgrade, Connecting
<1>6. Rising(session.scroll, made) /\ Rising(s, made) BY DEF StreamInv
<1>3. PICK n \in Nat, n1 \in Nat : /\ n = made /\ n1 = made' /\ n <= n1
                                   /\ n1 = IF resumed THEN n + 1 ELSE n
  <2>1. made \in Nat BY <1>1 DEF StreamTypes
  <2>2. made' = IF resumed THEN made + 1 ELSE made BY <1>1, <1>2, CreatedSession
  <2> QED BY <2>1, <2>2
<1>4. /\ session' \in Session /\ session'.live = TRUE /\ Len(a) <= Keep
      /\ a \in Seq(Nat) /\ s \in Seq(Nat) /\ Rising(a, n1)
      /\ resumed => a = <<n + 1>>
  <2>1. s \in Seq(Nat) BY <1>1, StreamParts
  <2>2. CASE session.live /\ ~resumed /\ UNCHANGED <<session, made>>
    BY <1>1, <1>3, <1>6, <2>1, <2>2, StreamParts DEF StreamTypes
  <2>3. CASE Created(resumed)
    <3>1. session' \in Session /\ session'.live = TRUE /\ Len(a) <= Keep /\ Rising(a, n1)
      BY <1>1, <1>3, <2>3, CreatedSession
    <3>2. resumed => a = <<n + 1>> BY <1>1, <1>3, <2>3, CreatedSession
    <3>3. a \in Seq(Nat) BY <3>1 DEF Session
    <3> QED BY <2>1, <3>1, <3>2, <3>3
  <2> QED BY <1>2, <2>2, <2>3
<1>5. Shown' = s BY <1>2 DEF Shown
<1>12. Rising(s, n1)
  <2>1. Rising(s, n) BY <1>3, <1>6
  <2> QED BY <1>3, <1>4, <2>1, RisesOn
<1>13. PICK m \in Message, c \in Message, h \in Message :
         m = Opened /\ c = Chunk(n + 1) /\ h = History(a)
  <2>1. Opened \in Message BY DEF Opened, Message
  <2>2. Chunk(n + 1) \in Message BY <1>3 DEF Chunk, Message
  <2>3. History(a) \in Message BY <1>4 DEF History, Message
  <2> QED BY <2>1, <2>2, <2>3
<1>7. /\ r \in Seq(Message) /\ Orderly(r, TRUE) /\ Rising(ToShow(r, s), n1)
      /\ EndsWith(a, ToShow(r, s)) /\ BannerIsNew(r, s, n1)
  <2>1. CASE ~resumed /\ a = << >>
    <3>1. r = <<Opened>>
      <4>1. r = (<<Opened>> \o << >>) \o << >> BY <1>2, <2>1
      <4> QED BY <1>13, <4>1, ThreeMessages
    <3>2. r \in Seq(Message) /\ Orderly(r, TRUE) /\ Same(ToShow(r, s), s)
          /\ BannerIsNew(r, s, n1)
      BY <1>4, <3>1, FirstMessages
    <3>3. ToShow(r, s) \in Seq(Nat) BY <1>4, <3>2, ToShowElements
    <3> QED BY <1>4, <1>12, <2>1, <3>2, <3>3, RisingKept, SameSuffix
  <2>3. CASE resumed
    <3>1. r = <<Opened, Chunk(n + 1), History(a)>>
      <4>3. PICK v \in Nat : v = n + 1 BY <1>3
      <4>4. a = <<v>> BY <1>4, <2>3, <4>3
      <4>1. a # << >> BY <4>4
      <4>2. r = (<<Opened>> \o <<Chunk(n + 1)>>) \o <<History(a)>> BY <1>2, <1>3, <2>3, <4>1
      <4> QED BY <1>13, <4>2, ThreeMessages
    <3>2. r \in Seq(Message) /\ Orderly(r, TRUE) /\ Same(ToShow(r, s), a)
          /\ BannerIsNew(r, s, n + 1)
      BY <1>3, <1>4, <1>6, <3>1, BannerMessages
    <3>3. ToShow(r, s) \in Seq(Nat) BY <1>4, <3>2, ToShowElements
    <3>4. n1 = n + 1 BY <1>3, <2>3
    <3> QED BY <1>4, <3>2, <3>3, <3>4, RisingKept, SameSuffix
  <2>2. CASE ~resumed /\ a # << >>
    <3>1. r = <<Opened, History(a)>>
      <4>1. r = (<<Opened>> \o << >>) \o <<History(a)>> BY <1>2, <2>2
      <4> QED BY <1>13, <4>1, ThreeMessages
    <3>2. r \in Seq(Message) /\ Orderly(r, TRUE) /\ Same(ToShow(r, s), a)
          /\ BannerIsNew(r, s, n1)
      BY <1>4, <3>1, FirstMessages
    <3>3. ToShow(r, s) \in Seq(Nat) BY <1>4, <3>2, ToShowElements
    <3> QED BY <1>4, <3>2, <3>3, RisingKept, SameSuffix
  <2> QED BY <2>1, <2>2, <2>3
<1>8. StreamTypes' BY <1>1, <1>2, <1>3, <1>4, <1>7 DEF StreamTypes
<1>9. pane'.term # "ready" => pane'.screen = << >> BY <1>2 DEF StreamInv
<1> QED BY <1>2, <1>3, <1>4, <1>5, <1>7, <1>8, <1>9, <1>12 DEF StreamInv

\* The socket is closed at once: with a note, or without having been opened.
LEMMA RefusalKeeps ==
    ASSUME StreamInv, UpgradeFailsToStart \/ UpgradeRefused PROVE StreamInv'
<1>1. StreamTypes BY DEF StreamInv
<1> PICK n, s, r : n = made /\ s = Shown /\ r = down' OBVIOUS
<1>2. n \in Nat /\ s \in Seq(Nat) /\ session.scroll \in Seq(Nat)
  <2>1. n \in Nat BY <1>1 DEF StreamTypes
  <2> QED BY <1>1, <2>1, StreamParts
<1>3. /\ attached = FALSE /\ UNCHANGED <<session, attached, up, pane>>
      /\ \/ made' = n + 1 /\ r = <<Opened, Chunk(n + 1), Closed>>
         \/ made' = n /\ r = <<Closed>>
  BY <1>1 DEF UpgradeFailsToStart, UpgradeRefused, Connecting, StreamTypes
<1>4. Shown' = s BY <1>3 DEF Shown
<1>5. Rising(session.scroll, n) /\ Rising(s, n) BY DEF StreamInv
<1>6. PICK n1 \in Nat : n1 = made' /\ (n1 = n \/ n1 = n + 1) BY <1>2, <1>3
<1>7. Rising(session.scroll, n1) /\ Rising(s, n1) BY <1>2, <1>5, <1>6, RisesOn
<1>8. /\ r \in Seq(Message) /\ Orderly(r, FALSE) /\ Rising(ToShow(r, s), n1)
      /\ BannerIsNew(r, s, n1)
  <2>1. CASE made' = n + 1 /\ r = <<Opened, Chunk(n + 1), Closed>>
    <3> PICK q : q = <<Opened>> OBVIOUS
    <3> PICK p : p = Append(q, Chunk(n + 1)) OBVIOUS
    <3>1. r = Append(p, Closed)
      <4>1. PICK m \in Message : m = Opened
        <5>1. Opened \in Message BY DEF Opened, Message
        <5> QED BY <5>1
      <4>2. PICK c \in Message : c = Chunk(n + 1)
        <5>1. n + 1 \in Nat BY <1>2
        <5>2. Chunk(n + 1) \in Message BY <5>1 DEF Chunk, Message
        <5> QED BY <5>2
      <4>3. PICK e \in Message : e = Closed
        <5>1. Closed \in Message BY DEF Closed, Message
        <5> QED BY <5>1
      <4>4. <<m, c, e>> = Append(Append(<<m>>, c), e) OBVIOUS
      <4> QED BY <2>1, <4>1, <4>2, <4>3, <4>4
    <3>2. n + 1 \in Nat /\ << >> \in Seq(Nat) BY <1>2
    <3>10. n \in Nat /\ n <= n + 1 BY <1>2
    <3>11. BannerIsNew(q, s, n) BY <1>2, <3>2, FirstMessages
    <3>3. q \in Seq(Message) /\ Orderly(q, TRUE) /\ Same(ToShow(q, s), s)
      BY <1>2, <3>2, FirstMessages
    <3>4. p \in Seq(Message) /\ Orderly(p, TRUE) /\ Grown(ToShow(p, s), ToShow(q, s), n + 1)
      BY <1>2, <3>2, <3>3, PushChunk
    <3>5. r \in Seq(Message) /\ Orderly(r, FALSE) /\ Same(ToShow(r, s), ToShow(p, s))
      BY <1>2, <3>1, <3>4, PushClose
    <3> PICK u, v, w : u = ToShow(q, s) /\ v = ToShow(p, s) /\ w = ToShow(r, s) OBVIOUS
    <3>6. u \in Seq(Nat) /\ v \in Seq(Nat) /\ w \in Seq(Nat)
      BY <1>2, <3>3, <3>4, <3>5, ToShowElements
    <3>7. Rising(u, n) BY <1>2, <1>5, <3>3, <3>6, RisingKept
    <3>8. Rising(v, n + 1) BY <1>2, <3>4, <3>6, <3>7, RisingKept
    <3>9. Rising(w, n + 1) BY <3>2, <3>5, <3>6, <3>8, RisingKept
    <3>12. BannerIsNew(p, s, n + 1) BY <1>2, <3>2, <3>3, <3>10, <3>11, PushChunk
    <3>13. BannerIsNew(r, s, n + 1) BY <1>2, <3>1, <3>2, <3>4, <3>12, PushClose
    <3> QED BY <1>6, <2>1, <3>5, <3>9, <3>13
  <2>2. CASE made' = n /\ r = <<Closed>>
    <3> PICK q : q = << >> OBVIOUS
    <3>1. r = Append(q, Closed) BY <2>2
    <3>2. q \in Seq(Message) /\ Orderly(q, TRUE) /\ Same(ToShow(q, s), s)
      BY <1>2, EmptyQueue
    <3>3. r \in Seq(Message) /\ Orderly(r, FALSE) /\ Same(ToShow(r, s), ToShow(q, s))
      BY <1>2, <3>1, <3>2, PushClose
    <3> PICK u, w : u = ToShow(q, s) /\ w = ToShow(r, s) OBVIOUS
    <3>4. u \in Seq(Nat) /\ w \in Seq(Nat) BY <1>2, <3>2, <3>3, ToShowElements
    <3>5. Rising(u, n) BY <1>2, <1>5, <3>2, <3>4, RisingKept
    <3>6. Rising(w, n) BY <1>2, <3>3, <3>4, <3>5, RisingKept
    <3>7. BannerIsNew(r, s, n) BY <1>2, <3>1, <3>2, EmptyQueue, PushClose
    <3> QED BY <1>6, <2>2, <3>3, <3>6, <3>7
  <2> QED BY <1>3, <2>1, <2>2
<1>9. StreamTypes' BY <1>1, <1>3, <1>6, <1>8 DEF StreamTypes
<1>10. pane'.term # "ready" => pane'.screen = << >> BY <1>3 DEF StreamInv
<1> QED BY <1>3, <1>4, <1>6, <1>7, <1>8, <1>9, <1>10 DEF StreamInv

\* A new pane shows nothing yet.
LEMMA PaneIsNew ==
    ASSUME NEW z \in Sizes
    PROVE  /\ NewPane(z) \in Pane /\ NewPane(z).conn = "connecting" /\ NewPane(z).term = "loading"
           /\ NewPane(z).screen = << >> /\ NewPane(z).history = << >> /\ NewPane(z).pending = << >>
<1>1. 0 \in 0..MaxAttempts /\ << >> \in Seq(Nat) BY StreamAssumption
<1> QED BY <1>1 DEF NewPane, Pane

LEMMA RemountKeeps == ASSUME StreamInv, Remount PROVE StreamInv'
<1>1. StreamTypes BY DEF StreamInv
<1>2. /\ attached' = FALSE /\ down' = << >> /\ up' = << >> /\ UNCHANGED <<session, made>>
      /\ \E z \in Sizes : pane' = NewPane(z)
  BY DEF Remount
<1>3. /\ pane' \in Pane /\ pane'.conn = "connecting" /\ pane'.term = "loading"
      /\ pane'.screen = << >> /\ pane'.history = << >> /\ pane'.pending = << >>
  BY <1>2, PaneIsNew
<1>4. << >> \o << >> = << >> OBVIOUS
<1>5. Shown' = << >> BY <1>3, <1>4 DEF Shown
<1>6. made \in Nat BY <1>1 DEF StreamTypes
<1> PICK e : e = << >> OBVIOUS
<1>7. e \in Seq(Nat) /\ e \in Seq(Message) /\ e \in Seq(Sizes) OBVIOUS
<1>8. Orderly(e, FALSE) /\ Same(ToShow(e, e), e) /\ BannerIsNew(e, e, made)
  BY <1>6, <1>7, EmptyQueue
<1>9. ToShow(e, e) \in Seq(Nat) BY <1>7, <1>8, ToShowElements
<1>10. Rising(e, made) BY <1>6, <1>7, RisesOn
<1>11. Rising(ToShow(e, e), made) BY <1>6, <1>7, <1>8, <1>9, <1>10, RisingKept
<1>12. StreamTypes' BY <1>1, <1>2, <1>3, <1>7 DEF StreamTypes
<1> QED BY <1>2, <1>3, <1>5, <1>8, <1>10, <1>11, <1>12 DEF StreamInv

LEMMA StreamStart == StreamInit => StreamInv
<1> SUFFICES ASSUME StreamInit PROVE StreamInv OBVIOUS
<1>1. /\ session = NoPty /\ attached = FALSE /\ down = << >> /\ up = << >> /\ made = 0
      /\ \E z \in Sizes : pane = NewPane(z)
  BY DEF StreamInit
<1>2. /\ pane \in Pane /\ pane.conn = "connecting" /\ pane.term = "loading"
      /\ pane.screen = << >> /\ pane.history = << >> /\ pane.pending = << >>
  BY <1>1, PaneIsNew
<1>3. << >> \o << >> = << >> OBVIOUS
<1>4. Shown = << >> BY <1>2, <1>3 DEF Shown
<1> PICK e : e = << >> OBVIOUS
<1>5. e \in Seq(Nat) /\ e \in Seq(Message) /\ e \in Seq(Sizes) OBVIOUS
<1>6. Orderly(e, FALSE) /\ Same(ToShow(e, e), e) /\ BannerIsNew(e, e, 0) BY <1>5, EmptyQueue
<1>7. ToShow(e, e) \in Seq(Nat) BY <1>5, <1>6, ToShowElements
<1>8. Rising(e, 0) BY <1>5, RisesOn
<1>9. Rising(ToShow(e, e), 0) BY <1>5, <1>6, <1>7, <1>8, RisingKept
<1>10. session \in Session /\ session.scroll = << >> /\ Len(session.scroll) <= Keep
  BY <1>1, StreamAssumption DEF NoPty, Session, PtySizes
<1>11. StreamTypes BY <1>1, <1>2, <1>5, <1>10 DEF StreamTypes
<1> QED BY <1>1, <1>2, <1>4, <1>6, <1>8, <1>9, <1>10, <1>11 DEF StreamInv

LEMMA StreamStep == StreamInv /\ [StreamNext]_streamVars => StreamInv'
<1> SUFFICES ASSUME StreamInv, [StreamNext]_streamVars PROVE StreamInv' OBVIOUS
<1>1. CASE \E long \in BOOLEAN : PtyOutput(long) BY <1>1, OutputKeepsStream
<1>2. CASE \E exited \in BOOLEAN : SessionEnds(exited) BY <1>2, EndKeepsStream
<1>3. CASE \E resumed \in BOOLEAN : StartSession(resumed) BY <1>3, StartKeepsStream
<1>4. CASE \E resumed \in BOOLEAN : Upgrade(resumed) BY <1>4, UpgradeKeeps
<1>5. CASE UpgradeFailsToStart \/ UpgradeRefused BY <1>5, RefusalKeeps
<1>6. CASE \/ \E s \in Sizes : ResizeSession(s) \/ Resize(s) \/ Refit(s)
           \/ ReceiveResize \/ SendResize
  BY <1>6, ResizesKeep
<1>7. CASE Break BY <1>7, BreakKeeps
<1>8. CASE Receive BY <1>8, ReceiveKeeps
<1>9. CASE TerminalReady \/ TerminalFails \/ Reconnect BY <1>9, PaneKeeps
<1>10. CASE Remount BY <1>10, RemountKeeps
<1>11. CASE UNCHANGED streamVars
  <2>1. StreamTypes' BY <1>11 DEF streamVars, StreamInv, StreamTypes
  <2>2. Shown' = Shown BY <1>11 DEF streamVars, Shown
  <2>3. pane'.term # "ready" => pane'.screen = << >> BY <1>11 DEF streamVars, StreamInv
  <2> QED BY <1>11, <2>1, <2>2, <2>3, QuietKeeps DEF streamVars
<1> QED BY <1>1, <1>2, <1>3, <1>4, <1>5, <1>6, <1>7, <1>8, <1>9, <1>10, <1>11 DEF StreamNext

\* Of two sequences of which one ends with the other, IsSuffix says so.
LEMMA EndsWithIsSuffix ==
    ASSUME NEW a \in Seq(Nat), NEW t \in Seq(Nat), EndsWith(a, t)
    PROVE  StreamSeqs!IsSuffix(a, t)
<1>1. PICK la \in Nat, lt \in Nat : la = Len(a) /\ lt = Len(t) BY NumberOfElements, Zenon
<1>2. la <= lt BY <1>1 DEF EndsWith
<1> DEFINE ra == [i \in 1..la |-> a[(la - i) + 1]]
           rt == [i \in 1..lt |-> t[(lt - i) + 1]]
<1>3. StreamSeqs!Reverse(a) = ra /\ StreamSeqs!Reverse(t) = rt
  BY <1>1 DEF StreamSeqs!Reverse
<1>4. \A i \in 1..la : ra[i] = a[(la - i) + 1] /\ ra[i] \in Nat
  <2> TAKE i \in 1..la
  <2>1. (la - i) + 1 \in 1..la OBVIOUS
  <2>2. a[(la - i) + 1] \in Nat BY <1>1, <2>1
  <2> QED BY <2>2
<1>5. \A i \in 1..lt : rt[i] = t[(lt - i) + 1] /\ rt[i] \in Nat
  <2> TAKE i \in 1..lt
  <2>1. (lt - i) + 1 \in 1..lt OBVIOUS
  <2>2. t[(lt - i) + 1] \in Nat BY <1>1, <2>1
  <2> QED BY <2>2
<1>6. ra \in [1..la -> Nat] /\ rt \in [1..lt -> Nat] BY <1>4, <1>5
<1>7. ra \in Seq(Nat) /\ Len(ra) = la /\ rt \in Seq(Nat) /\ Len(rt) = lt
  BY <1>6, NumbersInARow
<1>8. ASSUME NEW i \in 1..la PROVE ra[i] = rt[i]
  <2>1. (la - i) + 1 \in 1..la /\ (lt - la) + ((la - i) + 1) = (lt - i) + 1 /\ i \in 1..lt
    BY <1>2
  <2>2. a[(la - i) + 1] = t[(lt - la) + ((la - i) + 1)] BY <1>1, <2>1 DEF EndsWith
  <2> QED BY <1>4, <1>5, <2>1, <2>2
<1> HIDE DEF ra, rt
<1>9. SubSeq(ra, 1, la) = SubSeq(rt, 1, la)
  BY <1>2, <1>7, <1>8
<1> QED BY <1>2, <1>3, <1>7, <1>9 DEF StreamSeqs!IsSuffix, StreamSeqs!IsPrefix

LEMMA StreamInvIsSafe == StreamInv => StreamSafe
<1> SUFFICES ASSUME StreamInv PROVE StreamSafe OBVIOUS
<1>1. StreamTypes BY DEF StreamInv
<1>2. StreamTypeOK
  <2>1. /\ session.size \in {Clamp(s) : s \in Sizes} \cup {DefaultSize}
        /\ pane.attempts <= MaxAttempts
        /\ pane.term \in {"loading", "ready", "failed"} /\ pane.fit \in Sizes
        /\ pane.conn \in {"connecting", "open", "waiting"}
    BY <1>1, StreamParts, StreamAssumption DEF PtySizes
  <2>2. attached => session.live /\ pane.conn # "waiting" BY <1>1 DEF StreamTypes
  <2> QED BY <1>1, <2>1, <2>2 DEF StreamTypeOK, StreamTypes
<1>3. \A i, j \in DOMAIN pane.screen : i < j => pane.screen[i] < pane.screen[j]
  <2>1. pane.screen \in Seq(Nat) BY <1>1, StreamParts
  <2>2. DOMAIN pane.screen = 1..Len(pane.screen) BY <2>1
  <2>3. CASE pane.term = "ready"
    <3>1. Rising(pane.screen, made) BY <2>3 DEF StreamInv, Shown
    <3> QED BY <2>2, <3>1 DEF Rising
  <2>4. CASE pane.term # "ready"
    <3>1. Len(pane.screen) = 0 BY <2>4 DEF StreamInv
    <3> QED BY <2>2, <3>1
  <2> QED BY <2>3, <2>4
<1>4. ASSUME attached, down = << >>, pane.term = "ready"
      PROVE  StreamSeqs!IsSuffix(session.scroll, pane.screen)
  <2> PICK a, s, t : a = session.scroll /\ s = pane.screen /\ t = ToShow(<< >>, s) OBVIOUS
  <2>1. Shown = s BY <1>4 DEF Shown
  <2>2. a \in Seq(Nat) /\ s \in Seq(Nat) BY <1>1, StreamParts
  <2>3. Orderly(<< >>, TRUE) /\ Same(t, s) /\ << >> \in Seq(Message) BY <2>2, EmptyQueue
  <2>4. t \in Seq(Nat) BY <2>2, <2>3, ToShowElements
  <2>5. attached = TRUE BY <1>1, <1>4 DEF StreamTypes
  <2>6. EndsWith(a, t) BY <1>4, <2>1, <2>5 DEF StreamInv
  <2>7. Same(s, t) BY <2>3 DEF Same
  <2>8. EndsWith(a, s) BY <2>2, <2>4, <2>6, <2>7, SuffixKept
  <2> QED BY <2>2, <2>8, EndsWithIsSuffix
<1> QED BY <1>2, <1>3, <1>4 DEF StreamSafe, ScreenFollows

\* useTerminalSocket and useXtermInstance: the pane shows the output of its
\* session in order, once and to the end.
THEOREM ScreenIsTrue == StreamSpec => []StreamSafe
BY StreamStart, StreamStep, StreamInvIsSafe, PTL DEF StreamSpec
=============================================================================
