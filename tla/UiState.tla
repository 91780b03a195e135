------------------------------- MODULE UiState -------------------------------
(***************************************************************************)
(* The UI state of a page and the copy the API keeps of it: hydration when *)
(* the page is opened, the debounced PATCH after a change, the pruning of  *)
(* references to terminals on both sides, and what the registry gives back *)
(* when the API restarts.                                                  *)
(***************************************************************************)
EXTENDS Naturals, Sequences, FiniteSets
UiSeqs == INSTANCE SequencesExt

CONSTANTS
    Preferences, \* values of a preference
    Default,     \* the value a page starts with
    Unset,       \* no value: a preference the API does not have
    UiTerminals, \* terminal ids
    MaxPatches   \* bound on the PATCHes under way

ASSUME UiAssumption == Default \in Preferences

VARIABLES
    stored,    \* the uiState of the API
    existing,  \* the terminals of the API
    hydration, \* the page: phase, what its two reads brought, touched by the user?
    columns,   \* the terminals the page knows
    ui,        \* what the page shows
    baseline,  \* lastPersistedUiStateRef
    saveTimer, \* is a save scheduled?
    patches,   \* the PATCHes under way
    doubt      \* history: what may have parted the two copies

uiVars == <<stored, existing, hydration, columns, ui, baseline, saveTimer, patches, doubt>>

-----------------------------------------------------------------------------
\* The canvas reports its open panels by the ids of their nodes (helpers.tsx).
PanelId(t) == <<"a", t>>
PanelsOf(known) == {PanelId(t) : t \in known}

\* nav is the active view, min the minimized terminals and their widths, open
\* canvasOpenTerminalIds; the other preferences are saved as open is.
Snapshot == [nav : Preferences, min : SUBSET UiTerminals, open : SUBSET PanelsOf(UiTerminals)]
Kept ==
    [nav : Preferences \cup {Unset}, min : SUBSET UiTerminals, open : SUBSET PanelsOf(UiTerminals)]
Defaults == [nav |-> Default, min |-> {}, open |-> {}]
NotRead == [unread |-> TRUE]
Reading == [phase |-> "reading", touched |-> FALSE, read |-> NotRead]

UiInit ==
    /\ stored = [nav |-> Unset, min |-> {}, open |-> {}]
    /\ existing \in SUBSET UiTerminals
    /\ hydration = Reading /\ columns = {} /\ ui = Defaults /\ baseline = NotRead
    /\ saveTimer = FALSE /\ patches = <<>> /\ doubt = "none"

\* The effect that saves: it runs when what it depends on changed, replaces
\* the timer, and does nothing when the payload is the one last persisted.
SaveEffect ==
    /\ saveTimer' = IF ui' = ui /\ hydration'.phase = hydration.phase THEN saveTimer
                    ELSE hydration'.phase = "ready" /\ baseline' # ui'
    /\ doubt' = IF ui' # ui /\ hydration'.phase = "ready" /\ baseline' = ui' /\ patches # <<>>
                THEN "all" ELSE doubt

\* retainActiveTerminalIds: what is not the id of a known terminal goes, and no
\* id of a node is.
Retained(s, known) == [s EXCEPT !.min = @ \cap known, !.open = @ \cap known]

-----------------------------------------------------------------------------
(* The page.                                                               *)

\* readUiState was answered; it returns null when the request fails.
ReadSnapshot(s) ==
    /\ hydration.phase = "reading" /\ hydration.read = NotRead
    /\ hydration' = [hydration EXCEPT !.read = s]
    /\ UNCHANGED <<stored, existing, columns, ui, baseline, saveTimer, patches, doubt>>

OrDefault(value) == IF value = Unset THEN Default ELSE value
Filled(s) == [s EXCEPT !.nav = OrDefault(@)]

\* applyHydratedUiState, then the pruning effect of the new columns.
HydrateUi(known) ==
    /\ hydration.phase = "reading" /\ hydration.read # NotRead
    /\ hydration' = [hydration EXCEPT !.phase = "ready", !.read = NotRead]
    /\ columns' = known
    /\ baseline' = Retained(Filled(hydration.read), known)
    /\ ui' = Retained(Filled(hydration.read), known)
    /\ SaveEffect
    /\ UNCHANGED <<stored, existing, patches>>

\* Without a snapshot the defaults are taken for what the API has.
HydrateWithout(known) ==
    /\ hydration.phase = "reading"
    /\ hydration' = [hydration EXCEPT !.phase = "ready", !.read = NotRead]
    /\ columns' = known /\ baseline' = Defaults /\ ui' = Defaults
    /\ saveTimer' = FALSE /\ doubt' = "all"
    /\ UNCHANGED <<stored, existing, patches>>

\* The list of terminals cannot be read: no columns, no baseline, and the
\* page counts as hydrated.
HydrateFails ==
    /\ hydration.phase = "reading"
    /\ hydration' = [hydration EXCEPT !.phase = "ready", !.read = NotRead]
    /\ columns' = {} /\ ui' = ui /\ baseline' = NotRead
    /\ saveTimer' = TRUE /\ doubt' = "all"
    /\ UNCHANGED <<stored, existing, patches>>

\* The user changes something; bounded: not after the copies have parted.
Change(next) ==
    /\ hydration.phase = "ready" /\ next # ui /\ doubt # "all"
    /\ next.min \subseteq columns /\ next.open \subseteq PanelsOf(columns)
    /\ \E f \in {"nav", "min", "open"} : \A g \in DOMAIN ui \ {f} : next[g] = ui[g]
    /\ ui' = next
    /\ hydration' = [hydration EXCEPT !.touched = TRUE]
    /\ UNCHANGED <<stored, existing, columns, baseline, patches>>
    /\ SaveEffect

\* The list of terminals is read again.
RefreshList ==
    /\ hydration.phase = "ready" /\ columns # existing
    /\ columns' = existing
    /\ ui' = Retained(ui, existing)
    /\ UNCHANGED <<stored, existing, hydration, baseline, patches>>
    /\ SaveEffect

\* The debounce is over.
SendPatch ==
    /\ saveTimer /\ Len(patches) < MaxPatches
    /\ saveTimer' = FALSE
    /\ patches' = Append(patches, [payload |-> ui, phase |-> "sent", orphan |-> FALSE])
    /\ doubt' = IF patches # <<>> THEN "all" ELSE doubt
    /\ UNCHANGED <<stored, existing, hydration, columns, ui, baseline>>

\* The answer to a PATCH.  A failure is only logged.
PatchAnswered(s) ==
    /\ s \in DOMAIN patches /\ patches[s].phase # "sent"
    /\ patches' = UiSeqs!RemoveAt(patches, s)
    /\ LET good == patches[s].phase = "ok" /\ ~patches[s].orphan
       IN /\ baseline' = IF good THEN patches[s].payload ELSE baseline
          /\ doubt' = IF good THEN doubt ELSE "all"
    /\ UNCHANGED <<stored, existing, hydration, columns, ui, saveTimer>>

\* The page is loaded anew: its timer is gone, its requests go on.
ReloadPage ==
    /\ hydration.phase = "ready"
    /\ hydration' = Reading /\ columns' = {} /\ ui' = Defaults /\ baseline' = NotRead
    /\ saveTimer' = FALSE
    /\ patches' = [s \in DOMAIN patches |-> [patches[s] EXCEPT !.orphan = TRUE]]
    /\ doubt' = IF patches = <<>> THEN "none" ELSE "all"
    /\ UNCHANGED <<stored, existing>>

-----------------------------------------------------------------------------
(* The API.                                                                *)

\* pruneUiStateTerminalReferences: the terminals open on the canvas stay.
Pruned(s, terminals) == [s EXCEPT !.min = @ \cap terminals]

\* GET /api/ui-state: readUiStateSnapshot.
ServeSnapshot == ReadSnapshot(Pruned(stored, existing))

\* Mutant: an empty list does not replace what is there.
ServeNonEmpty(s) ==
    /\ s \in DOMAIN patches /\ patches[s].phase = "sent"
    /\ LET p == patches[s].payload
       IN stored' = Pruned([p EXCEPT !.min = IF @ = {} THEN stored.min ELSE @], existing)
    /\ patches' = [patches EXCEPT ![s].phase = "ok"]
    /\ UNCHANGED <<existing, hydration, columns, ui, baseline, saveTimer, doubt>>

\* PATCH /api/ui-state: parseUiStatePatch, applyUiStatePatch, persistRegistry.
ServePatch(s) ==
    /\ s \in DOMAIN patches /\ patches[s].phase = "sent"
    /\ stored' = Pruned(patches[s].payload, existing)
    /\ patches' = [patches EXCEPT ![s].phase = "ok"]
    /\ UNCHANGED <<existing, hydration, columns, ui, baseline, saveTimer, doubt>>

\* The request is refused or lost before it is served.
PatchFails(s) ==
    /\ s \in DOMAIN patches /\ patches[s].phase = "sent"
    /\ patches' = [patches EXCEPT ![s].phase = "error"]
    /\ UNCHANGED <<stored, existing, hydration, columns, ui, baseline, saveTimer, doubt>>

\* The ids that the page or the API may still mention when they are reused.
Mentioned ==
    IF hydration.phase = "reading" \/ patches # <<>> THEN UiTerminals
    ELSE columns \cup (IF baseline = NotRead THEN {} ELSE baseline.min)

\* Terminals come and go; every change persists the registry, pruned.
CreateTerminal(t) ==
    /\ t \notin existing
    /\ existing' = existing \cup {t}
    /\ stored' = Pruned(stored, existing')
    /\ doubt' = IF t \in Mentioned THEN "all" ELSE doubt
    /\ UNCHANGED <<hydration, columns, ui, baseline, saveTimer, patches>>

TerminalDeleted(t) ==
    /\ t \in existing
    /\ existing' = existing \ {t}
    /\ stored' = Pruned(stored, existing')
    /\ UNCHANGED <<hydration, columns, ui, baseline, saveTimer, patches, doubt>>

\* parsePersistedUiState: the registry's document has the active view, and
\* nothing reads it.
Parsed(s) == [s EXCEPT !.nav = Unset]

\* The API is stopped, which writes the registry, and started again.
ApiRestart ==
    /\ stored' = Pruned(Parsed(stored), existing)
    /\ doubt' = IF doubt = "none" THEN "view" ELSE doubt
    /\ UNCHANGED <<existing, hydration, columns, ui, baseline, saveTimer, patches>>

-----------------------------------------------------------------------------
UiNext ==
    \/ ServeSnapshot
    \/ HydrateUi(existing) \/ HydrateWithout(existing) \/ HydrateFails
    \/ \E next \in Snapshot : Change(next)
    \/ RefreshList \/ SendPatch \/ ReloadPage \/ ApiRestart
    \/ \E s \in 1..MaxPatches : ServePatch(s) \/ PatchFails(s) \/ PatchAnswered(s)
    \/ \E t \in UiTerminals : CreateTerminal(t) \/ TerminalDeleted(t)

UiSpec == UiInit /\ [][UiNext]_uiVars

-----------------------------------------------------------------------------
\* Types of the page and of the API's copy.
UiTypeOK ==
    /\ stored \in Kept /\ existing \subseteq UiTerminals /\ columns \subseteq UiTerminals
    /\ hydration.phase \in {"reading", "ready"} /\ ui \in Snapshot
    /\ baseline \in Snapshot \cup {NotRead} /\ saveTimer \in BOOLEAN
    /\ \A s \in DOMAIN patches : patches[s].payload \in Snapshot
    /\ doubt \in {"none", "view", "all"}

\* usePersistedUiState: when a page has no save scheduled and none under way,
\* the API has what the page shows of the terminals there are (and perhaps
\* panels the page has dropped), unless saves overlapped, one failed, the
\* hydration failed, a change was undone while it was being saved, or the API
\* restarted, which loses the view alone.
SettledIsSaved ==
    (hydration.phase = "ready" /\ ~saveTimer /\ patches = <<>> /\ doubt # "all") =>
        /\ stored.min \cap columns = ui.min \cap existing
        /\ ui.open \subseteq stored.open
        /\ doubt = "none" =>
               stored.nav \in {ui.nav} \cup (IF ui.nav = Default THEN {Unset} ELSE {})

\* applyHydratedUiState: a page that nobody touched never saves another view
\* than the one it read.
OpeningChangesNothing ==
    (hydration.phase = "ready" /\ ~hydration.touched /\ baseline # NotRead) =>
        ui.nav = baseline.nav

\* registry.ts "Removes references to deleted terminals from persisted UI
\* state": whatever a page that does not know of a deletion yet sends, the API
\* minimizes no terminal that is gone.
MinimizedAreThere == stored.min \subseteq existing

\* The saved UI state: a settled page and the API agree, opening a page changes
\* nothing, and nothing of a deleted terminal is kept minimized.
UiSafe == UiTypeOK /\ SettledIsSaved /\ OpeningChangesNothing /\ MinimizedAreThere
=============================================================================
