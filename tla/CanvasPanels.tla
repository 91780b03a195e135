---------------------------- MODULE CanvasPanels ----------------------------
(***************************************************************************)
(* The canvas of the page: which terminals have an open panel, what of it  *)
(* is reported to be saved, how the page brings up Sentiph by itself or    *)
(* after a click, and the dialog that deletes all terminals.  The effects  *)
(* of one render are one step, Commit; the user and the answers act        *)
(* between renders.  The list of the API is read in one step: delayed      *)
(* lists and events are the subject of TerminalEvents, and the PATCH that  *)
(* saves is that of UiState.                                               *)
(***************************************************************************)
EXTENDS Naturals, FiniteSets

CONSTANTS
    Terminals,  \* terminal ids
    Sentiph,    \* the terminal of Sentiph; the others are its children
    None,       \* no terminal
    MaxMoves    \* bound: what users and agents do

VARIABLES
    alive,     \* the terminals of the API
    prompted,  \* those with hasUserPrompt
    saved,     \* canvasOpenTerminalIds as the API has it
    page,      \* the state and the refs of the canvas
    spawns,    \* its POSTs for a Sentiph terminal, by who asked: the phase
    sweep,     \* DeleteAllTerminalsDialog
    moves,     \* how much users and agents did
    owed       \* history: panels that were saved as open when the page was
               \* opened, until the user closes them

canvasVars == <<alive, prompted, saved, page, spawns, sweep, moves, owed>>

-----------------------------------------------------------------------------
NodeId(t) == <<"a", t>>
Nodes(known) == {NodeId(t) : t \in known}

\* No terminal has the node id of another as its id: allocateTerminalId gives none,
\* though a client could ask for one.
ASSUME CanvasAssumption == Sentiph \in Terminals /\ Terminals \cap Nodes(Terminals) = {}

Askers == {"load", "node", "toolbar"}
NoSweep == [phase |-> "closed", all |-> FALSE, left |-> {}, failed |-> FALSE]

\* cols is the list, nodes the terminals in the simulated graph, ids what
\* usePersistedUiState holds as open, dirty what changed since the effects ran.
NewPage ==
    [ready |-> FALSE, cols |-> {}, nodes |-> {}, panels |-> {}, ids |-> {}, dirty |-> {},
     hydrated |-> FALSE, auto |-> FALSE, pending |-> None, recent |-> None,
     handled |-> None, inFlight |-> FALSE]

CanvasInit ==
    /\ alive \in SUBSET Terminals
    /\ (alive # {} => Sentiph \in alive)
    /\ prompted = {} /\ saved = {} /\ page = NewPage
    /\ spawns = [a \in Askers |-> "none"] /\ sweep = NoSweep /\ moves = 0 /\ owed = {}

AtRest == page.ready /\ page.dirty = {}
Moved == moves < MaxMoves /\ moves' = moves + 1
Listed(p, known) == [p EXCEPT !.cols = known, !.dirty = @ \cup {"cols"}]
Paneled(p, panels) == [p EXCEPT !.panels = panels, !.dirty = @ \cup {"panels"}]
Toggled(p, t) == Paneled(p, IF t \in p.panels THEN p.panels \ {t} ELSE p.panels \cup {t})

\* resolveActiveSessionNode finds the terminal in the list or in the graph.
Resolves(p, t) == t \in p.cols \cup p.nodes

\* usePersistedUiState prunes the ids of nodes as if they were ids of terminals.
PrunedIds(ids, known) == ids \cap known

-----------------------------------------------------------------------------
(* The effects, in their order; each sees the state that was rendered.     *)

\* The panels that are restored when none is open.
RestoredPanels(p) ==
    IF p.ready /\ p.panels = {} THEN {t \in p.nodes : NodeId(t) \in p.ids} ELSE {}

\* Mutant: nothing is reported when the last panel closes.
ReportedOpen(p) ==
    IF "panels" \in p.dirty /\ p.hydrated /\ p.panels # {} THEN Nodes(p.panels) ELSE p.ids

\* "Persist open terminal IDs when they change".
ReportedIds(p) ==
    IF "panels" \in p.dirty /\ p.hydrated THEN Nodes(p.panels) ELSE p.ids

\* "Sync open terminal nodes with column data changes".
Synced(p, panels) == IF "cols" \in p.dirty THEN panels \cap p.cols ELSE panels

\* The created child whose parent is open; handledRef takes it when it opens
\* or never will.
Unhandled(p) == p.ready /\ p.recent \notin {None, p.handled}
ChildOpens(p) ==
    Unhandled(p) /\ p.recent # Sentiph /\ Sentiph \in p.panels /\ Resolves(p, p.recent)
ChildWaits(p) ==
    Unhandled(p) /\ p.recent # Sentiph /\ Sentiph \in p.panels /\ ~Resolves(p, p.recent)

PendingOpens(p) == p.pending # None /\ Resolves(p, p.pending)

\* On first load, without panels: the parent that runs, or a new one.
AutoOpens(p) == ~p.auto /\ p.ready /\ p.ids = {} /\ p.panels = {}

\* The settling delay of useOpenTerminals starts only with saved ids, and a
\* page that gets ready has none (PrunedIds).
CommitRender ==
    /\ page.dirty # {}
    /\ LET p == page
           h == [p EXCEPT !.hydrated = p.ready]
           opened == (IF ChildOpens(p) THEN {p.recent} ELSE {})
                     \cup (IF PendingOpens(p) THEN {p.pending} ELSE {})
           panels == Synced(p, p.panels \cup RestoredPanels(p)) \cup opened
           ids == IF "cols" \in p.dirty THEN PrunedIds(ReportedIds(h), p.cols) ELSE ReportedIds(h)
       IN \E relabelled \in {FALSE} \cup {"cols" \in p.dirty /\ p.panels # {}} :
          /\ page' = [h EXCEPT
               !.panels = panels, !.ids = ids,
               !.handled = IF Unhandled(p) /\ ~ChildWaits(p) THEN p.recent ELSE @,
               !.pending = IF AutoOpens(p) /\ Sentiph \in p.cols THEN Sentiph
                           ELSE IF PendingOpens(p) THEN None ELSE @,
               !.auto = @ \/ p.ready,
               !.dirty = (IF panels # p.panels \/ opened # {} \/ relabelled THEN {"panels"} ELSE {})
                         \cup (IF ids # p.ids THEN {"ids"} ELSE {})
                         \cup (IF AutoOpens(p) /\ Sentiph \in p.cols THEN {"pending"} ELSE {})]
          /\ spawns' = IF AutoOpens(p) /\ Sentiph \notin p.cols
                       THEN [spawns EXCEPT !["load"] = "sent"] ELSE spawns
    /\ UNCHANGED <<alive, prompted, saved, sweep, moves, owed>>

-----------------------------------------------------------------------------
(* Loading, and what the page reads.                                       *)

\* useInitialColumnsHydration; a list that cannot be read leaves no columns.
Hydrate(known) ==
    /\ ~page.ready
    /\ page' = [Listed(page, known) EXCEPT !.ready = TRUE, !.ids = PrunedIds(saved, known)]
    /\ owed' = IF known = alive THEN {t \in alive : NodeId(t) \in saved} ELSE {}
    /\ UNCHANGED <<alive, prompted, saved, spawns, sweep, moves>>

\* The page is loaded anew; the answers to its requests are lost.
Reload ==
    /\ Moved /\ AtRest
    /\ page' = NewPage /\ spawns' = [a \in Askers |-> "none"] /\ sweep' = NoSweep /\ owed' = {}
    /\ UNCHANGED <<alive, prompted, saved>>

RefreshColumns ==
    /\ AtRest /\ page' = Listed(page, alive)
    /\ UNCHANGED <<alive, prompted, saved, spawns, sweep, moves, owed>>

\* A tick of the simulation takes over the nodes of the list.
Simulate ==
    /\ AtRest /\ page.nodes # page.cols
    /\ page' = [page EXCEPT !.nodes = page.cols, !.dirty = {"nodes"}]
    /\ UNCHANGED <<alive, prompted, saved, spawns, sweep, moves, owed>>

\* The debounced PATCH of UiState.
Save ==
    /\ AtRest /\ saved # page.ids /\ saved' = page.ids
    /\ UNCHANGED <<alive, prompted, page, spawns, sweep, moves, owed>>

-----------------------------------------------------------------------------
(* The user.                                                               *)

\* handleNodeClick on the node of a session.
ClickSession(t) ==
    /\ Moved /\ AtRest /\ t \in page.nodes
    /\ page' = Toggled(page, t) /\ owed' = owed \ {t}
    /\ UNCHANGED <<alive, prompted, saved, spawns, sweep>>

\* handleNodeClick on the node of Sentiph.
ClickSentiph ==
    /\ Moved /\ AtRest
    /\ \/ /\ Sentiph \in page.cols
          /\ page' = IF Sentiph \in page.panels \cup page.nodes THEN Toggled(page, Sentiph)
                     ELSE Paneled(page, page.panels)
          /\ owed' = owed \ {Sentiph} /\ UNCHANGED spawns
       \/ /\ Sentiph \notin page.cols /\ ~page.inFlight
          /\ page' = [page EXCEPT !.inFlight = TRUE]
          /\ spawns' = [spawns EXCEPT !["node"] = "sent"] /\ UNCHANGED owed
    /\ UNCHANGED <<alive, prompted, saved, sweep>>

\* "New Agent" of the toolbar, "New Terminal" of the menu.
NewAgent ==
    /\ Moved /\ AtRest /\ spawns["toolbar"] = "none"
    /\ spawns' = [spawns EXCEPT !["toolbar"] = "sent"]
    /\ UNCHANGED <<alive, prompted, saved, page, sweep, owed>>

\* handleMinimizeTerminal.
Minimize(t) ==
    /\ Moved /\ AtRest /\ t \in page.panels
    /\ page' = Paneled(page, page.panels \ {t}) /\ owed' = owed \ {t}
    /\ UNCHANGED <<alive, prompted, saved, spawns, sweep>>

\* handleTerminalActivity: the list is a new one.
Activity(t) ==
    /\ Moved /\ AtRest /\ t \in page.panels \cap alive
    /\ prompted' = prompted \cup {t} /\ page' = Listed(page, page.cols)
    /\ UNCHANGED <<alive, saved, spawns, sweep, owed>>

-----------------------------------------------------------------------------
(* createTerminal: the POST, then the list, then the panel.                *)

\* The API returns the Sentiph there is, or a new one.
ServeSpawn(a) ==
    /\ spawns[a] = "sent" /\ spawns' = [spawns EXCEPT ![a] = "made"]
    /\ alive' = alive \cup {Sentiph}
    /\ UNCHANGED <<prompted, saved, page, sweep, moves, owed>>

\* Mutant: only an answer with a terminal resets the flag.
ReleasedBySuccess(p, a, good) == [p EXCEPT !.inFlight = @ /\ ~(a = "node" /\ good)]

\* sentiphTerminalInFlight is reset whatever the answer was.
Released(p, a, good) == [p EXCEPT !.inFlight = @ /\ a # "node"]

ReceiveSpawn(a) ==
    /\ AtRest /\ spawns[a] = "made" /\ spawns' = [spawns EXCEPT ![a] = "none"]
    /\ page' = [Released(Listed(page, alive), a, TRUE) EXCEPT !.pending = Sentiph]
    /\ UNCHANGED <<alive, prompted, saved, sweep, moves, owed>>

SpawnFails(a) ==
    /\ AtRest /\ spawns[a] # "none" /\ spawns' = [spawns EXCEPT ![a] = "none"]
    /\ page' = Released(page, a, FALSE)
    /\ UNCHANGED <<alive, prompted, saved, sweep, moves, owed>>

-----------------------------------------------------------------------------
(* Agents and other clients; events reach the page at rest, or are missed. *)

Told(told, t, known) ==
    IF told THEN AtRest /\ page' = [Listed(page, known) EXCEPT
                                      !.recent = IF t \in known THEN t ELSE @]
    ELSE UNCHANGED page

CreateChild(t, told) ==
    /\ Moved /\ t \in Terminals \ (alive \cup {Sentiph}) /\ Sentiph \in alive
    /\ alive' = alive \cup {t} /\ Told(told, t, page.cols \cup {t})
    /\ UNCHANGED <<prompted, saved, spawns, sweep, owed>>

Cascade(t) == IF t = Sentiph THEN Terminals ELSE {t}

DeleteTerminal(t, told) ==
    /\ Moved /\ t \in alive
    /\ alive' = alive \ Cascade(t) /\ prompted' = prompted \ Cascade(t)
    /\ owed' = owed \ Cascade(t) /\ Told(told, t, page.cols \ Cascade(t))
    /\ UNCHANGED <<saved, spawns, sweep>>

-----------------------------------------------------------------------------
(* DeleteAllTerminalsDialog.                                               *)

OpenSweep ==
    /\ Moved /\ AtRest /\ sweep.phase = "closed"
    /\ \E all \in BOOLEAN : sweep' = [NoSweep EXCEPT !.phase = "asking", !.all = all]
    /\ UNCHANGED <<alive, prompted, saved, page, spawns, owed>>

\* The targets are those of the list that was rendered.
ConfirmSweep ==
    /\ AtRest /\ sweep.phase = "asking"
    /\ LET targets == IF sweep.all THEN page.cols ELSE page.cols \ prompted
       IN /\ targets # {}
          /\ sweep' = [sweep EXCEPT !.phase = "deleting", !.left = targets, !.failed = FALSE]
    /\ UNCHANGED <<alive, prompted, saved, page, spawns, moves, owed>>

CancelSweep ==
    /\ AtRest /\ sweep.phase = "asking" /\ sweep' = NoSweep
    /\ UNCHANGED <<alive, prompted, saved, page, spawns, moves, owed>>

\* One DELETE after the other; one that fails does not stop the others.
SweepOne(t) ==
    /\ sweep.phase = "deleting" /\ t \in sweep.left
    /\ \E gone \in {FALSE} \cup {t \in alive} :
         LET dead == IF gone THEN Cascade(t) ELSE {}
         IN /\ sweep' = [sweep EXCEPT !.left = @ \ {t}, !.failed = @ \/ ~gone]
            /\ alive' = alive \ dead /\ prompted' = prompted \ dead /\ owed' = owed \ dead
    /\ UNCHANGED <<saved, page, spawns, moves>>

\* onDeleted: all panels are closed, and the list is read again.
SweepDone ==
    /\ AtRest /\ sweep.phase = "deleting" /\ sweep.left = {}
    /\ sweep' = IF sweep.failed THEN [sweep EXCEPT !.phase = "asking"] ELSE NoSweep
    /\ page' = Listed(Paneled(page, {}), alive) /\ owed' = {}
    /\ UNCHANGED <<alive, prompted, saved, spawns, moves>>

-----------------------------------------------------------------------------
CanvasNext ==
    \/ CommitRender \/ Hydrate(alive) \/ Hydrate({}) \/ Reload \/ RefreshColumns \/ Simulate \/ Save
    \/ ClickSentiph \/ NewAgent \/ OpenSweep \/ ConfirmSweep \/ CancelSweep \/ SweepDone
    \/ \E t \in Terminals : ClickSession(t) \/ Minimize(t) \/ Activity(t) \/ SweepOne(t)
    \/ \E t \in Terminals, told \in BOOLEAN : CreateChild(t, told) \/ DeleteTerminal(t, told)
    \/ \E a \in Askers : ServeSpawn(a) \/ ReceiveSpawn(a) \/ SpawnFails(a)

\* Effects run, requests are answered one way or another, and an answer gets
\* its turn between renders.
CanvasFairness ==
    /\ WF_canvasVars(CommitRender)
    /\ WF_canvasVars(\E a \in Askers : ServeSpawn(a) \/ SpawnFails(a))
    /\ SF_canvasVars(\E a \in Askers : ReceiveSpawn(a))

CanvasSpec == CanvasInit /\ [][CanvasNext]_canvasVars /\ CanvasFairness

-----------------------------------------------------------------------------
\* Types of the canvas, and: a page that is ready reports its panels.
CanvasTypeOK ==
    /\ alive \subseteq Terminals /\ prompted \subseteq Terminals /\ saved \subseteq Nodes(Terminals)
    /\ page.cols \cup page.nodes \cup page.panels \subseteq Terminals
    /\ page.ids \subseteq Nodes(Terminals) /\ page.pending \in Terminals \cup {None}
    /\ AtRest => page.hydrated
    /\ sweep.left \subseteq Terminals /\ owed \subseteq Terminals

\* What is reported to be saved as open is open: a panel that was closed, by
\* hand, by a sweep or with its terminal, does not come back with the next load.
ClosedIsNotSaved == AtRest => page.ids \subseteq Nodes(page.panels)

\* The canvas: what was closed does not come back.
CanvasSafe == CanvasTypeOK /\ ClosedIsNotSaved

\* What does not last, sentiphTerminalInFlight: a click on Sentiph never makes the
\* node dead for ever, whether the terminal was created or not.
ClickInFlight == page.inFlight

\* CanvasPrimaryView "Skips entirely when the user has persisted open terminals
\* (they get restored).": panels that were saved as open, of terminals that are
\* there, are open again in the page that was loaded.
PanelsAreRestored == (AtRest /\ page.nodes = page.cols) => owed \subseteq page.panels
=============================================================================
