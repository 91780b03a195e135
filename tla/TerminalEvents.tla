---------------------------- MODULE TerminalEvents ----------------------------
(***************************************************************************)
(* What a web client knows about the terminals: the events the runtime     *)
(* broadcasts, the WebSocket they arrive on, the reducer that applies them *)
(* (useTerminalEventsSocket) and the refetches of the whole list that run  *)
(* beside it (readColumns).  Events arrive in order; answers to refetches  *)
(* arrive whenever they do.                                                *)
(*                                                                         *)
(* A terminal is what toTerminalSnapshot shows of it: the state of its     *)
(* record and, while it has a session, the state of the agent in it.       *)
(***************************************************************************)
EXTENDS Naturals, Sequences, FiniteSets, Functions

CONSTANTS
    Ids,        \* terminal ids
    Fetches,    \* GET /api/terminal-snapshots requests of the client
    Hydration,  \* the one that useInitialColumnsHydration issues
    FetchMayFail,   \* whether a request of the client may fail
    MaxChanges  \* bound: how often the terminals change or the connection breaks

ASSUME EventsAssumption ==
    /\ IsFiniteSet(Ids)
    /\ Hydration \in Fetches
    /\ FetchMayFail \in BOOLEAN
    /\ MaxChanges \in Nat

VARIABLES
    server,     \* server[t]: what the runtime would show of t
    link,       \* the events socket: "connecting", "open", "broken" (lost, but
                \*   the client does not know), "waiting" (for the reconnect timer)
    channel,    \* the events on their way to the client
    fetch,      \* the refetches under way
    view,       \* view[t]: the state of t in the client's list
    agent,      \* agent[t]: the state of t in terminalRuntimeStateStore
    effect,     \* the effect of useTerminalStateReconciliation that is due: {}, or
                \*   {T} with the ids of the list that was rendered
    changes, breaks, clean, silent, missed
        \* history: the numbers of changes and breaks; which of "list" and "agents"
        \* was last replaced by an answer that no event overtook; the ids whose
        \* deletion was not broadcast; the ids whose last creation or deletion found the
        \* hydrated client disconnected

history == <<changes, breaks, clean, silent, missed>>
client == <<view, agent, effect>>
vars == <<server, link, channel, fetch, client, history>>

-----------------------------------------------------------------------------
States == {"none", "registered", "running", "ended"}
Agents == {"none", "idle", "busy"}
Snapshot == [state : States, agent : Agents]

Gone == [state |-> "none", agent |-> "none"]

\* toTerminalSnapshot: a terminal with a session in the map shows as running,
\* whatever its record says; "ended" is stopped, exited or stale.
Shown(state, session) ==
    IF session # "none" THEN [state |-> "running", agent |-> session]
                        ELSE [state |-> state, agent |-> "none"]

Event == [kind : {"created", "updated", "deleted", "state-changed"}, id : Ids, shown : Snapshot]

Created(t, s) == [kind |-> "created", id |-> t, shown |-> s]
Updated(t, s) == [kind |-> "updated", id |-> t, shown |-> s]
Deleted(t) == [kind |-> "deleted", id |-> t, shown |-> Gone]

\* Mutant: the event carries the agent's state alone.
AgentAlone(t, a) == [kind |-> "state-changed", id |-> t, shown |-> [agent |-> a]]

\* It changes the agent's state only: the client leaves the list alone.
StateChanged(t, a) == [kind |-> "state-changed", id |-> t, shown |-> [Gone EXCEPT !.agent = a]]

\* A request is sent, answered with a list, and, for the hydration only, its
\* agent states are in the store before its list is set.  The list is not used
\* when the hydration has failed by its other request.
Fetch ==
    [state : {"free", "sent", "answered", "synced"}, list : [Ids -> Snapshot],
     used : BOOLEAN, overtaken : BOOLEAN]

Nothing == [t \in Ids |-> Gone]
Free == [state |-> "free", list |-> Nothing, used |-> TRUE, overtaken |-> FALSE]
Sent == [Free EXCEPT !.state = "sent"]

TypeOK ==
    /\ server \in [Ids -> Snapshot]
    /\ link \in {"connecting", "open", "broken", "waiting"}
    /\ channel \in Seq(Event)
    /\ fetch \in [Fetches -> Fetch]
    /\ view \in [Ids -> States] /\ agent \in [Ids -> Agents]
    /\ effect \subseteq SUBSET Ids /\ Cardinality(effect) <= 1
    /\ changes \in Nat /\ breaks \in Nat /\ changes + breaks <= MaxChanges
    /\ clean \subseteq {"list", "agents"} /\ silent \subseteq Ids /\ missed \subseteq Ids

\* The client has mounted: it fetches the list and connects at once.
Init ==
    /\ server = Nothing
    /\ link = "connecting"
    /\ channel = <<>>
    /\ fetch = [f \in Fetches |-> IF f = Hydration THEN Sent ELSE Free]
    /\ view = [t \in Ids |-> "none"] /\ agent = [t \in Ids |-> "none"]
    /\ effect = {}
    /\ changes = 0 /\ breaks = 0 /\ clean = {} /\ silent = {} /\ missed = {}

-----------------------------------------------------------------------------
(* The runtime. *)

Known(t) == server[t].state # "none"
Live(t) == server[t].agent # "none"

\* broadcastTerminalEvent.
Broadcast(events) ==
    /\ channel' = IF link = "open" THEN channel \o events ELSE channel
    /\ changes + breaks < MaxChanges /\ changes' = changes + 1

\* The ids T have been created or deleted now.
Changed(T) ==
    missed' = IF link # "open" /\ breaks > 0 /\ fetch[Hydration].state = "free"
              THEN missed \cup T ELSE missed \ T

\* markTerminalRunning broadcasts before the session enters the map, and
\* markTerminalEnded before it leaves it.
Starting(t) == Updated(t, Shown("running", "none"))
Ending(t) == Updated(t, Shown("ended", server[t].agent))

\* createTerminal, which may start a session at once.
Create(t) ==
    /\ ~Known(t)
    /\ LET shown == Shown("registered", "none")
       IN \/ /\ server' = [server EXCEPT ![t] = shown]
             /\ Broadcast(<<Created(t, shown)>>)
          \/ /\ server' = [server EXCEPT ![t] = Shown("running", "idle")]
             /\ Broadcast(<<Created(t, shown), Starting(t)>>)
    /\ silent' = silent \ {t} /\ Changed({t})
    /\ UNCHANGED <<link, fetch, client, breaks, clean>>

\* A session is started, by whatever starts one.
Start(t) ==
    /\ Known(t) /\ ~Live(t)
    /\ server' = [server EXCEPT ![t] = Shown("running", "idle")]
    /\ Broadcast(<<Starting(t)>>)
    /\ UNCHANGED <<link, fetch, client, breaks, clean, silent, missed>>

\* Mutant: the event is broadcast before the new state is assigned.
AnnounceOldState(t) ==
    /\ Live(t)
    /\ \E a \in {"idle", "busy"} \ {server[t].agent} : server' = [server EXCEPT ![t].agent = a]
    /\ Broadcast(<<StateChanged(t, server[t].agent)>>)
    /\ UNCHANGED <<link, fetch, client, breaks, clean, silent, missed>>

\* emitStateIfChanged.
AgentChanges(t) ==
    /\ Live(t)
    /\ \E a \in {"idle", "busy"} \ {server[t].agent} :
        /\ server' = [server EXCEPT ![t].agent = a]
        /\ Broadcast(<<StateChanged(t, a)>>)
    /\ UNCHANGED <<link, fetch, client, breaks, clean, silent, missed>>

\* A terminal is stopped or killed, closes itself when idle, or its process exits.
End(t) ==
    /\ Known(t)
    /\ server' = [server EXCEPT ![t] = Shown("ended", "none")]
    /\ Broadcast(<<Ending(t)>>)
    /\ UNCHANGED <<link, fetch, client, breaks, clean, silent, missed>>

\* renameTerminal, renameTerminalBySession.
Rename(t) ==
    /\ Known(t)
    /\ Broadcast(<<Updated(t, server[t])>>)
    /\ UNCHANGED <<server, link, fetch, client, breaks, clean, silent, missed>>

\* The sequences that list each member of T once.
Orders(T) == {s \in [1..Cardinality(T) -> T] : IsInjective(s)}

Deletions(s) == [i \in DOMAIN s |-> Deleted(s[i])]
Endings(s) == [i \in DOMAIN s |-> Ending(s[i])]

Without(T) == [t \in Ids |-> IF t \in T THEN Gone ELSE server[t]]

Prune ==
    LET T == {t \in Ids : server[t].state = "ended"}
    IN /\ T # {}
       /\ server' = Without(T)
       /\ \E s \in Orders(T) : Broadcast(Deletions(s))
       /\ silent' = silent \ T /\ Changed(T)
       /\ UNCHANGED <<link, fetch, client, breaks, clean>>

\* Mutant: each member is announced as deleted before its session is closed.
DeleteAnnouncedEarly(T) ==
    /\ T # {} /\ \A t \in T : Known(t)
    /\ server' = Without(T)
    /\ \E s \in Orders(T), e \in Orders({t \in T : Live(t)}) : Broadcast(Deletions(s) \o Endings(e))
    /\ silent' = silent \ T /\ Changed(T)
    /\ UNCHANGED <<link, fetch, client, breaks, clean>>

\* deleteTerminal with the cascade T: the sessions of all members end before the
\* first deletion is announced.
Delete(T) ==
    /\ T # {} /\ \A t \in T : Known(t)
    /\ server' = Without(T)
    /\ \E s \in Orders(T), e \in Orders({t \in T : Live(t)}) : Broadcast(Endings(e) \o Deletions(s))
    /\ silent' = silent \ T /\ Changed(T)
    /\ UNCHANGED <<link, fetch, client, breaks, clean>>

\* The same when the removal of a worktree fails: the members T before it are
\* gone and nobody is told, f has lost its session only.
DeleteFails(T, f) ==
    /\ f \notin T /\ \A t \in T \cup {f} : Known(t)
    /\ server' = [Without(T) EXCEPT ![f] = IF Live(f) THEN Shown("ended", "none") ELSE @]
    /\ \E e \in Orders({t \in T \cup {f} : Live(t)}) : Broadcast(Endings(e))
    /\ silent' = silent \cup T /\ Changed(T)
    /\ UNCHANGED <<link, fetch, client, breaks, clean>>

-----------------------------------------------------------------------------
(* The connection. *)

\* An event was applied, or may have been lost: answers formed before are old.
Overtake == fetch' = [f \in Fetches |-> [fetch[f] EXCEPT !.overtaken = fetch[f].state # "free"
                                                                   /\ fetch[f].state # "sent"]]

\* The upgrade is accepted, and the runtime adds the socket to its clients.
Accept ==
    /\ link = "connecting"
    /\ link' = "open"
    /\ UNCHANGED <<server, channel, fetch, client, history>>

\* The connection, or the attempt to open it, fails; some of the events on their
\* way are still delivered.
Break ==
    /\ link \in {"connecting", "open"}
    /\ link' = "broken"
    /\ \E n \in 0..Len(channel) : channel' = SubSeq(channel, 1, n)
    /\ Overtake
    /\ changes + breaks < MaxChanges /\ breaks' = breaks + 1 /\ clean' = {}
    /\ UNCHANGED <<server, client, changes, silent, missed>>

\* The close event: the list is refetched now and the reconnect timer armed.
Close(f) ==
    /\ link = "broken" /\ channel = <<>>
    /\ fetch[f].state = "free" /\ f # Hydration
    /\ fetch' = [fetch EXCEPT ![f] = Sent]
    /\ link' = "waiting"
    /\ UNCHANGED <<server, channel, client, history>>

Reconnect ==
    /\ link = "waiting"
    /\ link' = "connecting"
    /\ UNCHANGED <<server, channel, fetch, client, history>>

\* The message handler of the socket.
Receive ==
    /\ link \in {"open", "broken"} /\ channel # <<>>
    /\ channel' = Tail(channel)
    /\ LET e == Head(channel)
       IN /\ view' = IF e.kind = "state-changed" THEN view
                     ELSE [view EXCEPT ![e.id] = e.shown.state]
          /\ agent' = [agent EXCEPT ![e.id] = e.shown.agent]
    /\ Overtake
    /\ UNCHANGED <<server, link, effect, history>>

\* The list was set, by an event, a refetch or a mark the user left on it, and is
\* rendered; the effect of the rendering before has run.
Render ==
    /\ effect = {}
    /\ effect' = {{t \in Ids : view[t] # "none"}}
    /\ UNCHANGED <<server, link, channel, fetch, view, agent, history>>

\* retainTerminalIds drops the states of agents that were not in the list then.
Reconcile ==
    /\ \E T \in effect : agent' = [t \in Ids |-> IF t \in T THEN agent[t] ELSE "none"]
    /\ effect' = {}
    /\ UNCHANGED <<server, link, channel, fetch, view, history>>

-----------------------------------------------------------------------------
(* Refetches. *)

\* The client refetches after a request of its own.
Refetch(f) ==
    /\ fetch[f].state = "free" /\ f # Hydration
    /\ fetch' = [fetch EXCEPT ![f] = Sent]
    /\ UNCHANGED <<server, link, channel, client, history>>

\* listTerminalSnapshots.
Answer(f) ==
    /\ fetch[f].state = "sent"
    /\ fetch' = [fetch EXCEPT ![f].state = "answered", ![f].list = server,
                              ![f].overtaken = link # "open"]
    /\ UNCHANGED <<server, link, channel, client, history>>

\* The answer replaces this part of what the client knows.
Replaced(f, part) == clean' = IF fetch[f].overtaken THEN clean \ part ELSE clean \cup part

ListOf(f) == [t \in Ids |-> fetch[f].list[t].state]

\* syncFromTerminals, and for any refetch but the hydration the list as well.
Sync(f) ==
    /\ fetch[f].state = "answered"
    /\ agent' = [t \in Ids |-> fetch[f].list[t].agent]
    /\ IF f = Hydration
       THEN /\ fetch' = IF fetch[f].used THEN [fetch EXCEPT ![f].state = "synced"]
                                         ELSE [fetch EXCEPT ![f] = Free]
            /\ Replaced(f, {"agents"})
            /\ UNCHANGED view
       ELSE /\ fetch' = [fetch EXCEPT ![f] = Free]
            /\ Replaced(f, {"list", "agents"})
            /\ view' = ListOf(f)
    /\ UNCHANGED <<server, link, channel, effect, changes, breaks, silent, missed>>

\* The hydration has the UI state too, and sets the list.
Hydrate ==
    /\ fetch[Hydration].state = "synced"
    /\ fetch' = [fetch EXCEPT ![Hydration] = Free]
    /\ view' = ListOf(Hydration)
    /\ Replaced(Hydration, {"list"})
    /\ UNCHANGED <<server, link, channel, agent, effect, changes, breaks, silent, missed>>

\* A request for the list fails: nothing is replaced.
FetchFails(f) ==
    /\ FetchMayFail
    /\ fetch[f].state = "sent" /\ (f = Hydration => ~fetch[f].used)
    /\ fetch' = [fetch EXCEPT ![f] = Free]
    /\ UNCHANGED <<server, link, channel, client, history>>

\* Either request of the hydration fails: the list becomes empty, and an answer
\* to the other is used for the agent states only.
HydrationFails ==
    /\ FetchMayFail
    /\ fetch[Hydration].state # "free" /\ fetch[Hydration].used
    /\ \/ /\ fetch[Hydration].state \in {"sent", "synced"}
          /\ fetch' = [fetch EXCEPT ![Hydration] = Free]
       \/ /\ fetch[Hydration].state \in {"sent", "answered"}
          /\ fetch' = [fetch EXCEPT ![Hydration].used = FALSE]
    /\ view' = [t \in Ids |-> "none"] /\ clean' = clean \ {"list"}
    /\ UNCHANGED <<server, link, channel, agent, effect, changes, breaks, silent, missed>>

-----------------------------------------------------------------------------
Next ==
    \/ \E t \in Ids : Create(t) \/ Start(t) \/ AgentChanges(t) \/ End(t) \/ Rename(t)
    \/ Prune
    \/ \E T \in SUBSET Ids : Delete(T) \/ \E f \in Ids : DeleteFails(T, f)
    \/ Accept \/ Break \/ Reconnect \/ Receive
    \/ Render \/ Reconcile
    \/ \E f \in Fetches : Close(f) \/ Refetch(f) \/ Answer(f) \/ Sync(f) \/ FetchFails(f)
    \/ Hydrate \/ HydrationFails

Spec == Init /\ [][Next]_vars

-----------------------------------------------------------------------------
\* The client is connected and nothing is on its way to it.
Settled == link = "open" /\ channel = <<>>

\* Once an answer that no event overtook has replaced the list, events alone keep
\* it complete: a settled client lists the terminals there are, whatever refetches
\* are under way, except those whose deletion nobody announced.
EventsKeepUp ==
    "list" \in clean /\ Settled =>
        \A t \in Ids \ silent : view[t] # "none" <=> Known(t)

\* A settled client that shows a state for the agent of a running terminal shows
\* the present one.
AgentStateKeepsUp ==
    "agents" \in clean /\ Settled =>
        \A t \in Ids : Live(t) /\ agent[t] # "none" => agent[t] = server[t].agent

\* The reducer keeps the list in sync without a refetch: a settled client shows no
\* terminal as running that has no session.
EndingsAreSeen ==
    "list" \in clean /\ Settled => \A t \in Ids \ silent : view[t] = "running" => Live(t)

\* The refresh for a reconnect makes up for the events that were missed: when the
\* client is connected again and nothing is under way, it knows what was created
\* and deleted while it was not.
ReconnectCatchesUp ==
    Settled /\ (\A f \in Fetches : fetch[f].state = "free") =>
        \A t \in missed : view[t] # "none" <=> Known(t)
=============================================================================
