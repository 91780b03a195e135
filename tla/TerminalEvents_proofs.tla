------------------------ MODULE TerminalEvents_proofs ------------------------
(***************************************************************************)
(* Proofs about TerminalEvents for any terminals, requests of the client   *)
(* and numbers of changes and breaks.                                      *)
(***************************************************************************)
EXTENDS TerminalEvents, FiniteSetTheorems, SequenceTheorems, TLAPS

-----------------------------------------------------------------------------
(* The events of a broadcast. *)

LEMMA ShownType ==
  ASSUME NEW state \in States, NEW session \in Agents
  PROVE  Shown(state, session) \in Snapshot
  BY DEF Shown, States, Agents, Snapshot

LEMMA GoneType == Gone \in Snapshot
  BY DEF Gone, Snapshot, States, Agents

LEMMA EventType ==
  ASSUME TypeOK, NEW t \in Ids
  PROVE  /\ \A s \in Snapshot : Created(t, s) \in Event /\ Updated(t, s) \in Event
         /\ \A a \in Agents : StateChanged(t, a) \in Event
         /\ Deleted(t) \in Event /\ Starting(t) \in Event /\ Ending(t) \in Event
  <1>1. server[t] \in Snapshot /\ server[t].agent \in Agents BY DEF TypeOK, Snapshot
  <1>2. /\ Shown("running", "none") \in Snapshot
        /\ Shown("ended", server[t].agent) \in Snapshot
    BY <1>1, ShownType DEF States, Agents
  <1>3. \A a \in Agents : [Gone EXCEPT !.agent = a] \in Snapshot
    BY DEF Gone, Snapshot, States, Agents
  <1> QED
    BY <1>2, <1>3, GoneType
    DEF Created, Updated, Deleted, StateChanged, Starting, Ending, Event

\* An order of T is a sequence over T with every member of T.
LEMMA OrderCovers ==
  ASSUME NEW T \in SUBSET Ids, NEW s \in Orders(T)
  PROVE  /\ Len(s) \in Nat /\ DOMAIN s = 1..Len(s)
         /\ \A i \in DOMAIN s : s[i] \in T
         /\ \A t \in T : \E i \in DOMAIN s : s[i] = t
  <1>1. IsFiniteSet(T) /\ Cardinality(T) \in Nat
    BY EventsAssumption, FS_Subset, FS_CardinalityType
  <1>2. s \in [1..Cardinality(T) -> T] /\ IsInjective(s) BY DEF Orders
  <1>3. s \in Injection(1..Cardinality(T), T) BY <1>2 DEF Injection, IsInjective
  <1>4. Cardinality(1..Cardinality(T)) = Cardinality(T) BY <1>1, FS_Interval
  <1>5. s \in Surjection(1..Cardinality(T), T) BY <1>1, <1>3, <1>4, FS_Injection
  <1>6. s \in Seq(T) /\ Len(s) = Cardinality(T) BY <1>1, <1>2
  <1> QED BY <1>1, <1>2, <1>5, <1>6 DEF Surjection

LEMMA FamilyEvents ==
  ASSUME TypeOK, NEW T \in SUBSET Ids, NEW s \in Orders(T)
  PROVE  /\ Deletions(s) \in Seq(Event) /\ Len(Deletions(s)) = Len(s)
         /\ Endings(s) \in Seq(Event) /\ Len(Endings(s)) = Len(s)
         /\ \A i \in 1..Len(s) : Deletions(s)[i] = Deleted(s[i]) /\ Endings(s)[i] = Ending(s[i])
  <1>1. /\ Len(s) \in Nat /\ DOMAIN s = 1..Len(s)
        /\ \A i \in DOMAIN s : s[i] \in Ids
    BY OrderCovers
  <1>2. \A i \in DOMAIN s : Deleted(s[i]) \in Event /\ Ending(s[i]) \in Event
    BY <1>1, EventType
  <1>3. /\ Deletions(s) \in [1..Len(s) -> Event]
        /\ Endings(s) \in [1..Len(s) -> Event]
    BY <1>1, <1>2 DEF Deletions, Endings
  <1>4. /\ Deletions(s) \in Seq(Event) /\ Len(Deletions(s)) = Len(s)
        /\ Endings(s) \in Seq(Event) /\ Len(Endings(s)) = Len(s)
    BY <1>1, <1>3
  <1> QED BY <1>1, <1>4 DEF Deletions, Endings

-----------------------------------------------------------------------------
(* Types. *)

LEMMA BroadcastType ==
  ASSUME TypeOK, NEW events \in Seq(Event), Broadcast(events), breaks' = breaks
  PROVE  /\ channel' \in Seq(Event)
         /\ changes' \in Nat /\ breaks' \in Nat /\ changes' + breaks' <= MaxChanges
  BY EventsAssumption DEF TypeOK, Broadcast

LEMMA FetchType ==
  /\ Free \in Fetch /\ Sent \in Fetch
  /\ \A r \in Fetch, b \in BOOLEAN : [r EXCEPT !.overtaken = b] \in Fetch
  <1>1. Nothing \in [Ids -> Snapshot] BY GoneType DEF Nothing
  <1>2. Free \in Fetch BY <1>1 DEF Free, Fetch
  <1> QED BY <1>2 DEF Sent, Fetch

LEMMA OvertakeType ==
  ASSUME TypeOK, Overtake
  PROVE  fetch' \in [Fetches -> Fetch]
  BY FetchType DEF TypeOK, Overtake

\* What the runtime's steps leave alone.
RestUnchanged == UNCHANGED <<link, fetch, client, breaks, clean>>

LEMMA RuntimeType ==
  ASSUME TypeOK, RestUnchanged, server' \in [Ids -> Snapshot],
         NEW events \in Seq(Event), Broadcast(events), silent' \subseteq Ids, missed' \subseteq Ids
  PROVE  TypeOK'
  <1>1. /\ channel' \in Seq(Event)
        /\ changes' \in Nat /\ breaks' \in Nat /\ changes' + breaks' <= MaxChanges
    BY BroadcastType DEF RestUnchanged
  <1> QED BY <1>1 DEF TypeOK, RestUnchanged, client

LEMMA ChangedType ==
  ASSUME TypeOK, NEW T \in SUBSET Ids, Changed(T)
  PROVE  missed' \subseteq Ids
  BY DEF TypeOK, Changed

-----------------------------------------------------------------------------
(* What the events of a sequence tell about a terminal is told by the last *)
(* of them: of those that change the list, for the list; of all of them,   *)
(* for the state of the agent.                                             *)

AllKinds == {"created", "updated", "deleted", "state-changed"}
ListKinds == {"created", "updated", "deleted"}

LEMMA EventFields ==
  ASSUME NEW t
  PROVE  /\ Deleted(t).id = t /\ Deleted(t).kind = "deleted" /\ Deleted(t).shown = Gone
         /\ Ending(t).id = t /\ Ending(t).kind = "updated" /\ Ending(t).shown.state # "none"
  BY DEF Deleted, Ending, Updated, Shown

About(t, kinds, ch) == {i \in DOMAIN ch : ch[i].id = t /\ ch[i].kind \in kinds}
IsLast(i, S) == i \in S /\ \A j \in S : j <= i

LEMMA AboutAppended ==
  ASSUME NEW ch \in Seq(Event), NEW ev \in Seq(Event), NEW t, NEW kinds
  PROVE  /\ \A i \in 1..Len(ch) : i \in About(t, kinds, ch \o ev) <=> i \in About(t, kinds, ch)
         /\ \A j \in 1..Len(ev) :
              Len(ch) + j \in About(t, kinds, ch \o ev) <=> j \in About(t, kinds, ev)
         /\ \A i \in About(t, kinds, ch \o ev) :
              \/ i \in 1..Len(ch)
              \/ \E j \in 1..Len(ev) : i = Len(ch) + j
         /\ \A i \in About(t, kinds, ch) : i \in 1..Len(ch)
         /\ \A j \in About(t, kinds, ev) : j \in 1..Len(ev)
         /\ Len(ch) \in Nat /\ Len(ev) \in Nat
         /\ \A i \in 1..Len(ch) : (ch \o ev)[i] = ch[i]
         /\ \A j \in 1..Len(ev) : (ch \o ev)[Len(ch) + j] = ev[j]
  BY DEF About

Joins(cat, ch, ev) == cat = ch \o ev

LEMMA LastAppended ==
  ASSUME NEW ch \in Seq(Event), NEW ev \in Seq(Event), NEW cat, Joins(cat, ch, ev),
         NEW t, NEW kinds, NEW i, IsLast(i, About(t, kinds, cat))
  PROVE  \/ /\ About(t, kinds, ev) = {}
            /\ IsLast(i, About(t, kinds, ch)) /\ cat[i] = ch[i]
         \/ \E j \in DOMAIN ev : IsLast(j, About(t, kinds, ev)) /\ cat[i] = ev[j]
  <1> USE DEF Joins
  <1>1. CASE i \in 1..Len(ch)
    <2>1. ASSUME NEW j \in About(t, kinds, ev) PROVE FALSE
      <3>1. j \in 1..Len(ev) /\ Len(ch) + j \in About(t, kinds, ch \o ev)
        BY <2>1, AboutAppended
      <3>2. Len(ch) + j <= i BY <3>1 DEF IsLast
      <3> QED BY <1>1, <3>1, <3>2, AboutAppended
    <2>2. \A j \in About(t, kinds, ch) : j \in About(t, kinds, ch \o ev)
      BY AboutAppended
    <2>3. IsLast(i, About(t, kinds, ch))
      BY <1>1, <2>2, AboutAppended DEF IsLast
    <2> QED BY <1>1, <2>1, <2>3, AboutAppended
  <1>2. ASSUME NEW j \in 1..Len(ev), i = Len(ch) + j
        PROVE  IsLast(j, About(t, kinds, ev)) /\ (ch \o ev)[i] = ev[j]
    <2>1. j \in About(t, kinds, ev) BY <1>2, AboutAppended DEF IsLast
    <2>2. ASSUME NEW k \in About(t, kinds, ev) PROVE k <= j
      <3>1. k \in 1..Len(ev) /\ Len(ch) + k \in About(t, kinds, ch \o ev)
        BY <2>2, AboutAppended
      <3>2. Len(ch) + k <= Len(ch) + j BY <1>2, <3>1 DEF IsLast
      <3> QED BY <3>1, <3>2, AboutAppended
    <2> QED BY <1>2, <2>1, <2>2, AboutAppended DEF IsLast
  <1> QED BY <1>1, <1>2, AboutAppended DEF IsLast

LEMMA NoneAppended ==
  ASSUME NEW ch \in Seq(Event), NEW ev \in Seq(Event), NEW t, NEW kinds,
         About(t, kinds, ch \o ev) = {}
  PROVE  About(t, kinds, ch) = {} /\ About(t, kinds, ev) = {}
  <1>1. \A i \in About(t, kinds, ch) : i \in About(t, kinds, ch \o ev)
    BY AboutAppended
  <1>2. \A j \in About(t, kinds, ev) : Len(ch) + j \in About(t, kinds, ch \o ev)
    BY AboutAppended
  <1> QED BY <1>1, <1>2

LEMMA AboutOne ==
  ASSUME NEW e \in Event, NEW t, NEW kinds
  PROVE  About(t, kinds, <<e>>) = IF e.id = t /\ e.kind \in kinds THEN {1} ELSE {}
  BY DEF About

\* Taking the first event away leaves the last one the last.
LEMMA AboutTail ==
  ASSUME NEW ch \in Seq(Event), ch # <<>>, NEW t, NEW kinds
  PROVE  /\ \A i : IsLast(i, About(t, kinds, Tail(ch))) =>
              IsLast(i + 1, About(t, kinds, ch)) /\ Tail(ch)[i] = ch[i + 1]
         /\ About(t, kinds, Tail(ch)) = {} =>
              \/ About(t, kinds, ch) = {}
              \/ IsLast(1, About(t, kinds, ch)) /\ Head(ch) = ch[1]
  <1>1. /\ Tail(ch) \in Seq(Event) /\ Len(Tail(ch)) = Len(ch) - 1 /\ Len(ch) \in Nat \ {0}
        /\ \A i \in 1..(Len(ch) - 1) : Tail(ch)[i] = ch[i + 1]
        /\ Head(ch) = ch[1]
    OBVIOUS
  <1>2. \A i \in 1..(Len(ch) - 1) : i \in About(t, kinds, Tail(ch))
            <=> i + 1 \in About(t, kinds, ch)
    BY <1>1 DEF About
  <1>3. \A i \in About(t, kinds, Tail(ch)) : i \in 1..(Len(ch) - 1)
    BY <1>1 DEF About
  <1>4. \A j \in About(t, kinds, ch) : j = 1 \/ (j \in Int /\ j - 1 \in 1..(Len(ch) - 1))
    BY <1>1 DEF About
  <1>5. ASSUME NEW i, IsLast(i, About(t, kinds, Tail(ch)))
        PROVE  IsLast(i + 1, About(t, kinds, ch)) /\ Tail(ch)[i] = ch[i + 1]
    <2>1. i \in 1..(Len(ch) - 1) /\ i + 1 \in About(t, kinds, ch)
      BY <1>2, <1>3, <1>5 DEF IsLast
    <2>2. ASSUME NEW j \in About(t, kinds, ch) PROVE j <= i + 1
      <3>1. CASE j = 1 BY <2>1, <3>1
      <3>2. CASE j - 1 \in 1..(Len(ch) - 1) /\ j \in Int
        <4>1. (j - 1) + 1 = j BY <3>2
        <4>2. j - 1 \in About(t, kinds, Tail(ch)) BY <1>2, <2>2, <3>2, <4>1
        <4>3. j - 1 <= i BY <1>5, <4>2 DEF IsLast
        <4> QED BY <2>1, <3>2, <4>3
      <3> QED BY <1>4, <3>1, <3>2
    <2> QED BY <1>1, <2>1, <2>2 DEF IsLast
  <1>6. ASSUME About(t, kinds, Tail(ch)) = {}, About(t, kinds, ch) # {}
        PROVE  IsLast(1, About(t, kinds, ch))
    <2>1. ASSUME NEW j \in About(t, kinds, ch) PROVE j = 1
      <3>1. CASE j - 1 \in 1..(Len(ch) - 1) /\ j \in Int
        <4>1. (j - 1) + 1 = j BY <3>1
        <4>2. j - 1 \in About(t, kinds, Tail(ch)) BY <1>2, <2>1, <3>1, <4>1
        <4> QED BY <1>6, <4>2
      <3> QED BY <1>4, <3>1
    <2> QED BY <1>6, <2>1 DEF IsLast
  <1> QED BY <1>1, <1>5, <1>6

-----------------------------------------------------------------------------
(* The invariant: where the client's knowledge was last replaced by an     *)
(* answer that no event overtook, it is right about every terminal that no *)
(* event under way is about, and the last event about a terminal is right. *)

LastTellsList ==
    \A t \in Ids \ silent : \A i \in About(t, ListKinds, channel) :
        IsLast(i, About(t, ListKinds, channel)) =>
            (channel[i].shown.state # "none" <=> Known(t))

LastTellsAgent ==
    \A t \in Ids : \A i \in About(t, AllKinds, channel) :
        IsLast(i, About(t, AllKinds, channel)) /\ Live(t) =>
            channel[i].shown.agent \in {"none", server[t].agent}

ListKnown(list) ==
    \A t \in Ids \ silent : About(t, ListKinds, channel) = {} => (list[t] # "none" <=> Known(t))

AgentsKnown(agents) ==
    \A t \in Ids : About(t, AllKinds, channel) = {} /\ Live(t)
        => agents[t] \in {"none", server[t].agent}

AgentsOf(f) == [t \in Ids |-> fetch[f].list[t].agent]

\* f has an answer that no event overtook.
Valid(f) == fetch[f].state \in {"answered", "synced"} /\ ~fetch[f].overtaken

KeptUp ==
    /\ link \in {"connecting", "waiting"} => channel = <<>>
    /\ clean # {} => link = "open"
    /\ \A f \in Fetches : Valid(f) => link = "open"
    /\ link = "open" => LastTellsList /\ LastTellsAgent
    /\ "list" \in clean => ListKnown(view)
    /\ "agents" \in clean => AgentsKnown(agent)
    /\ \A f \in Fetches : Valid(f) => ListKnown(ListOf(f)) /\ AgentsKnown(AgentsOf(f))

-----------------------------------------------------------------------------
(* The steps of the runtime: the events they broadcast tell what changes.  *)

TellsList(ev) ==
    \A t \in Ids \ silent' :
        \/ About(t, ListKinds, ev) = {} /\ t \notin silent /\ (Known(t)' <=> Known(t))
        \/ /\ About(t, ListKinds, ev) # {}
           /\ \A i \in DOMAIN ev : IsLast(i, About(t, ListKinds, ev)) =>
                (ev[i].shown.state # "none" <=> Known(t)')

TellsAgent(ev) ==
    \A t \in Ids :
        Live(t)' =>
            \/ About(t, AllKinds, ev) = {} /\ Live(t) /\ server'[t].agent = server[t].agent
            \/ /\ About(t, AllKinds, ev) # {}
               /\ \A i \in DOMAIN ev : IsLast(i, About(t, AllKinds, ev)) =>
                    ev[i].shown.agent \in {"none", server'[t].agent}

RuntimeStep ==
    /\ server' \in [Ids -> Snapshot] /\ silent' \subseteq Ids /\ missed' \subseteq Ids
    /\ RestUnchanged
    /\ \E ev \in Seq(Event) : Broadcast(ev) /\ TellsList(ev) /\ TellsAgent(ev)

LEMMA RuntimeStepType ==
  ASSUME TypeOK, RuntimeStep
  PROVE  TypeOK'
  BY RuntimeType DEF RuntimeStep

LEMMA RuntimeStepKeeps ==
  ASSUME TypeOK, KeptUp, RuntimeStep
  PROVE  KeptUp'
  <1>1. PICK ev \in Seq(Event) : Broadcast(ev) /\ TellsList(ev) /\ TellsAgent(ev)
    BY DEF RuntimeStep
  <1>2. /\ link' = link /\ fetch' = fetch /\ clean' = clean /\ view' = view /\ agent' = agent
        /\ channel \in Seq(Event)
        /\ channel' = IF link = "open" THEN channel \o ev ELSE channel
    BY <1>1 DEF RuntimeStep, RestUnchanged, client, Broadcast, TypeOK
  <1>3. CASE link # "open" BY <1>2, <1>3 DEF KeptUp, Valid
  <1>4. CASE link = "open"
    <2>1. channel' = channel \o ev BY <1>2, <1>4
    <2>1a. Joins(channel', channel, ev) BY <2>1 DEF Joins
    <2>2. LastTellsList /\ LastTellsAgent BY <1>4 DEF KeptUp
    <2>3. LastTellsList'
      <3> SUFFICES ASSUME NEW t \in Ids \ silent', NEW i \in About(t, ListKinds, channel)',
                          IsLast(i, About(t, ListKinds, channel)')
                   PROVE  channel'[i].shown.state # "none" <=> Known(t)'
        BY DEF LastTellsList
      <3>1. IsLast(i, About(t, ListKinds, channel')) BY DEF About
      <3>2. CASE /\ About(t, ListKinds, ev) = {}
                 /\ IsLast(i, About(t, ListKinds, channel)) /\ channel'[i] = channel[i]
        <4>1. t \notin silent /\ (Known(t)' <=> Known(t)) BY <1>1, <3>2 DEF TellsList
        <4>2. channel[i].shown.state # "none" <=> Known(t)
          BY <2>2, <3>2, <4>1 DEF LastTellsList, IsLast
        <4> QED BY <3>2, <4>1, <4>2
      <3>3. ASSUME NEW j \in DOMAIN ev, IsLast(j, About(t, ListKinds, ev)), channel'[i] = ev[j]
            PROVE  channel'[i].shown.state # "none" <=> Known(t)'
        <4>1. About(t, ListKinds, ev) # {} BY <3>3 DEF IsLast
        <4> QED BY <1>1, <3>3, <4>1 DEF TellsList
      <3>4. channel \in Seq(Event) BY <1>2
      <3>5. \/ /\ About(t, ListKinds, ev) = {}
               /\ IsLast(i, About(t, ListKinds, channel)) /\ channel'[i] = channel[i]
            \/ \E j \in DOMAIN ev : IsLast(j, About(t, ListKinds, ev)) /\ channel'[i] = ev[j]
        BY <2>1a, <3>1, <3>4, LastAppended
      <3> QED BY <3>2, <3>3, <3>5
    <2>4. LastTellsAgent'
      <3> SUFFICES ASSUME NEW t \in Ids, NEW i \in About(t, AllKinds, channel)',
                          IsLast(i, About(t, AllKinds, channel)'), Live(t)'
                   PROVE  channel'[i].shown.agent \in {"none", server'[t].agent}
        BY DEF LastTellsAgent
      <3>1. IsLast(i, About(t, AllKinds, channel')) BY DEF About
      <3>2. CASE /\ About(t, AllKinds, ev) = {}
                 /\ IsLast(i, About(t, AllKinds, channel)) /\ channel'[i] = channel[i]
        <4>1. Live(t) /\ server'[t].agent = server[t].agent BY <1>1, <3>2 DEF TellsAgent
        <4>2. channel[i].shown.agent \in {"none", server[t].agent}
          BY <2>2, <3>2, <4>1 DEF LastTellsAgent, IsLast
        <4> QED BY <3>2, <4>1, <4>2
      <3>3. ASSUME NEW j \in DOMAIN ev, IsLast(j, About(t, AllKinds, ev)), channel'[i] = ev[j]
            PROVE  channel'[i].shown.agent \in {"none", server'[t].agent}
        <4>1. About(t, AllKinds, ev) # {} BY <3>3 DEF IsLast
        <4> QED BY <1>1, <3>3, <4>1 DEF TellsAgent
      <3>4. channel \in Seq(Event) BY <1>2
      <3>5. \/ /\ About(t, AllKinds, ev) = {}
               /\ IsLast(i, About(t, AllKinds, channel)) /\ channel'[i] = channel[i]
            \/ \E j \in DOMAIN ev : IsLast(j, About(t, AllKinds, ev)) /\ channel'[i] = ev[j]
        BY <2>1a, <3>1, <3>4, LastAppended
      <3> QED BY <3>2, <3>3, <3>5
    <2>5. \A list : ListKnown(list) =>
            \A t \in Ids \ silent' : About(t, ListKinds, channel)' = {}
                => (list[t] # "none" <=> Known(t)')
      <3> SUFFICES ASSUME NEW list, ListKnown(list), NEW t \in Ids \ silent',
                          About(t, ListKinds, channel \o ev) = {}
                   PROVE  list[t] # "none" <=> Known(t)'
        BY <2>1 DEF About
      <3>1. About(t, ListKinds, channel) = {} /\ About(t, ListKinds, ev) = {}
        BY <1>2, NoneAppended
      <3> QED BY <1>1, <3>1 DEF TellsList, ListKnown
    <2>6. \A agents : AgentsKnown(agents) =>
            \A t \in Ids : About(t, AllKinds, channel)' = {} /\ Live(t)' =>
                agents[t] \in {"none", server'[t].agent}
      <3> SUFFICES ASSUME NEW agents, AgentsKnown(agents), NEW t \in Ids,
                          About(t, AllKinds, channel \o ev) = {}, Live(t)'
                   PROVE  agents[t] \in {"none", server'[t].agent}
        BY <2>1 DEF About
      <3>1. About(t, AllKinds, channel) = {} /\ About(t, AllKinds, ev) = {}
        BY <1>2, NoneAppended
      <3> QED BY <1>1, <3>1 DEF TellsAgent, AgentsKnown
    <2>7. "list" \in clean => ListKnown(view)' BY <1>2, <2>5 DEF KeptUp, ListKnown
    <2>8. "agents" \in clean => AgentsKnown(agent)' BY <1>2, <2>6 DEF KeptUp, AgentsKnown
    <2>9. ASSUME NEW f \in Fetches, Valid(f)
          PROVE  ListKnown(ListOf(f))' /\ AgentsKnown(AgentsOf(f))'
      <3>1. ListKnown(ListOf(f)) /\ AgentsKnown(AgentsOf(f)) BY <2>9 DEF KeptUp
      <3>2. ListOf(f)' = ListOf(f) /\ AgentsOf(f)' = AgentsOf(f) BY <1>2 DEF ListOf, AgentsOf
      <3> QED BY <2>5, <2>6, <3>1, <3>2 DEF ListKnown, AgentsKnown
    <2> QED BY <1>2, <1>4, <2>3, <2>4, <2>7, <2>8, <2>9 DEF KeptUp, Valid
  <1> QED BY <1>3, <1>4

-----------------------------------------------------------------------------
LEMMA OneEvent ==
  ASSUME NEW e \in Event, NEW t, NEW kinds
  PROVE  /\ <<e>> \in Seq(Event)
         /\ \A i \in DOMAIN <<e>> : IsLast(i, About(t, kinds, <<e>>)) => <<e>>[i] = e
         /\ e.id = t /\ e.kind \in kinds => About(t, kinds, <<e>>) # {}
         /\ e.id # t => About(t, kinds, <<e>>) = {}
         /\ e.kind \notin kinds => About(t, kinds, <<e>>) = {}
  BY AboutOne

\* An event about t that changes the list, and a step that changes t alone.
LEMMA OneTells ==
  ASSUME TypeOK, RestUnchanged, NEW t \in Ids, NEW s \in Snapshot,
         server' = [server EXCEPT ![t] = s],
         NEW e \in Event, e.id = t, e.kind \in ListKinds, Broadcast(<<e>>),
         e.shown.state # "none" <=> s.state # "none",
         s.agent # "none" => e.shown.agent \in {"none", s.agent},
         silent' = silent \/ silent' = silent \ {t}, missed' \subseteq Ids
  PROVE  RuntimeStep
  <1>1. server' \in [Ids -> Snapshot] BY DEF TypeOK
  <1>2. \A u \in Ids : server'[u] = IF u = t THEN s ELSE server[u] BY DEF TypeOK
  <1>3. e.kind \in AllKinds BY DEF AllKinds, ListKinds
  <1>4. TellsList(<<e>>)
    <2>1. ASSUME NEW u \in Ids \ silent', u # t
          PROVE  About(u, ListKinds, <<e>>) = {} /\ u \notin silent /\ (Known(u)' <=> Known(u))
      BY <1>2, <2>1, OneEvent DEF Known
    <2>2. /\ About(t, ListKinds, <<e>>) # {}
          /\ \A i \in DOMAIN <<e>> : IsLast(i, About(t, ListKinds, <<e>>)) =>
                (<<e>>[i].shown.state # "none" <=> Known(t)')
      BY <1>2, OneEvent DEF Known
    <2> QED BY <2>1, <2>2 DEF TellsList
  <1>5. TellsAgent(<<e>>)
    <2>1. ASSUME NEW u \in Ids, u # t, Live(u)'
          PROVE  About(u, AllKinds, <<e>>) = {} /\ Live(u) /\ server'[u].agent = server[u].agent
      BY <1>2, <2>1, OneEvent DEF Live
    <2>2. ASSUME Live(t)'
          PROVE  /\ About(t, AllKinds, <<e>>) # {}
                 /\ \A i \in DOMAIN <<e>> : IsLast(i, About(t, AllKinds, <<e>>)) =>
                       <<e>>[i].shown.agent \in {"none", server'[t].agent}
      BY <1>2, <1>3, <2>2, OneEvent DEF Live
    <2> QED BY <2>1, <2>2 DEF TellsAgent
  <1>6. <<e>> \in Seq(Event) BY OneEvent
  <1>7. silent' \subseteq Ids BY DEF TypeOK
  <1> QED BY <1>1, <1>4, <1>5, <1>6, <1>7 DEF RuntimeStep

LEMMA StartSteps ==
  ASSUME TypeOK, NEW t \in Ids, Start(t)
  PROVE  RuntimeStep
  <1> DEFINE s == Shown("running", "idle")
  <1>1. s.state = "running" /\ s \in Snapshot
    BY DEF Shown, Snapshot, States, Agents
  <1>2. Starting(t) \in Event BY EventType
  <1>3. /\ Starting(t).id = t /\ Starting(t).kind \in ListKinds
        /\ Starting(t).shown.state = "running" /\ Starting(t).shown.agent = "none"
    BY DEF Starting, Updated, Shown, ListKinds
  <1>4. missed' \subseteq Ids BY DEF Start, TypeOK
  <1>5. server' = [server EXCEPT ![t] = s] /\ Broadcast(<<Starting(t)>>) /\ silent' = silent
    BY DEF Start
  <1>6. RestUnchanged BY DEF Start, RestUnchanged
  <1> HIDE DEF s
  <1> QED BY <1>1, <1>2, <1>3, <1>4, <1>5, <1>6, OneTells

LEMMA EndSteps ==
  ASSUME TypeOK, NEW t \in Ids, End(t)
  PROVE  RuntimeStep
  <1> DEFINE s == Shown("ended", "none")
  <1>1. s.state = "ended" /\ s.agent = "none" /\ s \in Snapshot
    BY DEF Shown, Snapshot, States, Agents
  <1>2. Ending(t) \in Event BY EventType
  <1>3. Ending(t).id = t /\ Ending(t).kind \in ListKinds /\ Ending(t).shown.state # "none"
    BY DEF Ending, Updated, Shown, ListKinds
  <1>4. missed' \subseteq Ids BY DEF End, TypeOK
  <1>5. server' = [server EXCEPT ![t] = s] /\ Broadcast(<<Ending(t)>>) /\ silent' = silent
    BY DEF End
  <1>6. RestUnchanged BY DEF End, RestUnchanged
  <1> HIDE DEF s
  <1> QED BY <1>1, <1>2, <1>3, <1>4, <1>5, <1>6, OneTells

LEMMA RenameSteps ==
  ASSUME TypeOK, NEW t \in Ids, Rename(t)
  PROVE  RuntimeStep
  <1>1. server[t] \in Snapshot BY DEF TypeOK
  <1>2. Updated(t, server[t]) \in Event BY <1>1, EventType
  <1>3. /\ Updated(t, server[t]).id = t /\ Updated(t, server[t]).kind \in ListKinds
        /\ Updated(t, server[t]).shown = server[t]
    BY DEF Updated, ListKinds
  <1>4. missed' \subseteq Ids BY DEF Rename, TypeOK
  <1>5. server' = [server EXCEPT ![t] = server[t]] /\ silent' = silent
    BY DEF Rename, TypeOK
  <1>6. Broadcast(<<Updated(t, server[t])>>) BY DEF Rename
  <1>7. RestUnchanged BY DEF Rename, RestUnchanged
  <1> QED BY <1>1, <1>2, <1>3, <1>4, <1>5, <1>6, <1>7, OneTells

LEMMA AgentChangesSteps ==
  ASSUME TypeOK, NEW t \in Ids, AgentChanges(t)
  PROVE  RuntimeStep
  <1>1. PICK a \in {"idle", "busy"} \ {server[t].agent} :
            server' = [server EXCEPT ![t].agent = a] /\ Broadcast(<<StateChanged(t, a)>>)
    BY DEF AgentChanges
  <1>2. StateChanged(t, a) \in Event BY EventType DEF Agents
  <1>3. /\ StateChanged(t, a).id = t /\ StateChanged(t, a).kind \in AllKinds
        /\ StateChanged(t, a).kind \notin ListKinds /\ StateChanged(t, a).shown.agent = a
    BY DEF StateChanged, Gone, AllKinds, ListKinds
  <1>4. server' \in [Ids -> Snapshot] BY <1>1 DEF TypeOK, Snapshot, Agents
  <1>5. /\ \A u \in Ids : u # t => server'[u] = server[u]
        /\ server'[t].agent = a /\ server'[t].state = server[t].state
    BY <1>1 DEF TypeOK, Snapshot
  <1>6. RestUnchanged /\ silent' = silent /\ missed' = missed
    BY DEF AgentChanges, RestUnchanged
  <1>7. TellsList(<<StateChanged(t, a)>>)
    <2>1. \A u \in Ids : About(u, ListKinds, <<StateChanged(t, a)>>) = {}
      BY <1>2, <1>3, OneEvent
    <2> QED BY <1>5, <1>6, <2>1 DEF TellsList, Known
  <1>8. TellsAgent(<<StateChanged(t, a)>>)
    <2> DEFINE e == StateChanged(t, a)
    <2>1. ASSUME NEW u \in Ids, u # t, Live(u)'
          PROVE  About(u, AllKinds, <<e>>) = {} /\ Live(u) /\ server'[u].agent = server[u].agent
      BY <1>2, <1>3, <1>5, <2>1, OneEvent DEF Live
    <2>2. /\ About(t, AllKinds, <<e>>) # {}
          /\ \A i \in DOMAIN <<e>> : IsLast(i, About(t, AllKinds, <<e>>)) =>
                <<e>>[i].shown.agent \in {"none", server'[t].agent}
      BY <1>2, <1>3, <1>5, OneEvent
    <2> QED BY <2>1, <2>2 DEF TellsAgent
  <1>9. <<StateChanged(t, a)>> \in Seq(Event) BY <1>2, OneEvent
  <1> QED BY <1>1, <1>4, <1>6, <1>7, <1>8, <1>9 DEF RuntimeStep, TypeOK

\* A terminal is created: the last of one or two events tells its state.
LEMMA CreateSteps ==
  ASSUME TypeOK, NEW t \in Ids, Create(t)
  PROVE  RuntimeStep
  <1> DEFINE s == Shown("registered", "none")
             c == Created(t, s)
             r == Shown("running", "idle")
             b == Starting(t)
  <1>1. /\ s.state = "registered" /\ s.agent = "none" /\ s \in Snapshot
        /\ r.state = "running" /\ r \in Snapshot
    BY DEF Shown, Snapshot, States, Agents
  <1>2. c \in Event /\ b \in Event BY <1>1, EventType
  <1>3. /\ c.id = t /\ c.kind \in ListKinds /\ c.shown = s
        /\ b.id = t /\ b.kind \in ListKinds /\ b.kind \in AllKinds
        /\ b.shown.state = "running" /\ b.shown.agent = "none"
    BY DEF Created, Starting, Updated, Shown, ListKinds, AllKinds
  <1>4. missed' \subseteq Ids /\ silent' = silent \ {t} BY ChangedType DEF Create
  <1>5. RestUnchanged BY DEF Create, RestUnchanged
  <1>6. \/ server' = [server EXCEPT ![t] = s] /\ Broadcast(<<c>>)
        \/ server' = [server EXCEPT ![t] = r] /\ Broadcast(<<c, b>>)
    BY DEF Create
  <1> HIDE DEF s, r, c, b
  <1>7. CASE server' = [server EXCEPT ![t] = s] /\ Broadcast(<<c>>)
    BY <1>1, <1>2, <1>3, <1>4, <1>5, <1>7, OneTells
  <1>8. CASE server' = [server EXCEPT ![t] = r] /\ Broadcast(<<c, b>>)
    <2>1. server' \in [Ids -> Snapshot] BY <1>1, <1>8 DEF TypeOK
    <2>2. \A u \in Ids : server'[u] = IF u = t THEN r ELSE server[u] BY <1>8 DEF TypeOK
    <2>3. ASSUME NEW u, u # t, NEW kinds
          PROVE  About(u, kinds, <<c, b>>) = {}
      BY <1>3, <2>3 DEF About
    <2>4. ASSUME NEW kinds, b.kind \in kinds
          PROVE  /\ About(t, kinds, <<c, b>>) # {}
                 /\ \A i \in DOMAIN <<c, b>> :
                       IsLast(i, About(t, kinds, <<c, b>>)) => <<c, b>>[i] = b
      <3>1. 2 \in About(t, kinds, <<c, b>>) BY <1>3, <2>4 DEF About
      <3> QED BY <3>1 DEF IsLast
    <2>5. TellsList(<<c, b>>)
      <3>1. ASSUME NEW u \in Ids \ silent', u # t
            PROVE  About(u, ListKinds, <<c, b>>) = {} /\ u \notin silent /\ (Known(u)' <=> Known(u))
        BY <1>4, <2>2, <2>3, <3>1 DEF Known
      <3>2. /\ About(t, ListKinds, <<c, b>>) # {}
            /\ \A i \in DOMAIN <<c, b>> : IsLast(i, About(t, ListKinds, <<c, b>>)) =>
                  (<<c, b>>[i].shown.state # "none" <=> Known(t)')
        BY <1>1, <1>3, <2>2, <2>4 DEF Known
      <3> QED BY <3>1, <3>2 DEF TellsList
    <2>6. TellsAgent(<<c, b>>)
      <3>1. ASSUME NEW u \in Ids, u # t, Live(u)'
            PROVE  /\ About(u, AllKinds, <<c, b>>) = {} /\ Live(u)
                   /\ server'[u].agent = server[u].agent
        BY <2>2, <2>3, <3>1 DEF Live
      <3>2. /\ About(t, AllKinds, <<c, b>>) # {}
            /\ \A i \in DOMAIN <<c, b>> : IsLast(i, About(t, AllKinds, <<c, b>>)) =>
                  <<c, b>>[i].shown.agent \in {"none", server'[t].agent}
        BY <1>3, <2>4
      <3> QED BY <3>1, <3>2 DEF TellsAgent
    <2>7. <<c, b>> \in Seq(Event) BY <1>2
    <2> QED BY <1>4, <1>5, <1>8, <2>1, <2>5, <2>6, <2>7 DEF RuntimeStep, TypeOK
  <1> QED BY <1>6, <1>7, <1>8

-----------------------------------------------------------------------------
(* Terminals that go together. *)

LEMMA WithoutValue ==
  ASSUME TypeOK, NEW T \in SUBSET Ids
  PROVE  /\ Without(T) \in [Ids -> Snapshot]
         /\ \A u \in T : Without(T)[u].state = "none" /\ Without(T)[u].agent = "none"
         /\ \A u \in Ids \ T : Without(T)[u] = server[u]
  BY GoneType DEF TypeOK, Without, Gone

\* A sequence of endings and then deletions of the members of T tells what the
\* deletion of T changes.
LEMMA DeletionsTell ==
  ASSUME TypeOK, RestUnchanged, NEW T \in SUBSET Ids, server' = Without(T),
         NEW ends \in Seq(Event), \A i \in 1..Len(ends) : ends[i].id \in T,
         NEW s \in Orders(T), Broadcast(ends \o Deletions(s)),
         silent' = silent \ T, missed' \subseteq Ids
  PROVE  RuntimeStep
  <1> DEFINE ds == Deletions(s)
             ev == ends \o ds
  <1>1. /\ Len(s) \in Nat
        /\ \A i \in 1..Len(s) : s[i] \in T
        /\ \A t \in T : \E i \in 1..Len(s) : s[i] = t
    BY OrderCovers
  <1>2. /\ ds \in Seq(Event) /\ Len(ds) = Len(s)
        /\ \A i \in 1..Len(ds) : ds[i] = Deleted(s[i])
    BY FamilyEvents
  <1>2a. ev \in Seq(Event) /\ Broadcast(ev) BY <1>2
  <1> HIDE DEF ds
  <1>3. \A i \in 1..Len(ds) : /\ ds[i].id \in T /\ ds[i].kind \in ListKinds
                              /\ ds[i].kind \in AllKinds /\ ds[i].shown = Gone
    BY <1>1, <1>2, EventFields DEF ListKinds, AllKinds
  <1>4. \A t \in T : \E i \in 1..Len(ds) : ds[i].id = t BY <1>1, <1>2, EventFields
  <1>6. \A kinds : \A u : u \notin T => About(u, kinds, ev) = {}
    <2> SUFFICES ASSUME NEW kinds, NEW u, u \notin T, NEW i \in About(u, kinds, ev) PROVE FALSE
      OBVIOUS
    <2>1. CASE i \in 1..Len(ends)
      BY <2>1 DEF About
    <2>2. ASSUME NEW j \in 1..Len(ds), i = Len(ends) + j PROVE FALSE
      <3>1. j \in About(u, kinds, ds) BY <1>2, <2>2, AboutAppended
      <3> QED BY <1>3, <3>1 DEF About
    <2> QED BY <1>2, <2>1, <2>2, AboutAppended
  <1>7. ASSUME NEW kinds \in {ListKinds, AllKinds}, NEW t \in T
        PROVE  /\ About(t, kinds, ev) # {}
               /\ \A i \in DOMAIN ev : IsLast(i, About(t, kinds, ev)) => ev[i].shown = Gone
    <2>1. PICK k \in 1..Len(ds) : ds[k].id = t BY <1>4
    <2>2. k \in About(t, kinds, ds) BY <1>2, <1>3, <1>7, <2>1 DEF About
    <2>3. Len(ends) + k \in About(t, kinds, ev) BY <1>2, <2>1, <2>2, AboutAppended
    <2>4. ASSUME NEW i \in DOMAIN ev, IsLast(i, About(t, kinds, ev))
          PROVE  ev[i].shown = Gone
      <3>1. Joins(ev, ends, ds) BY DEF Joins
      <3> HIDE DEF ev
      <3>2. \/ About(t, kinds, ds) = {}
            \/ \E j \in DOMAIN ds : IsLast(j, About(t, kinds, ds)) /\ ev[i] = ds[j]
        BY <1>2, <2>4, <3>1, LastAppended
      <3> QED BY <1>2, <1>3, <2>2, <3>2
    <2> QED BY <2>3, <2>4
  <1> HIDE DEF ev
  <1>8. /\ server' \in [Ids -> Snapshot]
        /\ \A u \in T : server'[u].state = "none" /\ server'[u].agent = "none"
        /\ \A u \in Ids \ T : server'[u] = server[u]
    BY WithoutValue
  <1>9. TellsList(ev)
    <2>1. ASSUME NEW u \in Ids \ silent', u \notin T
          PROVE  About(u, ListKinds, ev) = {} /\ u \notin silent /\ (Known(u)' <=> Known(u))
      BY <1>6, <1>8, <2>1 DEF Known
    <2>2. ASSUME NEW u \in T
          PROVE  /\ About(u, ListKinds, ev) # {}
                 /\ \A i \in DOMAIN ev : IsLast(i, About(u, ListKinds, ev)) =>
                       (ev[i].shown.state # "none" <=> Known(u)')
      BY <1>7, <1>8 DEF Known, Gone
    <2> QED BY <2>1, <2>2 DEF TellsList
  <1>10. TellsAgent(ev)
    BY <1>6, <1>8 DEF TellsAgent, Live
  <1> QED BY <1>2a, <1>8, <1>9, <1>10 DEF RuntimeStep, TypeOK

LEMMA PruneSteps ==
  ASSUME TypeOK, Prune
  PROVE  RuntimeStep
  <1> DEFINE T == {t \in Ids : server[t].state = "ended"}
  <1>1. T \in SUBSET Ids OBVIOUS
  <1>2. PICK s \in Orders(T) : Broadcast(Deletions(s)) BY DEF Prune
  <1>3. /\ server' = Without(T) /\ silent' = silent \ T /\ RestUnchanged
        /\ Changed(T)
    BY DEF Prune, RestUnchanged
  <1> HIDE DEF T
  <1>4. missed' \subseteq Ids BY <1>1, <1>3, ChangedType
  <1>5. Deletions(s) \in Seq(Event) BY <1>1, FamilyEvents
  <1>6. <<>> \o Deletions(s) = Deletions(s) BY <1>5
  <1>7. <<>> \in Seq(Event) /\ \A i \in 1..Len(<<>>) : <<>>[i].id \in T OBVIOUS
  <1>8. Broadcast(<<>> \o Deletions(s)) BY <1>2, <1>6
  <1> QED BY <1>1, <1>3, <1>4, <1>7, <1>8, DeletionsTell

LEMMA DeleteSteps ==
  ASSUME TypeOK, NEW T \in SUBSET Ids, Delete(T)
  PROVE  RuntimeStep
  <1> DEFINE L == {t \in T : Live(t)}
  <1>1. L \in SUBSET Ids /\ L \subseteq T OBVIOUS
  <1>2. PICK s \in Orders(T), e \in Orders(L) : Broadcast(Endings(e) \o Deletions(s))
    BY DEF Delete
  <1> HIDE DEF L
  <1>3. server' = Without(T) /\ silent' = silent \ T /\ RestUnchanged
    BY DEF Delete, RestUnchanged
  <1>4. missed' \subseteq Ids BY ChangedType DEF Delete
  <1>5. /\ Endings(e) \in Seq(Event) /\ Len(Endings(e)) = Len(e)
        /\ \A i \in 1..Len(e) : Endings(e)[i] = Ending(e[i]) /\ e[i] \in T
    BY <1>1, FamilyEvents, OrderCovers
  <1>6. \A i \in 1..Len(Endings(e)) : Endings(e)[i].id \in T
    BY <1>5, EventFields
  <1> QED BY <1>2, <1>3, <1>4, <1>5, <1>6, DeletionsTell

LEMMA DeleteFailsSteps ==
  ASSUME TypeOK, NEW T \in SUBSET Ids, NEW f \in Ids, DeleteFails(T, f)
  PROVE  RuntimeStep
  <1> DEFINE L == {t \in T \cup {f} : Live(t)}
  <1>1. L \in SUBSET Ids /\ f \notin T /\ Known(f) BY DEF DeleteFails
  <1>2. PICK e \in Orders(L) : Broadcast(Endings(e)) BY DEF DeleteFails
  <1>3. RestUnchanged /\ silent' = silent \cup T BY DEF DeleteFails, RestUnchanged
  <1>4. missed' \subseteq Ids /\ silent' \subseteq Ids
    BY <1>3, ChangedType DEF DeleteFails, TypeOK
  <1> DEFINE ev == Endings(e)
  <1>5. /\ ev \in Seq(Event) /\ Broadcast(ev)
        /\ \A i \in DOMAIN ev : ev[i] = Ending(ev[i].id) /\ ev[i].id \in L
    <2>1. /\ ev \in Seq(Event) /\ Len(ev) = Len(e)
          /\ \A i \in 1..Len(e) : ev[i] = Ending(e[i]) /\ e[i] \in L
      BY <1>1, FamilyEvents, OrderCovers
    <2> HIDE DEF ev
    <2>2. \A u : Ending(u).id = u BY EventFields
    <2>3. DOMAIN ev = 1..Len(e) BY <2>1
    <2>4. ev \in Seq(Event) /\ \A i \in DOMAIN ev : ev[i] = Ending(ev[i].id) /\ ev[i].id \in L
      BY <2>1, <2>2, <2>3
    <2> QED BY <1>2, <2>4 DEF ev
  <1>6. /\ server' \in [Ids -> Snapshot]
        /\ \A u \in T : server'[u].state = "none" /\ server'[u].agent = "none"
        /\ \A u \in Ids \ (T \cup {f}) : server'[u] = server[u]
        /\ IF Live(f) THEN server'[f].state = "ended" /\ server'[f].agent = "none"
                      ELSE server'[f] = server[f]
    <2>1. server' = [Without(T) EXCEPT ![f] = IF Live(f) THEN Shown("ended", "none") ELSE @]
      BY DEF DeleteFails
    <2>2. /\ Shown("ended", "none") \in Snapshot
          /\ Shown("ended", "none").state = "ended" /\ Shown("ended", "none").agent = "none"
      BY DEF Shown, Snapshot, States, Agents
    <2>3. CASE Live(f) BY <1>1, <2>1, <2>2, <2>3, WithoutValue
    <2>4. CASE ~Live(f) BY <1>1, <2>1, <2>4, WithoutValue
    <2> QED BY <2>3, <2>4
  <1>7. \A u \in Ids : ~Live(u)' \/ (server'[u] = server[u] /\ u \notin L)
    BY <1>6 DEF Live, L
  <1>8. \A u \in Ids \ silent' : u \notin silent /\ (Known(u)' <=> Known(u)) /\ (u \in L => u = f)
    BY <1>1, <1>3, <1>6 DEF Known, L
  <1> HIDE DEF ev, L
  <1>9. TellsList(ev)
    <2>1. ASSUME NEW i \in DOMAIN ev PROVE ev[i].shown.state # "none"
      BY <1>5, EventFields
    <2>2. \A u \in Ids \ silent' : u \notin L => About(u, ListKinds, ev) = {}
      BY <1>5 DEF About
    <2>3. \A u : u \in L /\ u \notin T => u = f BY DEF L
    <2>4. ASSUME NEW u \in Ids \ silent', About(u, ListKinds, ev) # {}
          PROVE  Known(u)'
      BY <1>1, <1>8, <2>2, <2>4
    <2>5. \A u \in Ids \ silent' : About(u, ListKinds, ev) # {} =>
             \A i \in DOMAIN ev : ev[i].shown.state # "none" <=> Known(u)'
      BY <2>1, <2>4
    <2> QED BY <1>8, <2>5 DEF TellsList
  <1>10. TellsAgent(ev)
    <2>1. \A u \in Ids : u \notin L => About(u, AllKinds, ev) = {} BY <1>5 DEF About
    <2> QED BY <1>7, <2>1 DEF TellsAgent, Live
  <1> QED BY <1>3, <1>4, <1>5, <1>6, <1>9, <1>10 DEF RuntimeStep

-----------------------------------------------------------------------------
(* The connection and the client. *)

LEMMA ConnectionType ==
  ASSUME TypeOK, Accept \/ Reconnect \/ \E f \in Fetches : Close(f) \/ Refetch(f)
  PROVE  TypeOK'
  BY FetchType DEF TypeOK, Accept, Reconnect, Close, Refetch, client, history

LEMMA BreakType ==
  ASSUME TypeOK, Break
  PROVE  TypeOK'
  <1>1. fetch' \in [Fetches -> Fetch] BY OvertakeType DEF Break
  <1>2. channel' \in Seq(Event) BY DEF TypeOK, Break
  <1>3. changes' \in Nat /\ breaks' \in Nat /\ changes' + breaks' <= MaxChanges
    BY EventsAssumption DEF TypeOK, Break
  <1>4. link' = "broken" /\ clean' = {} /\ UNCHANGED <<server, view, agent, effect, silent, missed>>
    BY DEF Break, client
  <1> QED BY <1>1, <1>2, <1>3, <1>4 DEF TypeOK

LEMMA ReceiveType ==
  ASSUME TypeOK, Receive
  PROVE  TypeOK'
  <1>1. fetch' \in [Fetches -> Fetch] BY OvertakeType DEF Receive
  <1>2. channel' \in Seq(Event) /\ Head(channel) \in Event BY DEF TypeOK, Receive
  <1>3. view' \in [Ids -> States] /\ agent' \in [Ids -> Agents]
    BY <1>2 DEF TypeOK, Receive, Event, Snapshot
  <1> QED BY <1>1, <1>2, <1>3 DEF TypeOK, Receive, history

LEMMA RenderType ==
  ASSUME TypeOK, Render \/ Reconcile
  PROVE  TypeOK'
  <1>1. /\ Cardinality({{t \in Ids : view[t] # "none"}}) = 1
        /\ Cardinality({}) = 0
    BY FS_Singleton, FS_EmptySet, Zenon
  <1>2. CASE Render
    <2>1. effect' = {{t \in Ids : view[t] # "none"}} BY <1>2 DEF Render
    <2>2. Cardinality(effect') <= 1 BY <1>1, <2>1
    <2>3. effect' \subseteq SUBSET Ids BY <2>1
    <2> QED BY <1>2, <2>2, <2>3 DEF TypeOK, Render, history
  <1>3. CASE Reconcile
    <2>1. effect' = {} BY <1>3 DEF Reconcile
    <2>2. Cardinality(effect') <= 1 BY <1>1, <2>1
    <2>3. agent' \in [Ids -> Agents] BY <1>3 DEF Reconcile, TypeOK, Agents
    <2> QED BY <1>3, <2>1, <2>2, <2>3 DEF TypeOK, Reconcile, history
  <1> QED BY <1>2, <1>3

LEMMA ListType ==
  ASSUME TypeOK, NEW f \in Fetches
  PROVE  ListOf(f) \in [Ids -> States] /\ [t \in Ids |-> fetch[f].list[t].agent] \in [Ids -> Agents]
  BY DEF TypeOK, ListOf, Fetch, Snapshot

LEMMA AnswerType ==
  ASSUME TypeOK, NEW f \in Fetches,
         Answer(f) \/ Sync(f) \/ FetchFails(f) \/ Hydrate \/ HydrationFails
  PROVE  TypeOK'
  <1>1. fetch \in [Fetches -> Fetch] /\ server \in [Ids -> Snapshot] BY DEF TypeOK
  <1>2. Hydration \in Fetches BY EventsAssumption
  <1>3. CASE Answer(f)
    <2>1. fetch' = [fetch EXCEPT ![f] = [fetch[f] EXCEPT !.state = "answered", !.list = server,
                                                         !.overtaken = link # "open"]]
      BY <1>1, <1>3 DEF Answer
    <2>2. [fetch[f] EXCEPT !.state = "answered", !.list = server,
                           !.overtaken = link # "open"] \in Fetch
      BY <1>1 DEF Fetch
    <2> QED BY <1>1, <1>3, <2>1, <2>2 DEF TypeOK, Answer, client, history
  <1>4. CASE Sync(f)
    <2>1. \/ fetch' = [fetch EXCEPT ![f] = Free]
          \/ fetch' = [fetch EXCEPT ![f] = [fetch[f] EXCEPT !.state = "synced"]]
      BY <1>1, <1>4 DEF Sync
    <2>2. [fetch[f] EXCEPT !.state = "synced"] \in Fetch BY <1>1 DEF Fetch
    <2>3. fetch' \in [Fetches -> Fetch] BY <1>1, <2>1, <2>2, FetchType
    <2>4. clean' \subseteq {"list", "agents"} BY <1>4 DEF Sync, Replaced, TypeOK
    <2>5. view' \in [Ids -> States] /\ agent' \in [Ids -> Agents]
      BY <1>4, ListType DEF Sync, TypeOK
    <2> QED BY <1>4, <2>3, <2>4, <2>5 DEF TypeOK, Sync
  <1>5. CASE FetchFails(f) BY <1>1, <1>5, FetchType DEF TypeOK, FetchFails, client, history
  <1>6. CASE Hydrate
    <2>1. clean' \subseteq {"list", "agents"} BY <1>6 DEF Hydrate, Replaced, TypeOK
    <2>2. view' \in [Ids -> States] BY <1>2, <1>6, ListType DEF Hydrate
    <2>3. fetch' \in [Fetches -> Fetch] BY <1>1, <1>6, FetchType DEF Hydrate
    <2> QED BY <1>6, <2>1, <2>2, <2>3 DEF TypeOK, Hydrate
  <1>7. CASE HydrationFails
    <2>1. \/ fetch' = [fetch EXCEPT ![Hydration] = Free]
          \/ fetch' = [fetch EXCEPT ![Hydration] = [fetch[Hydration] EXCEPT !.used = FALSE]]
      BY <1>1, <1>2, <1>7 DEF HydrationFails
    <2>2. [fetch[Hydration] EXCEPT !.used = FALSE] \in Fetch BY <1>1, <1>2 DEF Fetch
    <2>3. fetch' \in [Fetches -> Fetch] BY <1>1, <1>2, <2>1, <2>2, FetchType
    <2>4. view' \in [Ids -> States] BY <1>7 DEF HydrationFails, States
    <2> QED BY <1>7, <2>3, <2>4 DEF TypeOK, HydrationFails
  <1> QED BY <1>3, <1>4, <1>5, <1>6, <1>7

-----------------------------------------------------------------------------
\* Neither the runtime nor the channel moves.
Still == UNCHANGED <<server, link, channel, silent>>

LEMMA StillKnown ==
  ASSUME Still
  PROVE  /\ LastTellsList' <=> LastTellsList
         /\ LastTellsAgent' <=> LastTellsAgent
         /\ \A list : ListKnown(list) =>
              \A t \in Ids \ silent' :
                 About(t, ListKinds, channel)' = {} => (list[t] # "none" <=> Known(t)')
         /\ \A agents : AgentsKnown(agents) =>
              \A t \in Ids : About(t, AllKinds, channel)' = {} /\ Live(t)' =>
                  agents[t] \in {"none", server'[t].agent}
  <1>1. server' = server /\ channel' = channel /\ silent' = silent BY DEF Still
  <1>2. \A t, kinds : About(t, kinds, channel)' = About(t, kinds, channel) BY <1>1 DEF About
  <1>3. \A t : (Known(t)' <=> Known(t)) /\ (Live(t)' <=> Live(t)) BY <1>1 DEF Known, Live
  <1> QED BY <1>1, <1>2, <1>3
          DEF LastTellsList, LastTellsAgent, ListKnown, AgentsKnown, IsLast

\* The lists of the answers a step keeps.
LEMMA KeptAnswers ==
  ASSUME TypeOK, KeptUp, Still, NEW f \in Fetches, Valid(f)', fetch[f].list = fetch'[f].list,
         Valid(f)
  PROVE  ListKnown(ListOf(f))' /\ AgentsKnown(AgentsOf(f))' /\ link' = "open"
  <1>1. ListKnown(ListOf(f)) /\ AgentsKnown(AgentsOf(f)) /\ link = "open" BY DEF KeptUp
  <1>2. ListOf(f)' = ListOf(f) /\ AgentsOf(f)' = AgentsOf(f) BY DEF ListOf, AgentsOf
  <1>3. ListKnown(ListOf(f))' BY <1>1, <1>2, StillKnown DEF ListKnown
  <1>4. AgentsKnown(AgentsOf(f))' BY <1>1, <1>2, StillKnown DEF AgentsKnown
  <1> QED BY <1>1, <1>3, <1>4 DEF Still

\* What a step of the client must do when it neither receives an event nor
\* touches the connection.
KnowsFrom(f) == Valid(f) /\ fetch'[f].list = fetch[f].list
AnsweredNow(f) == link = "open" /\ fetch'[f].list = server

ClientKeeps ==
    /\ Still
    /\ \A f \in Fetches : Valid(f)' => KnowsFrom(f) \/ AnsweredNow(f)
    /\ "list" \in clean' =>
        \/ "list" \in clean /\ view' = view
        \/ \E f \in Fetches : Valid(f) /\ view' = ListOf(f)
    /\ "agents" \in clean' =>
        \/ "agents" \in clean /\ \A t \in Ids : agent'[t] \in {"none", agent[t]}
        \/ \E f \in Fetches : Valid(f) /\ agent' = AgentsOf(f)

LEMMA ClientStepKeeps ==
  ASSUME TypeOK, TypeOK', KeptUp, ClientKeeps
  PROVE  KeptUp'
  <1>1. Still BY DEF ClientKeeps
  <1>2. UNCHANGED <<server, link, channel, silent>> BY <1>1 DEF Still
  <1>3. "list" \in clean' => link = "open" /\ ListKnown(view)'
    <2>1. CASE "list" \in clean /\ view' = view
      <3>1. ListKnown(view) /\ link = "open" BY <2>1 DEF KeptUp
      <3> QED BY <1>1, <2>1, <3>1, StillKnown DEF ListKnown
    <2>2. ASSUME NEW f \in Fetches, Valid(f), view' = ListOf(f)
          PROVE  link = "open" /\ ListKnown(view)'
      <3>1. ListKnown(ListOf(f)) /\ link = "open" BY <2>2 DEF KeptUp
      <3> QED BY <1>1, <2>2, <3>1, StillKnown DEF ListKnown
    <2> QED BY <2>1, <2>2 DEF ClientKeeps
  <1>4. "agents" \in clean' => link = "open" /\ AgentsKnown(agent)'
    <2>1. CASE "agents" \in clean /\ \A t \in Ids : agent'[t] \in {"none", agent[t]}
      <3>1. AgentsKnown(agent) /\ link = "open" BY <2>1 DEF KeptUp
      <3> QED BY <1>1, <2>1, <3>1, StillKnown DEF AgentsKnown
    <2>2. ASSUME NEW f \in Fetches, Valid(f), agent' = AgentsOf(f)
          PROVE  link = "open" /\ AgentsKnown(agent)'
      <3>1. AgentsKnown(AgentsOf(f)) /\ link = "open" BY <2>2 DEF KeptUp
      <3> QED BY <1>1, <2>2, <3>1, StillKnown DEF AgentsKnown
    <2> QED BY <2>1, <2>2 DEF ClientKeeps
  <1>5. ASSUME NEW f \in Fetches, Valid(f)'
        PROVE  link' = "open" /\ ListKnown(ListOf(f))' /\ AgentsKnown(AgentsOf(f))'
    <2>1. CASE KnowsFrom(f) BY <1>1, <1>5, <2>1, KeptAnswers DEF KnowsFrom
    <2>2. CASE AnsweredNow(f)
      <3>1. link' = "open" /\ fetch'[f].list = server' BY <1>2, <2>2 DEF AnsweredNow
      <3>2. \A t \in Ids : ListOf(f)'[t] = server'[t].state /\ AgentsOf(f)'[t] = server'[t].agent
        BY <3>1 DEF ListOf, AgentsOf
      <3>3. ListKnown(ListOf(f))' BY <3>2 DEF ListKnown, Known
      <3>4. AgentsKnown(AgentsOf(f))' BY <3>2 DEF AgentsKnown
      <3> QED BY <3>1, <3>3, <3>4
    <2> QED BY <1>5, <2>1, <2>2 DEF ClientKeeps
  <1>6. clean' # {} => link' = "open"
    <2>1. clean' \subseteq {"list", "agents"} BY DEF TypeOK
    <2> QED BY <1>2, <1>3, <1>4, <2>1
  <1>7. link' = "open" => LastTellsList' /\ LastTellsAgent'
    BY <1>1, <1>2, StillKnown DEF KeptUp
  <1>8. link' \in {"connecting", "waiting"} => channel' = <<>> BY <1>2 DEF KeptUp
  <1> QED BY <1>3, <1>4, <1>5, <1>6, <1>7, <1>8 DEF KeptUp

LEMMA RefetchKeeps ==
  ASSUME TypeOK, TypeOK', KeptUp, NEW f \in Fetches, Refetch(f) \/ Answer(f) \/ FetchFails(f)
  PROVE  KeptUp'
  <1>1. Still /\ clean' = clean /\ view' = view /\ agent' = agent
    BY DEF Refetch, Answer, FetchFails, Still, client, history
  <1>2. fetch \in [Fetches -> Fetch] BY DEF TypeOK
  <1>3. \A g \in Fetches : g # f => fetch'[g] = fetch[g]
    BY <1>2 DEF Refetch, Answer, FetchFails
  <1>4. Valid(f)' => AnsweredNow(f)
    <2>1. CASE Answer(f)
      <3>1. /\ fetch' = [fetch EXCEPT ![f].state = "answered", ![f].list = server,
                                      ![f].overtaken = link # "open"]
        BY <2>1 DEF Answer
      <3>2. fetch'[f].list = server BY <1>2, <3>1 DEF Fetch
      <3>3. CASE link = "open" BY <3>2, <3>3 DEF AnsweredNow
      <3>4. CASE link # "open"
        <4>1. fetch'[f].overtaken = TRUE BY <1>2, <3>1, <3>4 DEF Fetch
        <4> QED BY <4>1 DEF Valid
      <3> QED BY <3>3, <3>4
    <2>2. CASE Refetch(f) \/ FetchFails(f)
      BY <1>2, <2>2 DEF Refetch, FetchFails, Valid, Sent, Free
    <2> QED BY <2>1, <2>2
  <1>5. \A g \in Fetches : g # f => (Valid(g)' => KnowsFrom(g))
    BY <1>3 DEF Valid, KnowsFrom
  <1>6. \A t \in Ids : agent'[t] \in {"none", agent[t]} BY <1>1
  <1>7. ClientKeeps BY <1>1, <1>4, <1>5, <1>6 DEF ClientKeeps
  <1> QED BY <1>7, ClientStepKeeps

LEMMA RenderKeeps ==
  ASSUME TypeOK, TypeOK', KeptUp, Render \/ Reconcile
  PROVE  KeptUp'
  <1>1. Still /\ clean' = clean /\ view' = view /\ fetch' = fetch
    BY DEF Render, Reconcile, Still, history
  <1>2. \A t \in Ids : agent'[t] \in {"none", agent[t]} BY DEF Render, Reconcile
  <1>3. \A g \in Fetches : Valid(g)' => KnowsFrom(g) BY <1>1 DEF Valid, KnowsFrom
  <1>4. ClientKeeps BY <1>1, <1>2, <1>3 DEF ClientKeeps
  <1> QED BY <1>4, ClientStepKeeps

LEMMA SyncKeeps ==
  ASSUME TypeOK, TypeOK', KeptUp, NEW f \in Fetches, Sync(f)
  PROVE  KeptUp'
  <1>1. Still /\ agent' = AgentsOf(f) BY DEF Sync, Still, AgentsOf
  <1>2. fetch \in [Fetches -> Fetch] BY DEF TypeOK
  <1>3. \A g \in Fetches : Valid(g)' => KnowsFrom(g)
    <2>1. \A g \in Fetches : g # f => fetch'[g] = fetch[g] BY <1>2 DEF Sync
    <2>2. Valid(f)' => KnowsFrom(f) BY <1>2 DEF Sync, Valid, KnowsFrom, Free, Fetch
    <2> QED BY <2>1, <2>2 DEF Valid, KnowsFrom
  <1>4. fetch[f].overtaken \in BOOLEAN /\ fetch[f].state = "answered"
    BY <1>2 DEF Sync, Fetch
  <1>5. Valid(f) <=> ~fetch[f].overtaken BY <1>4 DEF Valid
  <1>6. "agents" \in clean' => Valid(f)
    BY <1>5 DEF Sync, Replaced
  <1>7. "list" \in clean' => ("list" \in clean /\ view' = view) \/ (Valid(f) /\ view' = ListOf(f))
    BY <1>5 DEF Sync, Replaced
  <1>8. ClientKeeps BY <1>1, <1>3, <1>6, <1>7 DEF ClientKeeps
  <1> QED BY <1>8, ClientStepKeeps

LEMMA HydrateKeeps ==
  ASSUME TypeOK, TypeOK', KeptUp, Hydrate \/ HydrationFails
  PROVE  KeptUp'
  <1>1. Still /\ agent' = agent BY DEF Hydrate, HydrationFails, Still
  <1>2. fetch \in [Fetches -> Fetch] /\ Hydration \in Fetches BY EventsAssumption DEF TypeOK
  <1>3. \A g \in Fetches : Valid(g)' => KnowsFrom(g)
    <2>1. \A g \in Fetches : g # Hydration => fetch'[g] = fetch[g]
      BY <1>2 DEF Hydrate, HydrationFails
    <2>2. Valid(Hydration)' => KnowsFrom(Hydration)
      BY <1>2 DEF Hydrate, HydrationFails, Valid, KnowsFrom, Free, Fetch
    <2> QED BY <2>1, <2>2 DEF Valid, KnowsFrom
  <1>4. "agents" \in clean' => "agents" \in clean BY DEF Hydrate, HydrationFails, Replaced
  <1>5. "list" \in clean' => Valid(Hydration) /\ view' = ListOf(Hydration)
    BY DEF Hydrate, HydrationFails, Replaced, Valid
  <1>6. \A t \in Ids : agent'[t] \in {"none", agent[t]} BY <1>1
  <1>7. ClientKeeps BY <1>1, <1>2, <1>3, <1>4, <1>5, <1>6 DEF ClientKeeps
  <1> QED BY <1>7, ClientStepKeeps

LEMMA OvertakenIsInvalid ==
  ASSUME TypeOK, Overtake, NEW f \in Fetches
  PROVE  ~Valid(f)'
  <1>1. fetch[f] \in Fetch BY DEF TypeOK
  <1>2. fetch'[f] = [fetch[f] EXCEPT !.overtaken = /\ fetch[f].state # "free"
                                                   /\ fetch[f].state # "sent"]
    BY DEF Overtake
  <1>3. fetch'[f].state = fetch[f].state BY <1>1, <1>2 DEF Fetch
  <1>4. CASE fetch[f].state \in {"answered", "synced"}
    <2>1. fetch'[f].overtaken = TRUE BY <1>1, <1>2, <1>4 DEF Fetch
    <2> QED BY <2>1 DEF Valid
  <1>5. CASE fetch[f].state \notin {"answered", "synced"} BY <1>3, <1>5 DEF Valid
  <1> QED BY <1>4, <1>5

LEMMA ConnectionKeeps ==
  ASSUME TypeOK, KeptUp, Accept \/ Reconnect \/ Break \/ \E f \in Fetches : Close(f)
  PROVE  KeptUp'
  <1>1. fetch \in [Fetches -> Fetch] BY DEF TypeOK
  <1>2. CASE Break
    <2>1. \A f \in Fetches : ~Valid(f)' BY <1>2, OvertakenIsInvalid DEF Break
    <2> QED BY <1>2, <2>1 DEF Break, KeptUp
  <1>3. CASE Accept \/ Reconnect \/ \E f \in Fetches : Close(f)
    <2>1. clean' = {} /\ channel' = <<>>
      BY <1>3 DEF KeptUp, Accept, Reconnect, Close, history
    <2>2. \A f \in Fetches : ~Valid(f)'
      BY <1>1, <1>3 DEF KeptUp, Accept, Reconnect, Close, Valid, Sent, Free
    <2>3. LastTellsList' /\ LastTellsAgent'
      BY <2>1 DEF LastTellsList, LastTellsAgent, About
    <2> QED BY <2>1, <2>2, <2>3 DEF KeptUp
  <1> QED BY <1>2, <1>3

LEMMA ReceiveKeeps ==
  ASSUME TypeOK, KeptUp, Receive
  PROVE  KeptUp'
  <1>1. /\ channel \in Seq(Event) /\ channel # <<>> /\ channel' = Tail(channel)
        /\ Head(channel) \in Event
    BY DEF TypeOK, Receive
  <1>2. UNCHANGED <<server, link, silent, clean>> /\ link \in {"open", "broken"}
    BY DEF Receive, history
  <1>3. \A f \in Fetches : ~Valid(f)' BY OvertakenIsInvalid DEF Receive
  <1>4. \A t : (Known(t)' <=> Known(t)) /\ (Live(t)' <=> Live(t)) BY <1>2 DEF Known, Live
  <1>5. CASE link # "open" BY <1>2, <1>3, <1>5 DEF KeptUp
  <1>6. CASE link = "open"
    <2>1. LastTellsList /\ LastTellsAgent BY <1>6 DEF KeptUp
    <2>2. LastTellsList'
      <3> SUFFICES ASSUME NEW t \in Ids \ silent', NEW i \in About(t, ListKinds, channel)',
                          IsLast(i, About(t, ListKinds, channel)')
                   PROVE  channel'[i].shown.state # "none" <=> Known(t)'
        BY DEF LastTellsList
      <3>1. IsLast(i, About(t, ListKinds, Tail(channel))) BY <1>1 DEF About
      <3>2. IsLast(i + 1, About(t, ListKinds, channel)) /\ channel'[i] = channel[i + 1]
        BY <1>1, <3>1, AboutTail
      <3>3. t \in Ids \ silent BY <1>2
      <3> QED BY <1>4, <2>1, <3>2, <3>3 DEF LastTellsList, IsLast
    <2>3. LastTellsAgent'
      <3> SUFFICES ASSUME NEW t \in Ids, NEW i \in About(t, AllKinds, channel)',
                          IsLast(i, About(t, AllKinds, channel)'), Live(t)'
                   PROVE  channel'[i].shown.agent \in {"none", server'[t].agent}
        BY DEF LastTellsAgent
      <3>1. IsLast(i, About(t, AllKinds, Tail(channel))) BY <1>1 DEF About
      <3>2. IsLast(i + 1, About(t, AllKinds, channel)) /\ channel'[i] = channel[i + 1]
        BY <1>1, <3>1, AboutTail
      <3> QED BY <1>2, <1>4, <2>1, <3>2 DEF LastTellsAgent, IsLast
    <2>4. ASSUME "list" \in clean', NEW t \in Ids \ silent', About(t, ListKinds, channel)' = {}
          PROVE  view'[t] # "none" <=> Known(t)'
      <3>1. ListKnown(view) /\ t \in Ids \ silent BY <1>2, <2>4 DEF KeptUp
      <3>2. About(t, ListKinds, Tail(channel)) = {} BY <1>1, <2>4 DEF About
      <3>3. CASE About(t, ListKinds, channel) = {}
        <4>1. ~(Head(channel).id = t /\ Head(channel).kind \in ListKinds)
          BY <1>1, <3>3 DEF About
        <4>2. Head(channel).kind = "state-changed" \/ Head(channel).id # t
          BY <1>1, <4>1 DEF Event, ListKinds
        <4>3. view'[t] = view[t] BY <3>1, <4>2 DEF Receive, TypeOK
        <4> QED BY <1>4, <3>1, <3>3, <4>3 DEF ListKnown
      <3>4. CASE IsLast(1, About(t, ListKinds, channel)) /\ Head(channel) = channel[1]
        <4>1. channel[1].shown.state # "none" <=> Known(t)
          BY <2>1, <3>1, <3>4 DEF LastTellsList, IsLast
        <4>2. channel[1].id = t /\ channel[1].kind # "state-changed"
          BY <3>4 DEF IsLast, About, ListKinds
        <4>3. view'[t] = channel[1].shown.state BY <3>1, <3>4, <4>2 DEF Receive, TypeOK
        <4> QED BY <1>4, <4>1, <4>3
      <3> QED BY <1>1, <3>2, <3>3, <3>4, AboutTail
    <2>5. ASSUME "agents" \in clean', NEW t \in Ids, About(t, AllKinds, channel)' = {}, Live(t)'
          PROVE  agent'[t] \in {"none", server'[t].agent}
      <3>1. AgentsKnown(agent) /\ Live(t) BY <1>2, <1>4, <2>5 DEF KeptUp
      <3>2. About(t, AllKinds, Tail(channel)) = {} BY <1>1, <2>5 DEF About
      <3>3. CASE About(t, AllKinds, channel) = {}
        <4>1. Head(channel).id # t BY <1>1, <3>3 DEF About, Event, AllKinds
        <4>2. agent'[t] = agent[t] BY <4>1 DEF Receive, TypeOK
        <4> QED BY <1>2, <3>1, <3>3, <4>2 DEF AgentsKnown
      <3>4. CASE IsLast(1, About(t, AllKinds, channel)) /\ Head(channel) = channel[1]
        <4>1. channel[1].shown.agent \in {"none", server[t].agent}
          BY <2>1, <3>1, <3>4 DEF LastTellsAgent, IsLast
        <4>2. channel[1].id = t BY <3>4 DEF IsLast, About
        <4>3. agent'[t] = channel[1].shown.agent BY <3>4, <4>2 DEF Receive, TypeOK
        <4> QED BY <1>2, <4>1, <4>3
      <3> QED BY <1>1, <3>2, <3>3, <3>4, AboutTail
    <2>6. "list" \in clean' => ListKnown(view)' BY <2>4 DEF ListKnown
    <2>7. "agents" \in clean' => AgentsKnown(agent)' BY <2>5 DEF AgentsKnown
    <2> QED BY <1>2, <1>3, <1>6, <2>2, <2>3, <2>6, <2>7 DEF KeptUp
  <1> QED BY <1>5, <1>6

-----------------------------------------------------------------------------
LEMMA NextKeeps ==
  ASSUME TypeOK, KeptUp, Next
  PROVE  TypeOK' /\ KeptUp'
  <1>1. CASE RuntimeStep BY <1>1, RuntimeStepType, RuntimeStepKeeps
  <1>2. CASE \E t \in Ids : Create(t) \/ Start(t) \/ AgentChanges(t) \/ End(t) \/ Rename(t)
    BY <1>1, <1>2, CreateSteps, StartSteps, AgentChangesSteps, EndSteps, RenameSteps
  <1>3. CASE Prune \/ \E T \in SUBSET Ids : Delete(T) \/ \E f \in Ids : DeleteFails(T, f)
    BY <1>1, <1>3, PruneSteps, DeleteSteps, DeleteFailsSteps
  <1>4. CASE Accept \/ Break \/ Reconnect \/ \E f \in Fetches : Close(f)
    BY <1>4, ConnectionType, BreakType, ConnectionKeeps
  <1>5. CASE Receive BY <1>5, ReceiveType, ReceiveKeeps
  <1>6. CASE Render \/ Reconcile BY <1>6, RenderType, RenderKeeps
  <1>7. ASSUME NEW f \in Fetches, Refetch(f) \/ Answer(f) \/ Sync(f) \/ FetchFails(f)
        PROVE  TypeOK' /\ KeptUp'
    <2>1. TypeOK' BY <1>7, ConnectionType, AnswerType
    <2> QED BY <1>7, <2>1, RefetchKeeps, SyncKeeps
  <1>8. CASE Hydrate \/ HydrationFails
    <2>1. TypeOK' BY <1>8, EventsAssumption, AnswerType
    <2> QED BY <1>8, <2>1, HydrateKeeps
  <1> QED BY <1>2, <1>3, <1>4, <1>5, <1>6, <1>7, <1>8 DEF Next

LEMMA InitKeptUp ==
  ASSUME Init
  PROVE  TypeOK /\ KeptUp
  <1>1. Nothing \in [Ids -> Snapshot] BY GoneType DEF Nothing
  <1>2. Cardinality({}) = 0 BY FS_EmptySet
  <1>3. TypeOK
    BY <1>1, <1>2, FetchType, EventsAssumption DEF Init, TypeOK, States, Agents
  <1>4. \A f \in Fetches : ~Valid(f) BY DEF Init, Valid, Sent, Free
  <1>5. KeptUp BY <1>4 DEF Init, KeptUp
  <1> QED BY <1>3, <1>5

LEMMA AlwaysKeptUp == Spec => [](TypeOK /\ KeptUp)
  <1>1. ASSUME TypeOK, KeptUp, UNCHANGED vars PROVE TypeOK' /\ KeptUp'
    <2>1. TypeOK' BY <1>1 DEF TypeOK, vars, client, history
    <2>2. KeptUp'
      BY <1>1 DEF KeptUp, vars, client, history, Valid, ListOf, AgentsOf, LastTellsList,
                  LastTellsAgent, ListKnown, AgentsKnown, Known, Live, About
    <2> QED BY <2>1, <2>2
  <1> QED BY InitKeptUp, NextKeeps, <1>1, PTL DEF Spec

-----------------------------------------------------------------------------
\* What the client knows keeps its type, and so do the events and the answers on
\* their way to it, whatever breaks and whatever is deleted.
THEOREM TypeCorrect == Spec => []TypeOK
  BY AlwaysKeptUp, PTL

\* Between two answers that no event overtook, events alone keep the list of a
\* connected client complete, for any terminals and refetches and whatever a cascade
\* deletes, except for the members of a cascade that failed.
THEOREM EventsKeepListComplete == Spec => []EventsKeepUp
  <1>1. KeptUp => EventsKeepUp
    BY DEF KeptUp, EventsKeepUp, Settled, ListKnown, About
  <1> QED BY <1>1, AlwaysKeptUp, PTL

\* A connected client that has received all events shows no outdated state for
\* the agent of a running terminal.
THEOREM AgentStatesKeepUp == Spec => []AgentStateKeepsUp
  <1>1. KeptUp => AgentStateKeepsUp
    BY DEF KeptUp, AgentStateKeepsUp, Settled, AgentsKnown, About
  <1> QED BY <1>1, AlwaysKeptUp, PTL
=============================================================================
