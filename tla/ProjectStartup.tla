--------------------------- MODULE ProjectStartup ---------------------------
(***************************************************************************)
(* The sentiph processes of a machine: the dashboard, `sentiph init` and   *)
(* the terminal commands.  They share projects.json, the scaffold of each  *)
(* project, runtime.json in each state directory, and the ports.           *)
(***************************************************************************)
EXTENDS Naturals, FiniteSets

CONSTANTS
    Paths,     \* workspaces
    Nowhere,   \* no workspace
    MaxPort,   \* ports 1..MaxPort; 1 is DEFAULT_START_PORT
    Legacy,    \* the port in the runtime.json that a workspace kept before its state
               \* moved to ~/.sentiph; it stays where it is
    MaxStarts  \* bound on the processes that the user starts

VARIABLES
    initialized, \* workspaces with .sentiph/project.json
    projects,    \* projects.json
    meta,        \* runtime.json: the port, per state directory
    ports,       \* who listens on a port: a process, Nobody, or Other
    proc,        \* the processes, numbered as they are started
    starts,      \* how many were started
    known, raced, unclean, reached \* history: registrations that were completed and not
                 \* lost with a file cut off by a crash; did two overlap? state directories
                 \* whose metadata may be wrong; the last command

startupVars == <<initialized, projects, meta, ports, proc, starts, known, raced, unclean, reached>>

-----------------------------------------------------------------------------
Procs == 1..MaxStarts
Nobody == 0
Other == MaxStarts + 1  \* another program
Port == 1..MaxPort
NoPort == 0
Unreadable == MaxPort + 1  \* runtime.json was cut off while it was written
DefaultPort == 1

ASSUME LegacyAssumption == Legacy \in [Paths -> Port \cup {NoPort}]

Dirs == Paths \X {"project", "ephemeral"}
Off == [pc |-> "off"]
NoCommand == [from |-> Nowhere, to |-> Nowhere, own |-> FALSE]

StartupInit ==
    /\ initialized \in SUBSET Paths
    /\ projects = {} /\ known = {} /\ raced = FALSE /\ unclean = {}
    /\ meta = [d \in Dirs |-> NoPort]
    /\ ports = [n \in Port |-> Nobody]
    /\ proc = [p \in Procs |-> Off] /\ starts = 0 /\ reached = NoCommand

Running(p) == proc[p] # Off
At(p, pc) == Running(p) /\ proc[p].pc = pc
GoTo(p, pc) == proc' = [proc EXCEPT ![p].pc = pc]
Dir(p) == <<proc[p].at, proc[p].dir>>

\* What migrateStateToGlobal can copy there: an ephemeral directory is not migrated.
LegacyOf(d) == IF d[2] = "project" THEN Legacy[d[1]] ELSE NoPort

\* The server of a state directory that can be found by its metadata.
Serving(d) == {p \in Procs : At(p, "serving") /\ Dir(p) = d /\ ~proc[p].stopping}

-----------------------------------------------------------------------------
\* main: "start" after collectStartupPrerequisiteReport found claude or codex,
\* "init", or a terminal command.  What has a config is registered first
\* (resolveStartupProjectContext, initializeProject, resolveRuntimeApiBase);
\* a dashboard without one uses the directory derived from its path.
Launch(p, path, kind) ==
    /\ p = starts + 1 /\ starts' = p
    /\ initialized' = initialized \cup (IF kind = "init" THEN {path} ELSE {})
    /\ LET dir == IF path \in initialized' THEN "project" ELSE "ephemeral"
       IN proc' = [proc EXCEPT ![p] =
                     [pc |-> IF dir = "project" THEN "register" ELSE "ready",
                      kind |-> kind, at |-> path, dir |-> dir, read |-> {},
                      port |-> NoPort, stopping |-> FALSE]]
    /\ unclean' = unclean \cup {Dir(q) : q \in {q \in Procs \ {p} : Running(q)
                                    /\ Dir(q) = <<path, proc'[p].dir>>
                                    /\ {kind, proc[q].kind} = {"start"}}}
    /\ UNCHANGED <<projects, meta, ports, known, raced, reached>>

\* loadProjectsRegistry; a file that is just being written reads as no project.
LoadRegistry(p) ==
    /\ At(p, "register")
    /\ \E torn \in {FALSE} \cup {\E q \in Procs \ {p} : At(q, "save")} :
         /\ proc' = [proc EXCEPT ![p].read = IF torn THEN {} ELSE projects, ![p].pc = "save"]
         /\ raced' = (raced \/ torn)
    /\ UNCHANGED <<initialized, projects, meta, ports, starts, known, unclean, reached>>

\* registerProject: the entry is replaced or added, everything is written.  It
\* runs more than once on the way (the context, then its state directory).  A
\* command then looks for its server, the others migrate.
SaveRegistry(p) ==
    /\ At(p, "save")
    /\ projects' = proc[p].read \cup {proc[p].at}
    /\ known' = known \cup {proc[p].at}
    /\ raced' = (raced \/ proc[p].read # projects)
    /\ \E pc \in {"register", IF proc[p].kind = "command" THEN "ready" ELSE "migrate"} :
         GoTo(p, pc)
    /\ UNCHANGED <<initialized, meta, ports, starts, unclean, reached>>

\* inferLegacyProjectName finds no name: the state directory that was named after
\* the project, unlike the one in the workspace, is then not looked into.
Nameless(p) == proc[p].at \notin projects \/ \E q \in Procs \ {p} : At(q, "save")

\* migrateStateToGlobal: only a runtime.json that is missing is copied.
Migrate(p) ==
    /\ At(p, "migrate")
    /\ \/ /\ meta[Dir(p)] = NoPort /\ LegacyOf(Dir(p)) # NoPort
          /\ GoTo(p, "copy")
       \/ /\ meta[Dir(p)] # NoPort \/ LegacyOf(Dir(p)) = NoPort \/ Nameless(p)
          /\ GoTo(p, "ready")
    /\ UNCHANGED <<initialized, projects, meta, ports, starts, known, raced, unclean, reached>>

\* copyFileSync: over what was written there since it was missing.
Copy(p) ==
    /\ At(p, "copy")
    /\ meta' = [meta EXCEPT ![Dir(p)] = LegacyOf(Dir(p))]
    /\ unclean' = unclean \cup {d \in {Dir(p)} : meta[d] # NoPort}
    /\ GoTo(p, "ready")
    /\ UNCHANGED <<initialized, projects, ports, starts, known, raced, reached>>

\* The end of `sentiph init`.
InitDone(p) ==
    /\ At(p, "ready") /\ proc[p].kind = "init"
    /\ proc' = [proc EXCEPT ![p] = Off]
    /\ UNCHANGED <<initialized, projects, meta, ports, starts, known, raced, unclean, reached>>

\* The runtime.json of a state directory is being written.
Writing(d) == \E q \in Procs : (At(q, "copy") \/ At(q, "listening")) /\ Dir(q) = d

\* resolveRuntimeApiBase: the metadata of an initialized project, or the
\* preferred port, if they are missing or cut off.
ApiBase(d, torn) ==
    IF d[2] = "project" /\ meta[d] \in Port /\ ~torn THEN meta[d] ELSE DefaultPort

\* terminalCreate, terminalList, terminalAction, terminalPrune: one request to
\* whatever listens there.
Command(p) ==
    /\ At(p, "ready") /\ proc[p].kind = "command"
    /\ \E torn \in {FALSE, Writing(Dir(p))} :
         LET there == ports[ApiBase(Dir(p), torn)]
         IN reached' = [from |-> proc[p].at,
                        to |-> IF there \in Procs THEN proc[there].at ELSE Nowhere,
                        own |-> Serving(Dir(p)) # {} /\ Dir(p) \notin unclean /\ ~torn
                                /\ proc[p].dir = "project"]
    /\ proc' = [proc EXCEPT ![p] = Off]
    /\ UNCHANGED <<initialized, projects, meta, ports, starts, known, raced, unclean>>

Free == {n \in Port : ports[n] = Nobody}

\* findOpenPort: the first port that can be listened on is closed again.
FindPort(p) ==
    /\ At(p, "ready") /\ proc[p].kind = "start" /\ Free # {}
    /\ proc' = [proc EXCEPT ![p].pc = "probed",
                            ![p].port = CHOOSE n \in Free : \A k \in Free : n <= k]
    /\ UNCHANGED <<initialized, projects, meta, ports, starts, known, raced, unclean, reached>>

\* apiServer.start; the port may have gone, and then startServer rejects.
Listen(p) ==
    /\ At(p, "probed")
    /\ IF ports[proc[p].port] = Nobody
       THEN /\ ports' = [ports EXCEPT ![proc[p].port] = p]
            /\ GoTo(p, "listening")
       ELSE proc' = [proc EXCEPT ![p] = Off] /\ UNCHANGED ports
    /\ UNCHANGED <<initialized, projects, meta, starts, known, raced, unclean, reached>>

\* writeRuntimeMetadata: also when a signal has come in the meantime.
WriteMetadata(p) ==
    /\ At(p, "listening")
    /\ meta' = [meta EXCEPT ![Dir(p)] = proc[p].port]
    /\ GoTo(p, "serving")
    /\ UNCHANGED <<initialized, projects, ports, starts, known, raced, unclean, reached>>

\* Mutant: the metadata stay.
SignalledOnly(p) ==
    /\ \/ At(p, "probed") \/ At(p, "listening") \/ At(p, "serving")
    /\ ~proc[p].stopping
    /\ proc' = [proc EXCEPT ![p].stopping = TRUE]
    /\ unclean' = IF At(p, "serving") THEN unclean ELSE unclean \cup {Dir(p)}
    /\ UNCHANGED <<initialized, projects, meta, ports, starts, known, raced, reached>>

\* SIGINT, SIGTERM: clearRuntimeMetadata, whoever wrote it; then stop.
Shutdown(p) ==
    /\ \/ At(p, "probed") \/ At(p, "listening") \/ At(p, "serving")
    /\ ~proc[p].stopping
    /\ proc' = [proc EXCEPT ![p].stopping = TRUE]
    /\ meta' = [meta EXCEPT ![Dir(p)] = NoPort]
    /\ unclean' = IF At(p, "serving") THEN unclean ELSE unclean \cup {Dir(p)}
    /\ UNCHANGED <<initialized, projects, ports, starts, known, raced, reached>>

Freed(p) == [n \in Port |-> IF ports[n] = p THEN Nobody ELSE ports[n]]

\* apiServer.stop, process.exit.
Exit(p) ==
    /\ Running(p) /\ proc[p].stopping
    /\ proc' = [proc EXCEPT ![p] = Off] /\ ports' = Freed(p)
    /\ UNCHANGED <<initialized, projects, meta, starts, known, raced, unclean, reached>>

\* The process is killed.  What it was writing, in place, may be cut off:
\* projects.json, which then lists no project, or runtime.json.
Crash(p) ==
    /\ Running(p)
    /\ proc' = [proc EXCEPT ![p] = Off] /\ ports' = Freed(p)
    /\ unclean' = unclean \cup {Dir(p)}
    /\ \/ UNCHANGED <<projects, known, meta>>
       \/ At(p, "save") /\ projects' = {} /\ known' = {} /\ UNCHANGED meta
       \/ /\ At(p, "copy") \/ At(p, "listening")
          /\ meta' = [meta EXCEPT ![Dir(p)] = Unreadable]
          /\ UNCHANGED <<projects, known>>
    /\ UNCHANGED <<initialized, starts, raced, reached>>

\* Another program takes a port.
OtherTakes(n) ==
    /\ ports[n] = Nobody /\ ports' = [ports EXCEPT ![n] = Other]
    /\ UNCHANGED <<initialized, projects, meta, proc, starts, known, raced, unclean, reached>>

-----------------------------------------------------------------------------
StartupNext ==
    \/ \E p \in Procs :
         \/ \E path \in Paths, kind \in {"start", "init", "command"} : Launch(p, path, kind)
         \/ LoadRegistry(p) \/ SaveRegistry(p) \/ Migrate(p) \/ Copy(p)
         \/ InitDone(p) \/ Command(p)
         \/ FindPort(p) \/ Listen(p) \/ WriteMetadata(p) \/ Shutdown(p) \/ Exit(p) \/ Crash(p)
    \/ \E n \in Port : OtherTakes(n)

StartupSpec == StartupInit /\ [][StartupNext]_startupVars

-----------------------------------------------------------------------------
\* Types of the shared files and of the processes.
StartupTypeOK ==
    /\ initialized \subseteq Paths /\ projects \subseteq Paths /\ known \subseteq Paths
    /\ meta \in [Dirs -> Port \cup {NoPort, Unreadable}]
    /\ ports \in [Port -> Procs \cup {Nobody, Other}]
    /\ \A p \in Procs : Running(p) => proc[p].port \in Port \cup {NoPort}

\* registerProject: a project that was registered stays registered, unless the
\* read and the write of two processes overlapped, or the file was cut off.
RegisteredStays == ~raced => known \subseteq projects

\* runtimeMetadata.ts: of a state directory whose servers ran one at a time,
\* were not killed, and were not stopped while they started, runtime.json names
\* the port that the server listens on while there is one; without a server it is
\* missing, or it is the one from before the migration, which is nobody's.
MetadataIsTheServer ==
    \A d \in Dirs \ unclean :
        IF Serving(d) = {} THEN meta[d] \in {NoPort, LegacyOf(d)}
        ELSE \A p \in Serving(d) : ports[meta[d]] = p

\* resolveRuntimeApiBase: where such a server runs, a command given in its
\* project reaches it and no server of another project.
CommandReachesItsProject == reached.own => reached.to = reached.from

\* The processes that are started: registered projects stay so, and the runtime
\* metadata name the server, which a command of the project reaches.
StartupSafe ==
    /\ StartupTypeOK
    /\ RegisteredStays
    /\ MetadataIsTheServer
    /\ CommandReachesItsProject
=============================================================================
