----------------------------- MODULE SelfUpdate -----------------------------
(***************************************************************************)
(* Sentiph updates itself: the settings section of each open page checks   *)
(* for an update, has it installed and restarts the server; the server     *)
(* runs the commands (updates.ts) with nothing that keeps two              *)
(* installations apart.  Revisions are numbers: of the sources, of the     *)
(* installed dependencies, of the build and of the code that runs; of what *)
(* a command left half done it is the last revision that was whole.        *)
(***************************************************************************)
EXTENDS Naturals, FiniteSets

CONSTANTS
    Pages,     \* pages with the settings open
    Jobs,      \* ids of installations; their number bounds those at a time
    MaxRelease \* bound: published revisions

VARIABLES
    source,  \* how Sentiph was installed
    origin,  \* the published revision
    disk,    \* the package: revision of sources, dependencies and build; what is half done
    server,  \* the process: "up", "exiting" or "down", and what it runs
    jobs,    \* the installations under way
    section, \* the state of UpdatesSettingsSection of each page
    overlap, complete \* history: two installations have run at a time; the last one that
                      \* was begun has come to its end

updateVars == <<source, origin, disk, server, jobs, section, overlap, complete>>
-----------------------------------------------------------------------------
NoRev == 0
NoJob == [step |-> "idle", asked |-> FALSE, wants |-> NoRev]

\* check is the request for the status, answer what it brings; installed is
\* the revision that was offered when "Update installed." was reported.
NewSection ==
    [phase |-> "checking", check |-> "sent", answer |-> NoRev, offered |-> NoRev,
     prompt |-> FALSE, installed |-> NoRev, job |-> {}]

UpdateInit ==
    /\ source \in {"git", "npm", "unknown"} /\ origin = 1
    /\ disk = [head |-> 1, deps |-> 1, dist |-> 1, half |-> {}]
    /\ server = [is |-> "up", rev |-> 1] /\ jobs = [j \in Jobs |-> NoJob]
    /\ section = [p \in Pages |-> NewSection] /\ overlap = FALSE /\ complete = TRUE

Ended == {"idle", "done", "failed"}
RunningJobs == {j \in Jobs : jobs[j].step \notin Ended}
Awaited(j) == \E p \in Pages : j \in section[p].job

\* External: a release.
Publish ==
    /\ origin < MaxRelease /\ origin' = origin + 1
    /\ UNCHANGED <<source, disk, server, jobs, section, overlap, complete>>

-----------------------------------------------------------------------------
(* updates.ts and updatesRoutes.ts.                                        *)

\* checkForUpdates reads the version or HEAD of the package on the disk.
Available == IF source # "unknown" /\ origin # disk.head THEN origin ELSE NoRev

\* A remote that cannot be reached is answered with an error and no update.
ServeCheck(p) ==
    /\ section[p].check = "sent" /\ server.is # "down"
    /\ \E rev \in {Available, NoRev} :
         section' = [section EXCEPT ![p].check = "answered", ![p].answer = rev]
    /\ UNCHANGED <<source, origin, disk, server, jobs, overlap, complete>>

\* What the command of a step leaves when it comes to its end.
After(step) ==
    CASE step = "npm" -> [head |-> origin, deps |-> origin, dist |-> origin, half |-> {}]
      [] step = "pull" -> [disk EXCEPT !.head = origin]
      [] step = "install" -> [disk EXCEPT !.deps = disk.head, !.half = @ \ {"deps"}]
      [] step = "build" -> [disk EXCEPT !.dist = disk.head, !.half = @ \ {"dist"}]

\* External: git does not pull into a tree that a pull has left half done.
CanEnd(step) == step = "pull" => "head" \notin disk.half

\* What it leaves half done when it fails on the way, or is killed at the timeout;
\* `pnpm build` alone is two builds and a copy.
HalfDone(step) ==
    [disk EXCEPT !.half = @ \cup
        (CASE step = "npm" -> {"head", "deps", "dist"} [] step = "pull" -> {"head"}
           [] step = "install" -> {"deps"} [] step = "build" -> {"dist"})]

Following(step) ==
    CASE step = "pull" -> "install" [] step = "install" -> "build" [] OTHER -> "done"

\* Mutant: the installation goes on after a step that failed.
NextAfterFailure(step) == Following(step)

\* A failed or timed out step ends the installation.
AfterFailure(step) == "failed"

\* A command ends.  One that is killed at the timeout leaves its own commands
\* behind, which may still come to their end before its output is closed.  After
\* one whose server is gone nothing follows; the answer to a page that is gone is
\* dropped.
StepEnds(j) ==
    /\ j \in RunningJobs
    /\ LET step == jobs[j].step
           then(next) == IF jobs[j].asked /\ (next \in Ended => Awaited(j))
                         THEN [jobs[j] EXCEPT !.step = next] ELSE NoJob
       IN \/ /\ CanEnd(step) /\ disk' = After(step)
             /\ jobs' = [jobs EXCEPT ![j] = then(Following(step))]
             /\ complete' = (complete \/ Following(step) = "done")
          \/ /\ disk' \in {disk, HalfDone(step), IF CanEnd(step) THEN After(step) ELSE disk}
             /\ jobs' = [jobs EXCEPT ![j] = then(AfterFailure(step))]
             /\ UNCHANGED complete
    /\ UNCHANGED <<source, origin, server, section, overlap>>

\* scheduleSelfRestart: process.exit, with no shutdown; requests under way fail
\* and commands run on.
SelfExit ==
    /\ server.is = "exiting" /\ server' = [server EXCEPT !.is = "down"]
    /\ jobs' = [j \in Jobs |->
         IF j \in RunningJobs THEN [jobs[j] EXCEPT !.asked = FALSE] ELSE NoJob]
    /\ section' = [p \in Pages |->
         [section[p] EXCEPT !.job = {}, !.check = "none",
            !.phase = IF @ = "restarting" THEN @
                      ELSE IF section[p].check # "none" \/ section[p].job # {} THEN "error" ELSE @]]
    /\ UNCHANGED <<source, origin, disk, overlap, complete>>

\* The new process, if it can start, runs what has been built, or a mixture: of
\* what is half done, or while a command is at it.
StartAgain ==
    /\ server.is = "down"
    /\ server' = [is |-> "up",
                  rev |-> IF disk.half = {} /\ RunningJobs = {} THEN disk.dist ELSE NoRev]
    /\ UNCHANGED <<source, origin, disk, jobs, section, overlap, complete>>

-----------------------------------------------------------------------------
(* UpdatesSettingsSection.                                                 *)

Check(p) ==
    /\ section[p].phase \notin {"checking", "updating", "restarting"} /\ section[p].check = "none"
    /\ section' = [section EXCEPT ![p].phase = IF server.is = "down" THEN "error" ELSE "checking",
                                  ![p].check = IF server.is = "down" THEN "none" ELSE "sent"]
    /\ UNCHANGED <<source, origin, disk, server, jobs, overlap, complete>>

\* The answer ends "checking", and whatever phase has come meanwhile.
ReceiveCheck(p) ==
    /\ section[p].check = "answered"
    /\ section' = [section EXCEPT ![p].check = "none", ![p].phase = "idle",
                                  ![p].offered = section[p].answer]
    /\ UNCHANGED <<source, origin, disk, server, jobs, overlap, complete>>

\* The button is there for an offered update, and not disabled by a check.
Apply(p) ==
    /\ section[p].offered # NoRev /\ section[p].phase \notin {"updated", "updating", "restarting"}
    /\ server.is # "down"
    /\ \E j \in Jobs :
         /\ jobs[j] = NoJob
         /\ jobs' = [jobs EXCEPT ![j] = [step |-> IF source = "npm" THEN "npm" ELSE "pull",
                                         asked |-> TRUE, wants |-> section[p].offered]]
         /\ section' = [section EXCEPT ![p].phase = "updating", ![p].job = @ \cup {j}]
         /\ overlap' = (overlap \/ RunningJobs # {}) /\ complete' = FALSE
    /\ UNCHANGED <<source, origin, disk, server>>

ReceiveApplied(p) ==
    /\ \E j \in section[p].job :
         /\ jobs[j].step \in {"done", "failed"} /\ jobs' = [jobs EXCEPT ![j] = NoJob]
         /\ section' = [section EXCEPT ![p].job = @ \ {j},
              ![p].phase = IF jobs[j].step = "done" THEN "updated" ELSE "error",
              ![p].prompt = @ \/ jobs[j].step = "done",
              ![p].installed = IF jobs[j].step = "done" THEN jobs[j].wants ELSE @]
    /\ UNCHANGED <<source, origin, disk, server, overlap, complete>>

\* The POST is answered before the process exits, or finds no server.
RestartNow(p) ==
    /\ section[p].prompt /\ section[p].phase # "restarting"
    /\ section' = [section EXCEPT ![p].phase = "restarting", ![p].prompt = FALSE]
    /\ server' = [server EXCEPT !.is = IF @ = "up" THEN "exiting" ELSE @]
    /\ UNCHANGED <<source, origin, disk, jobs, overlap, complete>>

Later(p) ==
    /\ section[p].prompt /\ section[p].phase # "restarting"
    /\ section' = [section EXCEPT ![p].prompt = FALSE]
    /\ UNCHANGED <<source, origin, disk, server, jobs, overlap, complete>>

\* The page is loaded again; 1500 ms after a restart the browser does it, and
\* has no page if no server listens by then.
LoadAgain(p) ==
    /\ server.is # "down"
    /\ jobs' = [j \in Jobs |->
         IF j \notin section[p].job THEN jobs[j]
         ELSE IF j \in RunningJobs THEN [jobs[j] EXCEPT !.wants = NoRev] ELSE NoJob]
    /\ section' = [section EXCEPT ![p] = NewSection]
    /\ UNCHANGED <<source, origin, disk, server, overlap, complete>>

-----------------------------------------------------------------------------
UpdateNext ==
    \/ Publish \/ SelfExit \/ StartAgain
    \/ \E p \in Pages :
          \/ ServeCheck(p) \/ Check(p) \/ ReceiveCheck(p) \/ Apply(p) \/ ReceiveApplied(p)
          \/ RestartNow(p) \/ Later(p) \/ LoadAgain(p)
    \/ \E j \in Jobs : StepEnds(j)

UpdateSpec == UpdateInit /\ [][UpdateNext]_updateVars

-----------------------------------------------------------------------------
\* Types of the update, and: a job is of one page at most.
UpdateTypeOK ==
    /\ disk.head \in 1 .. origin /\ server.is \in {"up", "exiting", "down"}
    /\ \A p, q \in Pages : p # q => section[p].job \cap section[q].job = {}

\* applyUpdate "A failed sub-step aborts the sequence": unless two installations
\* ran at a time, what was built last is never newer than the dependencies it was
\* built with, nor these than the sources, and not older than the update that a
\* page offers to restart into.  An installation that has come to its end leaves
\* nothing half done, whatever earlier ones left, and all of one revision.
\* Whatever failed or was killed, and whoever restarted the server in between.
UpdateIsSound ==
    ~overlap =>
       /\ disk.dist <= disk.deps /\ disk.deps <= disk.head /\ server.rev <= disk.dist
       /\ \A p \in Pages : section[p].prompt => disk.dist >= section[p].installed
       /\ complete => disk.half = {} /\ disk.dist = disk.head

\* The update: build, dependencies and sources are never out of step.
UpdateSafe == UpdateTypeOK /\ UpdateIsSound
=============================================================================
