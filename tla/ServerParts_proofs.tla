------------------------- MODULE ServerParts_proofs -------------------------
(***************************************************************************)
(* Proofs about the parts of the API that run for themselves: SelfUpdate,  *)
(* ProjectStartup and AgentSession.                                        *)
(***************************************************************************)
EXTENDS SelfUpdate, ProjectStartup, AgentSession, FiniteSetTheorems,
        WellFoundedInduction, TLAPS

-----------------------------------------------------------------------------
(* SelfUpdate: an installation under way has done what its step says, and  *)
(* as long as no two ran at a time it is the only one.                     *)

Steps == {"npm", "pull", "install", "build"}
Job == [step : Steps \cup Ended, asked : BOOLEAN, wants : Nat]
Section ==
    [phase : {"checking", "idle", "updating", "updated", "error", "restarting"},
     check : {"none", "sent", "answered"}, answer : Nat, offered : Nat,
     prompt : BOOLEAN, installed : Nat, job : SUBSET Jobs]
Disk == [head : Nat, deps : Nat, dist : Nat, half : SUBSET {"head", "deps", "dist"}]

UpdateTypes ==
    /\ origin \in Nat /\ disk \in Disk /\ disk.head \in 1 .. origin
    /\ server \in [is : {"up", "exiting", "down"}, rev : Nat]
    /\ jobs \in [Jobs -> Job] /\ section \in [Pages -> Section]
    /\ overlap \in BOOLEAN /\ complete \in BOOLEAN

\* A page awaits jobs of its own, whose server still knows it.
Owned ==
    /\ \A p \in Pages : \A j \in section[p].job : jobs[j].asked
    /\ \A p, q \in Pages : p # q => section[p].job \cap section[q].job = {}

\* Nobody wants more than there is.
Published ==
    /\ \A j \in Jobs : jobs[j].wants <= origin
    /\ \A p \in Pages : section[p].answer <= origin /\ section[p].offered <= origin

Chain == disk.dist <= disk.deps /\ disk.deps <= disk.head /\ server.rev <= disk.dist

Progress(j) ==
    /\ jobs[j].step = "install" => jobs[j].wants <= disk.head /\ "head" \notin disk.half
    /\ jobs[j].step = "build" => /\ jobs[j].wants <= disk.deps /\ disk.deps = disk.head
                                 /\ disk.half \subseteq {"dist"}
    /\ jobs[j].step = "done" => jobs[j].wants <= disk.dist

Alone == \A j, k \in RunningJobs : j = k

Built == \A p \in Pages : section[p].prompt => section[p].installed <= disk.dist

\* What an installation leaves that has come to its end, until the next one.
Entire ==
    complete => /\ RunningJobs = {} /\ disk.half = {}
                /\ disk.dist = disk.deps /\ disk.deps = disk.head

Sound == Chain /\ Alone /\ Built /\ Entire /\ \A j \in Jobs : Progress(j)

UpdateInv ==
    /\ UpdateTypes /\ Owned /\ Published
    /\ ~overlap => Sound

LEMMA UpdateStart == UpdateInit => UpdateInv
  <1> SUFFICES ASSUME UpdateInit PROVE UpdateInv OBVIOUS
  <1>1. NoJob \in Job /\ NoJob.step = "idle" /\ NoJob.asked = FALSE /\ NoJob.wants = 0
    BY DEF NoJob, Job, Ended, NoRev
  <1>2. /\ NewSection \in Section /\ NewSection.job = {} /\ NewSection.prompt = FALSE
        /\ NewSection.answer = 0 /\ NewSection.offered = 0
    BY DEF NewSection, Section, NoRev
  <1>3. UpdateTypes
    <2>1. disk \in Disk /\ disk.head = 1 /\ origin = 1 BY DEF UpdateInit, Disk
    <2>2. server \in [is : {"up", "exiting", "down"}, rev : Nat] BY DEF UpdateInit
    <2>3. disk.head \in 1 .. origin BY <2>1
    <2> QED BY <1>1, <1>2, <2>1, <2>2, <2>3 DEF UpdateInit, UpdateTypes
  <1>4. Owned /\ Published BY <1>1, <1>2 DEF UpdateInit, Owned, Published
  <1>5. Chain /\ Alone /\ Built /\ Entire /\ \A j \in Jobs : Progress(j)
    BY <1>1, <1>2 DEF UpdateInit, Chain, Alone, Built, Entire, Progress, RunningJobs, Ended
  <1> QED BY <1>3, <1>4, <1>5 DEF UpdateInv, Sound

\* The disk stays, and what a page is promised of it.
LEMMA DiskStays ==
  ASSUME UpdateInv, UpdateTypes', UNCHANGED <<disk, origin, complete>>, overlap' = overlap,
         server'.rev \in {server.rev, disk.dist, 0},
         \A j \in Jobs : \/ jobs'[j].step = "idle"
                         \/ jobs'[j].step = jobs[j].step /\ jobs'[j].wants \in {jobs[j].wants, 0},
         \A p \in Pages : section'[p].prompt =>
             \/ section[p].prompt /\ section'[p].installed = section[p].installed
             \/ \E j \in Jobs : jobs[j].step = "done" /\ section'[p].installed = jobs[j].wants
  PROVE  ~overlap' => Sound'
  <1> SUFFICES ASSUME ~overlap
               PROVE  Chain' /\ Alone' /\ Built' /\ Entire' /\ \A j \in Jobs : Progress(j)'
    BY DEF Sound
  <1>1. /\ Chain /\ Alone /\ Built /\ Entire /\ (\A j \in Jobs : Progress(j)) /\ UpdateTypes
    BY DEF UpdateInv, Sound
  <1>2. Chain' BY <1>1 DEF Chain, UpdateTypes, Disk
  <1>3. Alone' BY <1>1 DEF Alone, RunningJobs, Ended
  <1>4. Built' BY <1>1 DEF Built, Progress
  <1>5. \A j \in Jobs : Progress(j)' BY <1>1 DEF Progress, UpdateTypes, Disk, Job
  <1>6. Entire' BY <1>1 DEF Entire, RunningJobs, Ended
  <1> QED BY <1>2, <1>3, <1>4, <1>5, <1>6

LEMMA PublishKeeps ==
  ASSUME UpdateInv, Publish
  PROVE  UpdateInv'
  <1>1. UpdateTypes' BY DEF Publish, UpdateInv, UpdateTypes, Disk
  <1>2. Owned' BY DEF Publish, UpdateInv, Owned
  <1>3. Published' BY DEF Publish, UpdateInv, UpdateTypes, Published, Job, Section
  <1>4. ~overlap' => Sound'
    BY DEF Publish, UpdateInv, Sound, Chain, Alone, Built, Entire, Progress, RunningJobs
  <1> QED BY <1>1, <1>2, <1>3, <1>4 DEF UpdateInv

LEMMA ServeCheckKeeps ==
  ASSUME UpdateInv, NEW p \in Pages,
         ServeCheck(p) \/ Check(p) \/ ReceiveCheck(p) \/ Later(p)
  PROVE  UpdateInv'
  <1> USE DEF UpdateInv
  <1>1. section \in [Pages -> Section] BY DEF UpdateTypes
  <1>2. \A rev \in {Available, NoRev} : rev \in Nat /\ rev <= origin
    BY DEF Available, NoRev, UpdateTypes
  <1>3. UNCHANGED <<source, origin, disk, server, jobs, overlap, complete>>
    BY DEF ServeCheck, Check, ReceiveCheck, Later
  <1>4. /\ section'[p] \in Section /\ section'[p].job = section[p].job
        /\ section'[p].prompt => section[p].prompt
        /\ section'[p].installed = section[p].installed
        /\ section'[p].answer <= origin /\ section'[p].offered <= origin
    <2>1. CASE ServeCheck(p) BY <1>1, <1>2, <2>1 DEF ServeCheck, Section, Published
    <2>2. CASE Check(p) BY <1>1, <2>2 DEF Check, Section, Published
    <2>3. CASE ReceiveCheck(p) BY <1>1, <2>3 DEF ReceiveCheck, Section, Published
    <2>4. CASE Later(p) BY <1>1, <2>4 DEF Later, Section, Published
    <2> QED BY <2>1, <2>2, <2>3, <2>4
  <1>5. \E s : section' = [section EXCEPT ![p] = s]
    BY <1>1 DEF ServeCheck, Check, ReceiveCheck, Later
  <1>6. section' \in [Pages -> Section] /\ \A q \in Pages : q # p => section'[q] = section[q]
    BY <1>1, <1>4, <1>5
  <1>7. UpdateTypes' BY <1>3, <1>6 DEF UpdateTypes
  <1>8. Owned' BY <1>3, <1>4, <1>6 DEF Owned
  <1>9. Published' BY <1>3, <1>4, <1>6 DEF Published
  <1>10. ~overlap' => Sound'
    BY <1>3, <1>4, <1>6, <1>7, DiskStays
  <1> QED BY <1>7, <1>8, <1>9, <1>10

LEMMA RestartNowKeeps ==
  ASSUME UpdateInv, NEW p \in Pages, RestartNow(p)
  PROVE  UpdateInv'
  <1> USE DEF UpdateInv
  <1>1. section \in [Pages -> Section] BY DEF UpdateTypes
  <1>2. UNCHANGED <<source, origin, disk, jobs, overlap, complete>> BY DEF RestartNow
  <1>3. server' \in [is : {"up", "exiting", "down"}, rev : Nat] /\ server'.rev = server.rev
    BY DEF RestartNow, UpdateTypes
  <1>4. /\ section' \in [Pages -> Section] /\ section'[p].prompt = FALSE
        /\ \A q \in Pages : q # p => section'[q] = section[q]
        /\ \A q \in Pages : /\ section'[q].job = section[q].job
                            /\ section'[q].answer = section[q].answer
                            /\ section'[q].offered = section[q].offered
    BY <1>1 DEF RestartNow, Section
  <1>5. UpdateTypes' BY <1>2, <1>3, <1>4 DEF UpdateTypes
  <1>6. Owned' BY <1>2, <1>4 DEF Owned
  <1>7. Published' BY <1>2, <1>4 DEF Published
  <1>8. ~overlap' => Sound'
    BY <1>2, <1>3, <1>4, <1>5, DiskStays
  <1> QED BY <1>5, <1>6, <1>7, <1>8

LEMMA ServerGoesKeeps ==
  ASSUME UpdateInv, SelfExit \/ StartAgain
  PROVE  UpdateInv'
  <1> USE DEF UpdateInv
  <1>1. section \in [Pages -> Section] /\ jobs \in [Jobs -> Job] BY DEF UpdateTypes
  <1>2. UNCHANGED <<source, origin, disk, overlap, complete>> BY DEF SelfExit, StartAgain
  <1>3. NoJob \in Job /\ NoJob.step = "idle" /\ NoJob.asked = FALSE /\ NoJob.wants = 0
    BY DEF NoJob, Job, Ended, NoRev
  <1>4. CASE SelfExit
    <2>1. server' \in [is : {"up", "exiting", "down"}, rev : Nat] /\ server'.rev = server.rev
      BY <1>4 DEF SelfExit, UpdateTypes
    <2>2. \A j \in Jobs : jobs'[j] = IF j \in RunningJobs THEN [jobs[j] EXCEPT !.asked = FALSE]
                                     ELSE NoJob
      BY <1>4 DEF SelfExit
    <2>3. \A j \in Jobs : /\ jobs'[j] \in Job
                          /\ \/ jobs'[j].step = "idle" /\ jobs'[j].wants = 0
                             \/ jobs'[j].step = jobs[j].step /\ jobs'[j].wants = jobs[j].wants
      BY <1>1, <1>3, <2>2 DEF Job
    <2>4. jobs' \in [Jobs -> Job] BY <1>4, <2>3 DEF SelfExit
    <2>5. \A q \in Pages : /\ section'[q] \in Section /\ section'[q].job = {}
                           /\ section'[q].prompt = section[q].prompt
                           /\ section'[q].installed = section[q].installed
                           /\ section'[q].answer = section[q].answer
                           /\ section'[q].offered = section[q].offered
      BY <1>1, <1>4 DEF SelfExit, Section
    <2>6. section' \in [Pages -> Section] BY <1>4, <2>5 DEF SelfExit
    <2>7. UpdateTypes' BY <1>2, <2>1, <2>4, <2>6 DEF UpdateTypes
    <2>8. Owned' BY <2>5 DEF Owned
    <2>9. Published' BY <1>2, <2>3, <2>5 DEF Published, UpdateTypes
    <2>10. ~overlap' => Sound'
      BY <1>2, <2>1, <2>3, <2>5, <2>7, DiskStays
    <2> QED BY <2>7, <2>8, <2>9, <2>10
  <1>5. CASE StartAgain
    <2>1. /\ server' \in [is : {"up", "exiting", "down"}, rev : Nat]
          /\ server'.rev \in {disk.dist, 0} /\ jobs' = jobs /\ section' = section
      BY <1>5 DEF StartAgain, UpdateTypes, Disk, NoRev
    <2>2. UpdateTypes' BY <1>2, <2>1 DEF UpdateTypes
    <2>3. Owned' /\ Published' BY <1>2, <2>1 DEF Owned, Published
    <2>4. ~overlap' => Sound'
      BY <1>2, <2>1, <2>2, DiskStays
    <2> QED BY <2>2, <2>3, <2>4
  <1> QED BY <1>4, <1>5

LEMMA LoadAgainKeeps ==
  ASSUME UpdateInv, NEW p \in Pages, LoadAgain(p)
  PROVE  UpdateInv'
  <1> USE DEF UpdateInv
  <1>1. section \in [Pages -> Section] /\ jobs \in [Jobs -> Job] BY DEF UpdateTypes
  <1>2. UNCHANGED <<source, origin, disk, server, overlap, complete>> BY DEF LoadAgain
  <1>3. NoJob \in Job /\ NoJob.step = "idle" /\ NoJob.asked = FALSE /\ NoJob.wants = 0
    BY DEF NoJob, Job, Ended, NoRev
  <1>4. /\ NewSection \in Section /\ NewSection.job = {} /\ NewSection.prompt = FALSE
        /\ NewSection.answer = 0 /\ NewSection.offered = 0
    BY DEF NewSection, Section, NoRev
  <1>5. \A j \in Jobs : jobs'[j] = IF j \notin section[p].job THEN jobs[j]
                                   ELSE IF j \in RunningJobs THEN [jobs[j] EXCEPT !.wants = NoRev]
                                   ELSE NoJob
    BY DEF LoadAgain
  <1>6. \A j \in Jobs : /\ jobs'[j] \in Job
                        /\ j \notin section[p].job => jobs'[j] = jobs[j]
                        /\ \/ jobs'[j].step = "idle" /\ jobs'[j].wants = 0
                           \/ jobs'[j].step = jobs[j].step /\ jobs'[j].wants \in {jobs[j].wants, 0}
    BY <1>1, <1>3, <1>5 DEF Job, NoRev
  <1>7. jobs' \in [Jobs -> Job] BY <1>6 DEF LoadAgain
  <1>8. /\ section' \in [Pages -> Section] /\ section'[p] = NewSection
        /\ \A q \in Pages : q # p => section'[q] = section[q]
    BY <1>1, <1>4 DEF LoadAgain
  <1>9. UpdateTypes' BY <1>2, <1>7, <1>8 DEF UpdateTypes
  <1>10. Owned'
    <2>1. ASSUME NEW q \in Pages, NEW j \in section'[q].job PROVE jobs'[j].asked
      <3>1. q # p /\ j \in section[q].job /\ j \in Jobs BY <1>1, <1>4, <1>8, <2>1 DEF Section
      <3>2. j \notin section[p].job BY <3>1 DEF Owned
      <3> QED BY <1>6, <3>1, <3>2 DEF Owned
    <2> QED BY <1>4, <1>8, <2>1 DEF Owned
  <1>11. Published' BY <1>2, <1>4, <1>6, <1>8 DEF Published, UpdateTypes
  <1>12. ~overlap' => Sound'
    BY <1>2, <1>4, <1>6, <1>8, <1>9, DiskStays
  <1> QED BY <1>9, <1>10, <1>11, <1>12

LEMMA ReceiveAppliedKeeps ==
  ASSUME UpdateInv, NEW p \in Pages, ReceiveApplied(p)
  PROVE  UpdateInv'
  <1> USE DEF UpdateInv
  <1>1. section \in [Pages -> Section] /\ jobs \in [Jobs -> Job] BY DEF UpdateTypes
  <1>2. UNCHANGED <<source, origin, disk, server, overlap, complete>> BY DEF ReceiveApplied
  <1>3. NoJob \in Job /\ NoJob.step = "idle" /\ NoJob.asked = FALSE /\ NoJob.wants = 0
    BY DEF NoJob, Job, Ended, NoRev
  <1>4. PICK j \in section[p].job :
          /\ jobs[j].step \in {"done", "failed"} /\ jobs' = [jobs EXCEPT ![j] = NoJob]
          /\ section' = [section EXCEPT ![p].job = @ \ {j},
               ![p].phase = IF jobs[j].step = "done" THEN "updated" ELSE "error",
               ![p].prompt = @ \/ jobs[j].step = "done",
               ![p].installed = IF jobs[j].step = "done" THEN jobs[j].wants ELSE @]
    BY DEF ReceiveApplied
  <1>5. j \in Jobs /\ jobs[j].wants \in Nat BY <1>1 DEF Section, Job
  <1>6. /\ jobs' \in [Jobs -> Job] /\ jobs'[j] = NoJob
        /\ \A k \in Jobs : k # j => jobs'[k] = jobs[k]
    BY <1>1, <1>3, <1>4, <1>5
  <1>7. /\ section'[p].job = section[p].job \ {j} /\ section'[p].answer = section[p].answer
        /\ section'[p].offered = section[p].offered /\ section'[p] \in Section
        /\ \A q \in Pages : q # p => section'[q] = section[q]
        /\ section' \in [Pages -> Section]
    <2>1. PICK s : /\ section' = [section EXCEPT ![p] = s]
                   /\ s = [section[p] EXCEPT !.job = @ \ {j},
                             !.phase = IF jobs[j].step = "done" THEN "updated" ELSE "error",
                             !.prompt = @ \/ jobs[j].step = "done",
                             !.installed = IF jobs[j].step = "done" THEN jobs[j].wants ELSE @]
      BY <1>1, <1>4 DEF Section
    <2>2. CASE jobs[j].step = "done"
      <3>1. s.prompt = TRUE /\ s.installed = jobs[j].wants BY <1>1, <2>1, <2>2 DEF Section
      <3>2. s \in Section /\ s.job = section[p].job \ {j} /\ s.answer = section[p].answer
            /\ s.offered = section[p].offered
        BY <1>1, <1>5, <2>1, <2>2, <3>1 DEF Section
      <3> QED BY <1>1, <2>1, <3>2
    <2>3. CASE jobs[j].step # "done"
      <3>1. s.prompt = section[p].prompt /\ s.installed = section[p].installed
        BY <1>1, <2>1, <2>3 DEF Section
      <3>2. s \in Section /\ s.job = section[p].job \ {j} /\ s.answer = section[p].answer
            /\ s.offered = section[p].offered
        BY <1>1, <1>5, <2>1, <2>3, <3>1 DEF Section
      <3> QED BY <1>1, <2>1, <3>2
    <2> QED BY <2>2, <2>3
  <1>8. section'[p].prompt =>
          \/ section[p].prompt /\ section'[p].installed = section[p].installed
          \/ jobs[j].step = "done" /\ section'[p].installed = jobs[j].wants
    BY <1>1, <1>4 DEF Section
  <1>9. UpdateTypes' BY <1>2, <1>6, <1>7 DEF UpdateTypes
  <1>10. Owned'
    <2>1. \A q \in Pages : section'[q].job \subseteq section[q].job BY <1>7
    <2>2. \A q \in Pages : j \notin section'[q].job BY <1>4, <1>7 DEF Owned
    <2>3. \A q \in Pages : section[q].job \subseteq Jobs BY <1>1 DEF Section
    <2> QED BY <1>6, <2>1, <2>2, <2>3 DEF Owned
  <1>11. Published' BY <1>2, <1>3, <1>6, <1>7 DEF Published, UpdateTypes
  <1>12. ~overlap' => Sound'
    BY <1>2, <1>3, <1>5, <1>6, <1>7, <1>8, <1>9, DiskStays
  <1> QED BY <1>9, <1>10, <1>11, <1>12

LEMMA ApplyKeeps ==
  ASSUME UpdateInv, NEW p \in Pages, Apply(p)
  PROVE  UpdateInv'
  <1> USE DEF UpdateInv
  <1>1. section \in [Pages -> Section] /\ jobs \in [Jobs -> Job] BY DEF UpdateTypes
  <1>2. UNCHANGED <<source, origin, disk, server>> BY DEF Apply
  <1>3. PICK j \in Jobs :
          /\ jobs[j] = NoJob
          /\ jobs' = [jobs EXCEPT ![j] = [step |-> IF source = "npm" THEN "npm" ELSE "pull",
                                          asked |-> TRUE, wants |-> section[p].offered]]
          /\ section' = [section EXCEPT ![p].phase = "updating", ![p].job = @ \cup {j}]
          /\ overlap' = (overlap \/ RunningJobs # {}) /\ complete' = FALSE
    BY DEF Apply
  <1>4. /\ jobs' \in [Jobs -> Job] /\ jobs'[j].asked = TRUE /\ jobs'[j].step \in {"npm", "pull"}
        /\ jobs'[j].wants = section[p].offered
        /\ \A k \in Jobs : k # j => jobs'[k] = jobs[k]
    BY <1>1, <1>3 DEF Job, Section, Steps
  <1>5. /\ section' \in [Pages -> Section]
        /\ section'[p].job = section[p].job \cup {j}
        /\ \A q \in Pages : q # p => section'[q] = section[q]
        /\ \A q \in Pages : /\ section'[q].answer = section[q].answer
                            /\ section'[q].offered = section[q].offered
                            /\ section'[q].prompt = section[q].prompt
                            /\ section'[q].installed = section[q].installed
    BY <1>1, <1>3 DEF Section
  <1>6. \A q \in Pages : j \notin section[q].job BY <1>3 DEF Owned, NoJob
  <1>7. UpdateTypes' BY <1>2, <1>3, <1>4, <1>5 DEF UpdateTypes
  <1>8. Owned'
    <2>1. \A q \in Pages : section[q].job \subseteq Jobs BY <1>1 DEF Section
    <2> QED BY <1>4, <1>5, <1>6, <2>1 DEF Owned
  <1>9. Published' BY <1>2, <1>4, <1>5 DEF Published
  <1>10. ASSUME ~overlap'
         PROVE  Sound'
    <2>1. ~overlap /\ RunningJobs = {} BY <1>3, <1>10 DEF UpdateTypes
    <2>2. Chain' /\ Built' BY <1>2, <1>5, <2>1 DEF Sound, Chain, Built
    <2>3. Alone' BY <1>4, <2>1 DEF Alone, RunningJobs
    <2>4. \A k \in Jobs : Progress(k)' BY <1>2, <1>4, <2>1 DEF Sound, Progress
    <2>5. Entire' BY <1>3 DEF Entire
    <2> QED BY <2>2, <2>3, <2>4, <2>5 DEF Sound
  <1> QED BY <1>7, <1>8, <1>9, <1>10

LEMMA StepEndsKeeps ==
  ASSUME UpdateInv, NEW j \in Jobs, StepEnds(j)
  PROVE  UpdateInv'
  <1> USE DEF UpdateInv
  <1>1. section \in [Pages -> Section] /\ jobs \in [Jobs -> Job] BY DEF UpdateTypes
  <1>2. UNCHANGED <<source, origin, server, section, overlap>> BY DEF StepEnds
  <1>3. NoJob \in Job /\ NoJob.step = "idle" /\ NoJob.asked = FALSE /\ NoJob.wants = 0
    BY DEF NoJob, Job, Ended, NoRev
  <1>4. jobs[j].step \in Steps /\ jobs[j].wants \in Nat /\ jobs[j].wants <= origin
    BY <1>1 DEF StepEnds, RunningJobs, Job, Published
  \* What the job becomes.
  <1> DEFINE then(next) == IF jobs[j].asked /\ (next \in Ended => Awaited(j))
                           THEN [jobs[j] EXCEPT !.step = next] ELSE NoJob
  <1>5. \/ /\ CanEnd(jobs[j].step) /\ disk' = After(jobs[j].step)
           /\ jobs' = [jobs EXCEPT ![j] = then(Following(jobs[j].step))]
           /\ complete' = (complete \/ Following(jobs[j].step) = "done")
        \/ /\ \/ disk' \in {disk, HalfDone(jobs[j].step)}
              \/ CanEnd(jobs[j].step) /\ disk' = After(jobs[j].step)
           /\ jobs' = [jobs EXCEPT ![j] = then(AfterFailure(jobs[j].step))]
           /\ complete' = complete
    BY DEF StepEnds
  <1>6. \A next \in Steps \cup Ended :
          /\ then(next) \in Job
          /\ (\E p \in Pages : j \in section[p].job) => then(next).asked
          /\ (then(next) = NoJob \/ (then(next).step = next /\ then(next).wants = jobs[j].wants))
    <2> SUFFICES ASSUME NEW next \in Steps \cup Ended
                 PROVE  /\ then(next) \in Job
                        /\ (\E p \in Pages : j \in section[p].job) => then(next).asked
                        /\ \/ then(next) = NoJob
                           \/ (then(next).step = next /\ then(next).wants = jobs[j].wants)
      OBVIOUS
    <2>1. CASE jobs[j].asked /\ (next \in Ended => Awaited(j))
      BY <1>1, <2>1 DEF Job
    <2>2. CASE ~(jobs[j].asked /\ (next \in Ended => Awaited(j)))
      <3>1. ~(\E p \in Pages : j \in section[p].job) BY <2>2 DEF Owned, Awaited
      <3> QED BY <1>3, <2>2, <3>1
    <2> QED BY <2>1, <2>2
  <1> HIDE DEF then
  <1>7. Following(jobs[j].step) \in Steps \cup Ended
            /\ AfterFailure(jobs[j].step) \in Steps \cup Ended
    BY <1>4 DEF Following, AfterFailure, Steps, Ended
  <1>8. PICK next \in Steps \cup Ended :
          /\ jobs' = [jobs EXCEPT ![j] = then(next)]
          /\ \/ /\ CanEnd(jobs[j].step) /\ disk' = After(jobs[j].step)
                /\ \/ /\ next = Following(jobs[j].step)
                      /\ complete' = (complete \/ next = "done")
                   \/ next = "failed" /\ complete' = complete
             \/ /\ disk' \in {disk, HalfDone(jobs[j].step)}
                /\ next = "failed" /\ complete' = complete
    BY <1>5, <1>7 DEF AfterFailure
  <1>9. /\ jobs' \in [Jobs -> Job] /\ jobs'[j] = then(next)
        /\ \A k \in Jobs : k # j => jobs'[k] = jobs[k]
    BY <1>1, <1>6, <1>8
  <1>10. disk \in Disk /\ disk.head \in 1..origin /\ origin \in Nat BY DEF UpdateTypes
  <1>11. \/ /\ jobs[j].step = "npm" /\ next \in {"done", "failed"}
            /\ disk' = [head |-> origin, deps |-> origin, dist |-> origin, half |-> {}]
         \/ /\ jobs[j].step = "pull" /\ next \in {"install", "failed"}
            /\ "head" \notin disk.half /\ disk' = [disk EXCEPT !.head = origin]
         \/ /\ jobs[j].step = "install" /\ next \in {"build", "failed"}
            /\ disk' = [disk EXCEPT !.deps = disk.head, !.half = @ \ {"deps"}]
         \/ /\ jobs[j].step = "build" /\ next \in {"done", "failed"}
            /\ disk' = [disk EXCEPT !.dist = disk.head, !.half = @ \ {"dist"}]
         \/ /\ next = "failed"
            /\ \/ disk' = disk
               \/ \E h \in SUBSET {"head", "deps", "dist"} : disk' = [disk EXCEPT !.half = @ \cup h]
    <2>1. CASE CanEnd(jobs[j].step) /\ disk' = After(jobs[j].step)
      BY <1>4, <1>8, <2>1 DEF After, CanEnd, Following, Steps
    <2>2. CASE ~(CanEnd(jobs[j].step) /\ disk' = After(jobs[j].step))
      <3>1. next = "failed" /\ disk' \in {disk, HalfDone(jobs[j].step)} BY <1>8, <2>2
      <3>2. (CASE jobs[j].step = "npm" -> {"head", "deps", "dist"}
               [] jobs[j].step = "pull" -> {"head"}
               [] jobs[j].step = "install" -> {"deps"}
               [] jobs[j].step = "build" -> {"dist"}) \in SUBSET {"head", "deps", "dist"}
        BY <1>4 DEF Steps
      <3> QED BY <3>1, <3>2 DEF HalfDone
    <2> QED BY <2>1, <2>2
  \* The same, field by field.
  <1> DEFINE Are(h, d, b) == disk'.head = h /\ disk'.deps = d /\ disk'.dist = b
  <1>19. /\ disk' \in Disk
         /\ \/ /\ jobs[j].step = "npm" /\ next \in {"done", "failed"}
               /\ Are(origin, origin, origin) /\ disk'.half = {}
            \/ /\ jobs[j].step = "pull" /\ next \in {"install", "failed"}
               /\ Are(origin, disk.deps, disk.dist)
               /\ "head" \notin disk.half /\ disk'.half = disk.half
            \/ /\ jobs[j].step = "install" /\ next \in {"build", "failed"}
               /\ Are(disk.head, disk.head, disk.dist) /\ disk'.half = disk.half \ {"deps"}
            \/ /\ jobs[j].step = "build" /\ next \in {"done", "failed"}
               /\ Are(disk.head, disk.deps, disk.head) /\ disk'.half = disk.half \ {"dist"}
            \/ next = "failed" /\ Are(disk.head, disk.deps, disk.dist)
    <2>1. CASE jobs[j].step = "npm" /\ next \in {"done", "failed"}
               /\ disk' = [head |-> origin, deps |-> origin, dist |-> origin, half |-> {}]
      BY <1>10, <2>1 DEF Disk
    <2>2. CASE jobs[j].step = "pull" /\ next \in {"install", "failed"}
               /\ "head" \notin disk.half /\ disk' = [disk EXCEPT !.head = origin]
      BY <1>10, <2>2 DEF Disk
    <2>3. CASE jobs[j].step = "install" /\ next \in {"build", "failed"}
               /\ disk' = [disk EXCEPT !.deps = disk.head, !.half = @ \ {"deps"}]
      <3>1. disk.half \ {"deps"} \in SUBSET {"head", "deps", "dist"} BY <1>10 DEF Disk
      <3> QED BY <1>10, <2>3, <3>1 DEF Disk
    <2>4. CASE jobs[j].step = "build" /\ next \in {"done", "failed"}
               /\ disk' = [disk EXCEPT !.dist = disk.head, !.half = @ \ {"dist"}]
      <3>1. disk.half \ {"dist"} \in SUBSET {"head", "deps", "dist"} BY <1>10 DEF Disk
      <3> QED BY <1>10, <2>4, <3>1 DEF Disk
    <2>5. CASE next = "failed" /\ disk' = disk BY <1>10, <2>5
    <2>6. ASSUME next = "failed", NEW h \in SUBSET {"head", "deps", "dist"},
                 disk' = [disk EXCEPT !.half = @ \cup h]
          PROVE  disk' \in Disk /\ Are(disk.head, disk.deps, disk.dist)
      <3>1. disk.half \cup h \in SUBSET {"head", "deps", "dist"} BY <1>10 DEF Disk
      <3> QED BY <1>10, <2>6, <3>1 DEF Disk
    <2> HIDE DEF Are
    <2> QED BY <1>11, <2>1, <2>2, <2>3, <2>4, <2>5, <2>6
  <1>12. disk' \in Disk /\ disk'.head \in {disk.head, origin} BY <1>10, <1>19
  <1>18. complete' \in BOOLEAN BY <1>8 DEF UpdateTypes
  <1>13. UpdateTypes' BY <1>2, <1>9, <1>10, <1>12, <1>18 DEF UpdateTypes
  <1>14. Owned'
    <2>1. ASSUME NEW q \in Pages, NEW k \in section[q].job PROVE jobs'[k].asked
      <3>1. k \in Jobs /\ jobs[k].asked BY <1>1 DEF Section, Owned
      <3>2. CASE k = j BY <1>6, <1>9, <2>1, <3>2
      <3>3. CASE k # j BY <1>9, <3>1, <3>3
      <3> QED BY <3>2, <3>3
    <2> QED BY <1>2, <2>1 DEF Owned
  <1>15. Published' BY <1>2, <1>3, <1>4, <1>6, <1>9, <1>10 DEF Published
  <1>16. ASSUME ~overlap
         PROVE  Sound'
    <2>1. Chain /\ Alone /\ Built /\ Entire /\ \A k \in Jobs : Progress(k) BY <1>16 DEF Sound
    <2>2. /\ disk'.dist >= disk.dist /\ disk'.deps >= disk.deps /\ disk'.head >= disk.head
          /\ disk'.dist <= disk'.deps /\ disk'.deps <= disk'.head
          /\ jobs[j].step = "build" => disk.deps = disk.head
      BY <1>10, <1>19, <2>1 DEF Disk, Chain, Progress
    \* No installation is complete while a command runs; the last command ends it.
    <2>8. Entire'
      <3>1. ~complete BY <2>1 DEF Entire, StepEnds
      <3>2. SUFFICES ASSUME complete' PROVE Entire' BY DEF Entire
      <3>3. next = "done" BY <1>8, <3>1, <3>2
      <3>4. disk'.half = {} /\ disk'.dist = disk'.deps /\ disk'.deps = disk'.head
        BY <1>10, <1>19, <2>1, <3>3 DEF Disk, Progress
      <3>5. RunningJobs' = {}
        <4>1. j \notin RunningJobs' BY <1>3, <1>6, <1>9, <3>3 DEF RunningJobs, Ended
        <4>2. \A k \in Jobs : k # j => k \notin RunningJobs'
          BY <1>9, <2>1 DEF Alone, RunningJobs, StepEnds
        <4> QED BY <4>1, <4>2 DEF RunningJobs
      <3> QED BY <3>4, <3>5 DEF Entire
    <2>3. Chain' BY <1>2, <1>10, <1>12, <2>1, <2>2 DEF Chain, Disk, UpdateTypes
    <2>4. Alone'
      BY <1>3, <1>6, <1>9, <2>1 DEF Alone, RunningJobs, StepEnds, Ended
    <2>5. Built' BY <1>1, <1>2, <1>10, <1>12, <2>1, <2>2 DEF Built, Disk, Section
    <2>6. ASSUME NEW k \in Jobs, k # j PROVE Progress(k)'
      <3>1. jobs'[k] = jobs[k] BY <1>9, <2>6
      <3>2. jobs[k].step \in Ended
        BY <1>1, <2>1, <2>6 DEF Alone, RunningJobs, StepEnds, Job
      <3> QED BY <1>1, <1>10, <1>12, <2>1, <2>2, <3>1, <3>2 DEF Progress, Ended, Disk, Job
    <2>7. Progress(j)'
      <3>1. CASE then(next) = NoJob BY <1>3, <1>9, <3>1 DEF Progress
      <3>2. CASE then(next).step = next /\ then(next).wants = jobs[j].wants
        <4>1. jobs'[j].step = next /\ jobs'[j].wants = jobs[j].wants BY <1>9, <3>2
        <4>2. /\ next = "install" => jobs[j].wants <= disk'.head /\ "head" \notin disk'.half
              /\ next = "build" => /\ jobs[j].wants <= disk'.deps /\ disk'.deps = disk'.head
                                   /\ disk'.half \subseteq {"dist"}
              /\ next = "done" => jobs[j].wants <= disk'.dist
          BY <1>4, <1>10, <1>19, <2>1 DEF Disk, Progress
        <4> QED BY <4>1, <4>2 DEF Progress
      <3> QED BY <1>6, <3>1, <3>2
    <2> QED BY <2>3, <2>4, <2>5, <2>6, <2>7, <2>8 DEF Sound
  <1> QED BY <1>2, <1>13, <1>14, <1>15, <1>16

\* What was built last is never newer than the dependencies it was built with, nor
\* these than the sources, nor older than what a page offers to restart into, and
\* an installation that has come to its end leaves nothing half done, unless two
\* installations ran at a time; for any pages, releases, and commands that fail or
\* are killed on the way.
THEOREM UpdateStaysSound == UpdateSpec => []UpdateSafe
  <1>1. ASSUME UpdateInv, UpdateNext PROVE UpdateInv'
    BY <1>1, PublishKeeps, ServeCheckKeeps, RestartNowKeeps, ServerGoesKeeps, LoadAgainKeeps,
       ReceiveAppliedKeeps, ApplyKeeps, StepEndsKeeps
    DEF UpdateNext
  <1>2. ASSUME UpdateInv, UNCHANGED updateVars PROVE UpdateInv'
    BY <1>2 DEF UpdateInv, updateVars, UpdateTypes, Owned, Published, Sound, Chain, Alone, Built,
                Entire, Progress, RunningJobs
  <1>3. UpdateInv => UpdateSafe
    BY DEF UpdateInv, UpdateSafe, UpdateTypeOK, UpdateTypes, Owned, UpdateIsSound, Sound, Chain,
           Built, Entire
  <1> QED BY UpdateStart, <1>1, <1>2, <1>3, PTL DEF UpdateSpec

-----------------------------------------------------------------------------
(* ProjectStartup.                                                         *)

Kinds == {"start", "init", "command"}
Early == {"register", "save", "migrate", "copy", "ready"}
Late == {"probed", "listening", "serving"}

\* The record of a process.
Process ==
    [pc : Early \cup Late, kind : Kinds, at : Paths, dir : {"project", "ephemeral"},
     read : SUBSET Paths, port : Port \cup {NoPort}, stopping : BOOLEAN]

\* A process is a record, or it was not started or is over.
ProcessTypes ==
    /\ starts \in Nat
    /\ proc \in [Procs -> Process \cup {Off}]
    /\ \A p \in Procs : p > starts => proc[p] = Off

FileTypes ==
    /\ initialized \subseteq Paths /\ projects \subseteq Paths /\ known \subseteq Paths
    /\ meta \in [Dirs -> Port \cup {NoPort, Unreadable}]
    /\ ports \in [Port -> Procs \cup {Nobody, Other}]

\* What a process has come to: only a dashboard looks for a port, one that
\* listens has it, and one that was signalled too early made its directory unclean.
Dashboard(p) ==
    /\ proc[p].pc \in Late => proc[p].kind = "start" /\ proc[p].port \in Port
    /\ proc[p].pc \in {"listening", "serving"} => ports[proc[p].port] = p
    /\ Running(p) /\ proc[p].stopping =>
         /\ proc[p].pc \in Late
         /\ proc[p].pc # "serving" => Dir(p) \in unclean

\* A directory that two dashboards share is unclean.
Apart(p, q) ==
    (Running(p) /\ Running(q) /\ proc[p].kind = "start" /\ proc[q].kind = "start"
       /\ Dir(p) = Dir(q) /\ p # q) => Dir(p) \in unclean

Serves(p) == Running(p) /\ proc[p].pc = "serving" /\ ~proc[p].stopping

\* The metadata of a clean directory are those of a dashboard that serves it, or
\* those of before the migration.
Recorded(p) == Serves(p) /\ Dir(p) \notin unclean => meta[Dir(p)] = proc[p].port
Explained(d) ==
    meta[d] \notin {NoPort, LegacyOf(d)} => \E p \in Procs : Serves(p) /\ Dir(p) = d

StartupInv ==
    /\ ProcessTypes /\ FileTypes
    /\ \A p \in Procs : Dashboard(p) /\ Recorded(p)
    /\ \A p, q \in Procs : Apart(p, q)
    /\ \A d \in Dirs \ unclean : Explained(d)
    /\ RegisteredStays /\ CommandReachesItsProject

\* A process that runs is a record of the type.
LEMMA RunningType ==
    ASSUME ProcessTypes, NEW p \in Procs
    PROVE  /\ Running(p) <=> proc[p] \in Process
           /\ Running(p) => Dir(p) \in Dirs /\ proc[p].pc \in Early \cup Late
           /\ ~Running(p) => proc[p].pc = "off"
<1>1. Off.pc = "off" BY DEF Off
<1>2. Off \notin Process BY <1>1 DEF Process, Early, Late
<1> QED BY <1>1, <1>2 DEF ProcessTypes, Running, Dir, Dirs, Process

\* The metadata of before the migration are a port, or missing.
LEMMA LegacyType == \A d \in Dirs : LegacyOf(d) \in Port \cup {NoPort}
BY LegacyAssumption DEF LegacyOf, Dirs

\* What the invariant says of the metadata.
LEMMA MetadataFollow == StartupInv => MetadataIsTheServer
<1> SUFFICES ASSUME StartupInv, NEW d \in Dirs \ unclean
             PROVE  IF Serving(d) = {} THEN meta[d] \in {NoPort, LegacyOf(d)}
                    ELSE \A p \in Serving(d) : ports[meta[d]] = p
  BY DEF MetadataIsTheServer
<1>1. \A p \in Procs : p \in Serving(d) <=> Serves(p) /\ Dir(p) = d
  BY DEF Serving, Serves, At
<1>2. CASE Serving(d) = {} BY <1>1, <1>2 DEF StartupInv, Explained
<1>3. ASSUME NEW p \in Serving(d) PROVE ports[meta[d]] = p
  <2>1. p \in Procs /\ Serves(p) /\ Dir(p) = d BY <1>1 DEF Serving
  <2> QED BY <2>1 DEF StartupInv, Recorded, Dashboard, Serves
<1> QED BY <1>2, <1>3

\* A step of a process that neither serves before nor after it, and leaves the
\* shared state of the dashboards alone.
LEMMA OneMoves ==
    ASSUME StartupInv, NEW p \in Procs, Running(p), NEW s,
           proc' = [proc EXCEPT ![p] = s], UNCHANGED <<meta, ports, unclean, starts>>,
           proc[p].pc # "serving",
           \/ s = Off
           \/ /\ s \in Process /\ s.kind = proc[p].kind /\ s.at = proc[p].at /\ s.dir = proc[p].dir
              /\ s.stopping = proc[p].stopping /\ s.pc # "serving"
              /\ s.pc \in Late => s.pc = "probed" /\ s.kind = "start" /\ s.port \in Port
              /\ s.stopping => s.pc \in Late
    PROVE  /\ ProcessTypes'
           /\ \A q \in Procs : Dashboard(q)' /\ Recorded(q)'
           /\ \A q, r \in Procs : Apart(q, r)'
           /\ \A d \in Dirs \ unclean' : Explained(d)'
<1>1. ProcessTypes /\ proc[p] \in Process BY RunningType DEF StartupInv
<1>2. \A q \in Procs : q # p => proc'[q] = proc[q] BY <1>1 DEF ProcessTypes
<1>3. proc'[p] = s BY <1>1 DEF ProcessTypes
<1>4. ProcessTypes'
  <2>1. proc[p] # Off BY DEF Running
  <2> QED BY <1>1, <1>2, <1>3, <2>1 DEF ProcessTypes
<1>5. /\ \A q \in Procs : q # p => /\ Running(q)' <=> Running(q)
                                   /\ Dir(q)' = Dir(q)
                                   /\ Serves(q)' <=> Serves(q)
      /\ Running(p)' => s \in Process /\ Dir(p)' = Dir(p)
      /\ ~Serves(p) /\ ~Serves(p)'
  BY <1>2, <1>3 DEF Running, Dir, Serves
<1>6. ASSUME NEW q \in Procs PROVE Dashboard(q)' /\ Recorded(q)'
  <2>1. CASE q # p
    BY <1>2, <1>5, <2>1 DEF StartupInv, Dashboard, Recorded
  <2>2. CASE q = p
    <3>1. Recorded(p)' BY <1>5 DEF Recorded
    <3>2. CASE s = Off
      BY <1>3, <2>2, <3>1, <3>2 DEF Dashboard, Off, Running, Late
    <3>3. CASE s # Off
      BY <1>1, <1>3, <1>5, <2>2, <3>1, <3>3 DEF Dashboard, StartupInv, Late, Process
    <3> QED BY <3>2, <3>3
  <2> QED BY <2>1, <2>2
<1>7. ASSUME NEW q \in Procs, NEW r \in Procs PROVE Apart(q, r)'
  <2>1. \A x \in Procs : Running(x)' => Running(x) /\ Dir(x)' = Dir(x)
            /\ proc'[x].kind = proc[x].kind
    BY <1>2, <1>3, <1>5 DEF Running
  <2> QED BY <2>1 DEF StartupInv, Apart
<1>8. ASSUME NEW d \in Dirs \ unclean' PROVE Explained(d)'
  BY <1>5 DEF StartupInv, Explained
<1> QED BY <1>4, <1>6, <1>7, <1>8

\* What a step leaves alone: the invariant of the other parts.
LEMMA Rest ==
    ASSUME StartupInv, UNCHANGED <<initialized, projects, known, raced, reached>>
    PROVE  RegisteredStays' /\ CommandReachesItsProject'
           /\ (initialized \subseteq Paths /\ projects \subseteq Paths /\ known \subseteq Paths)'
BY DEF StartupInv, RegisteredStays, CommandReachesItsProject, FileTypes

\* The first free port exists.
LEMMA FirstFree ==
    ASSUME Free # {}
    PROVE  (CHOOSE n \in Free : \A k \in Free : n <= k) \in Free
<1>1. Free \subseteq Nat BY DEF Free, Port
<1> DEFINE below == OpToRel(<, Nat)
<1>2. IsWellFoundedOn(below, Nat) BY NatLessThanWellFounded
<1>3. \A k, n \in Nat : k < n => <<k, n>> \in below BY DEF OpToRel
<1> HIDE DEF below
<1>4. PICK n \in Free : \A k \in Free : <<k, n>> \notin below
  BY <1>1, <1>2, WFMin
<1>5. ASSUME NEW k \in Free PROVE n <= k
  <2>1. k \in Nat /\ n \in Nat /\ <<k, n>> \notin below BY <1>1, <1>4
  <2>2. ~(k < n) BY <1>3, <2>1
  <2> QED BY <2>1, <2>2
<1> QED BY <1>5

\* projects.json: the read and the write of one registration.
LEMMA RegistrationKeeps ==
    ASSUME StartupInv, NEW p \in Procs, LoadRegistry(p) \/ SaveRegistry(p)
    PROVE  StartupInv'
<1>1. ProcessTypes /\ FileTypes BY DEF StartupInv
<1>2. Running(p) /\ proc[p] \in Process BY RunningType, <1>1 DEF LoadRegistry, SaveRegistry, At
<1>3. CASE LoadRegistry(p)
  <2>1. PICK halfway \in {FALSE} \cup {\E q \in Procs \ {p} : At(q, "save")} :
          /\ proc' = [proc EXCEPT ![p].read = IF halfway THEN {} ELSE projects, ![p].pc = "save"]
          /\ raced' = (raced \/ halfway)
    BY <1>3 DEF LoadRegistry
  <2> DEFINE found == IF halfway THEN {} ELSE projects
  <2>2. found \in SUBSET Paths BY <1>1 DEF FileTypes
  <2>3. PICK s : s = [proc[p] EXCEPT !.read = found, !.pc = "save"]
            /\ proc' = [proc EXCEPT ![p] = s]
    BY <1>1, <1>2, <2>1 DEF ProcessTypes
  <2> HIDE DEF found
  <2>4. proc[p].pc = "register" BY <1>3 DEF LoadRegistry, At
  <2>5. /\ s \in Process /\ s.kind = proc[p].kind /\ s.at = proc[p].at /\ s.dir = proc[p].dir
        /\ s.stopping = proc[p].stopping /\ s.pc = "save"
    BY <1>2, <2>2, <2>3 DEF Process, Early
  <2>6. ~proc[p].stopping BY <1>2, <2>4 DEF StartupInv, Dashboard, Late
  <2>7. /\ ProcessTypes'
        /\ \A q \in Procs : Dashboard(q)' /\ Recorded(q)'
        /\ \A q, r \in Procs : Apart(q, r)'
        /\ \A d \in Dirs \ unclean' : Explained(d)'
    BY <1>2, <1>3, <2>3, <2>4, <2>5, <2>6, OneMoves DEF LoadRegistry, Late
  <2>8. RegisteredStays' /\ CommandReachesItsProject' /\ FileTypes'
    BY <1>1, <1>3, <2>1
       DEF LoadRegistry, StartupInv, RegisteredStays, CommandReachesItsProject, FileTypes
  <2> QED BY <2>7, <2>8 DEF StartupInv
<1>4. CASE SaveRegistry(p)
  <2>1. PICK pc \in {"register", "migrate", "ready"} : GoTo(p, pc) BY <1>4 DEF SaveRegistry
  <2>3. PICK s : s = [proc[p] EXCEPT !.pc = pc] /\ proc' = [proc EXCEPT ![p] = s]
    BY <1>1, <1>2, <2>1 DEF ProcessTypes, GoTo
  <2>4. proc[p].pc = "save" BY <1>4 DEF SaveRegistry, At
  <2>5. /\ s \in Process /\ s.kind = proc[p].kind /\ s.at = proc[p].at /\ s.dir = proc[p].dir
        /\ s.stopping = proc[p].stopping /\ s.pc \in {"register", "migrate", "ready"}
    BY <1>2, <2>3 DEF Process, Early
  <2>6. ~proc[p].stopping BY <1>2, <2>4 DEF StartupInv, Dashboard, Late
  <2>7. /\ ProcessTypes'
        /\ \A q \in Procs : Dashboard(q)' /\ Recorded(q)'
        /\ \A q, r \in Procs : Apart(q, r)'
        /\ \A d \in Dirs \ unclean' : Explained(d)'
    BY <1>2, <1>4, <2>3, <2>4, <2>5, <2>6, OneMoves DEF SaveRegistry, Late
  <2>8. proc[p].read \subseteq Paths /\ proc[p].at \in Paths BY <1>2 DEF Process
  <2>9. RegisteredStays' /\ CommandReachesItsProject' /\ FileTypes'
    BY <1>1, <1>4, <2>8
       DEF SaveRegistry, StartupInv, RegisteredStays, CommandReachesItsProject, FileTypes
  <2> QED BY <2>7, <2>9 DEF StartupInv
<1> QED BY <1>3, <1>4

\* The end of init, a command, and a dashboard that looks for a port or loses it.
LEMMA CommandKeeps == ASSUME StartupInv, NEW p \in Procs, Command(p) PROVE StartupInv'
<1>1. ProcessTypes /\ FileTypes /\ MetadataIsTheServer BY MetadataFollow DEF StartupInv
<1>2. Running(p) /\ proc[p] \in Process /\ proc[p].pc = "ready"
  BY RunningType, <1>1 DEF Command, At
<1>3. /\ ProcessTypes'
      /\ \A q \in Procs : Dashboard(q)' /\ Recorded(q)'
      /\ \A q, r \in Procs : Apart(q, r)'
      /\ \A d \in Dirs \ unclean' : Explained(d)'
  <2>1. proc' = [proc EXCEPT ![p] = Off] /\ UNCHANGED <<meta, ports, unclean, starts>>
    BY DEF Command
  <2> QED BY <1>2, <2>1, OneMoves
<1> DEFINE d == Dir(p)
<1>4. CommandReachesItsProject'
  <2> SUFFICES ASSUME reached'.own PROVE reached'.to = reached'.from
    BY DEF CommandReachesItsProject
  <2>0. PICK torn \in {FALSE, Writing(d)} :
          LET there == ports[ApiBase(d, torn)]
          IN reached' = [from |-> proc[p].at,
                         to |-> IF there \in Procs THEN proc[there].at ELSE Nowhere,
                         own |-> Serving(d) # {} /\ d \notin unclean /\ ~torn
                                 /\ proc[p].dir = "project"]
    BY DEF Command
  <2>1. Serving(d) # {} /\ d \notin unclean /\ ~torn /\ proc[p].dir = "project" BY <2>0
  <2>2. PICK q \in Serving(d) : TRUE BY <2>1
  <2>3. q \in Procs /\ Serves(q) /\ Dir(q) = d BY <2>2 DEF Serving, Serves, At
  <2>4. meta[d] = proc[q].port /\ proc[q].port \in Port /\ ports[proc[q].port] = q
    BY <2>1, <2>3 DEF StartupInv, Recorded, Dashboard, Serves, Late
  <2>5. d[2] = "project" /\ d[1] = proc[p].at /\ proc[q].at = d[1] BY <2>1, <2>3 DEF Dir
  <2>7. ApiBase(d, torn) = proc[q].port BY <2>1, <2>4, <2>5 DEF ApiBase
  <2>8. reached'.from = proc[p].at /\ reached'.to = proc[q].at
    BY <2>0, <2>3, <2>4, <2>7
  <2> QED BY <2>5, <2>8
<1>5. RegisteredStays' /\ FileTypes'
  BY <1>1 DEF Command, StartupInv, RegisteredStays, FileTypes
<1> QED BY <1>3, <1>4, <1>5 DEF StartupInv

LEMMA PortKeeps ==
    ASSUME StartupInv, NEW p \in Procs, InitDone(p) \/ FindPort(p) PROVE StartupInv'
<1>1. ProcessTypes /\ FileTypes BY DEF StartupInv
<1>2. Running(p) /\ proc[p] \in Process /\ proc[p].pc = "ready"
  BY RunningType, <1>1 DEF InitDone, FindPort, At
<1>3. UNCHANGED <<initialized, projects, meta, ports, starts, known, raced, unclean, reached>>
  BY DEF InitDone, FindPort
<1>4. CASE InitDone(p)
  <2>1. proc' = [proc EXCEPT ![p] = Off] BY <1>4 DEF InitDone
  <2> QED BY <1>1, <1>2, <1>3, <2>1, OneMoves, Rest DEF StartupInv, FileTypes
<1>5. CASE FindPort(p)
  <2>1. PICK n \in Port : proc' = [proc EXCEPT ![p].pc = "probed", ![p].port = n]
    <3> DEFINE first == CHOOSE n \in Free : \A k \in Free : n <= k
    <3>1. first \in Port BY <1>5, FirstFree DEF FindPort, Free
    <3>2. proc' = [proc EXCEPT ![p].pc = "probed", ![p].port = first] BY <1>5 DEF FindPort
    <3> HIDE DEF first
    <3> QED BY <3>1, <3>2
  <2>2. n \in Port OBVIOUS
  <2>3. PICK s : s = [proc[p] EXCEPT !.pc = "probed", !.port = n] /\ proc' = [proc EXCEPT ![p] = s]
    <3> DEFINE s == [proc[p] EXCEPT !.pc = "probed", !.port = n]
    <3>1. proc' = [proc EXCEPT ![p] = s] BY <1>1, <1>2, <2>1, <2>2 DEF ProcessTypes, Process
    <3> QED BY <3>1
  <2>4. /\ s \in Process /\ s.kind = proc[p].kind /\ s.at = proc[p].at /\ s.dir = proc[p].dir
        /\ s.stopping = proc[p].stopping /\ s.pc = "probed" /\ s.port = n
    BY <1>2, <2>2, <2>3 DEF Process, Late
  <2>5. proc[p].kind = "start" BY <1>5 DEF FindPort
  <2>6. /\ ProcessTypes'
        /\ \A q \in Procs : Dashboard(q)' /\ Recorded(q)'
        /\ \A q, r \in Procs : Apart(q, r)'
        /\ \A d \in Dirs \ unclean' : Explained(d)'
    BY <1>2, <1>3, <2>2, <2>3, <2>4, <2>5, OneMoves DEF Late
  <2> QED BY <1>1, <1>3, <2>6, Rest DEF StartupInv, FileTypes
<1> QED BY <1>4, <1>5

\* The other processes, when one of them moves.
LEMMA OthersStay ==
    ASSUME ProcessTypes, NEW p \in Procs, NEW s, proc' = [proc EXCEPT ![p] = s]
    PROVE  /\ proc'[p] = s
           /\ \A q \in Procs : q # p => /\ proc'[q] = proc[q]
                                        /\ Running(q)' <=> Running(q)
                                        /\ Dir(q)' = Dir(q)
                                        /\ Serves(q)' <=> Serves(q)
<1>1. proc'[p] = s /\ \A q \in Procs : q # p => proc'[q] = proc[q] BY DEF ProcessTypes
<1> QED BY <1>1 DEF Running, Dir, Serves

\* A process that is started is alone in its directory, or the directory is unclean.
LEMMA LaunchKeeps ==
    ASSUME StartupInv, NEW p \in Procs, NEW path \in Paths, NEW kind \in Kinds,
           Launch(p, path, kind)
    PROVE  StartupInv'
<1>1. ProcessTypes /\ FileTypes BY DEF StartupInv
<1>2. proc[p] = Off /\ ~Running(p) /\ p = starts + 1 /\ starts' = p
  BY <1>1 DEF Launch, ProcessTypes, Running, Procs
<1>3. PICK dir \in {"project", "ephemeral"}, pc \in {"register", "ready"} :
        proc' = [proc EXCEPT ![p] = [pc |-> pc, kind |-> kind, at |-> path, dir |-> dir,
                                     read |-> {}, port |-> NoPort, stopping |-> FALSE]]
  BY DEF Launch
<1>4. PICK s : /\ s = [pc |-> pc, kind |-> kind, at |-> path, dir |-> dir,
                       read |-> {}, port |-> NoPort, stopping |-> FALSE]
               /\ proc' = [proc EXCEPT ![p] = s]
  BY <1>3
<1>5. /\ s \in Process /\ s.kind = kind /\ s.at = path /\ s.dir = dir /\ s.stopping = FALSE
      /\ s.pc \in {"register", "ready"} /\ s # Off
  BY <1>4 DEF Process, Early, Kinds, Off
<1>6. /\ proc'[p] = s
      /\ \A q \in Procs : q # p => /\ proc'[q] = proc[q]
                                   /\ Running(q)' <=> Running(q)
                                   /\ Dir(q)' = Dir(q)
                                   /\ Serves(q)' <=> Serves(q)
  BY <1>1, <1>4, OthersStay
<1>7. /\ ~Serves(p)' /\ ~Serves(p) /\ Dir(p)' = <<path, dir>> /\ s.pc \notin Late
  BY <1>2, <1>5, <1>6 DEF Serves, Dir, Late
<1>8. /\ unclean \subseteq unclean'
      /\ \A q \in Procs : (q # p /\ Running(q) /\ Dir(q) = <<path, dir>>
                             /\ kind = "start" /\ proc[q].kind = "start") => Dir(q) \in unclean'
  BY <1>5, <1>6 DEF Launch
<1>9. ProcessTypes'
  BY <1>1, <1>2, <1>4, <1>5, <1>6 DEF ProcessTypes, Procs
<1>10. FileTypes' /\ RegisteredStays' /\ CommandReachesItsProject'
  BY <1>1 DEF Launch, FileTypes, StartupInv, RegisteredStays, CommandReachesItsProject
<1>11. UNCHANGED <<meta, ports>> BY DEF Launch
<1>12. ASSUME NEW q \in Procs PROVE Dashboard(q)' /\ Recorded(q)'
  <2>1. CASE q # p
    BY <1>6, <1>8, <1>11, <2>1 DEF StartupInv, Dashboard, Recorded
  <2>2. CASE q = p
    BY <1>5, <1>6, <1>7, <2>2 DEF Dashboard, Recorded, Late
  <2> QED BY <2>1, <2>2
<1>13. ASSUME NEW q \in Procs, NEW r \in Procs PROVE Apart(q, r)'
  <2>1. CASE q # p /\ r # p BY <1>6, <1>8, <2>1 DEF StartupInv, Apart
  <2>2. CASE q = p /\ r # p BY <1>5, <1>6, <1>7, <1>8, <2>2 DEF Apart
  <2>3. CASE q # p /\ r = p BY <1>5, <1>6, <1>7, <1>8, <2>3 DEF Apart
  <2>4. CASE q = p /\ r = p BY <2>4 DEF Apart
  <2> QED BY <2>1, <2>2, <2>3, <2>4
<1>14. ASSUME NEW d \in Dirs \ unclean' PROVE Explained(d)'
  BY <1>6, <1>7, <1>8, <1>11 DEF StartupInv, Explained
<1> QED BY <1>9, <1>10, <1>12, <1>13, <1>14 DEF StartupInv

\* A process finds out whether the metadata of before the migration are missing.
LEMMA MigrateKeeps == ASSUME StartupInv, NEW p \in Procs, Migrate(p) PROVE StartupInv'
<1>1. ProcessTypes /\ FileTypes BY DEF StartupInv
<1>2. Running(p) /\ proc[p] \in Process /\ proc[p].pc = "migrate"
  BY RunningType, <1>1 DEF Migrate, At
<1>3. UNCHANGED <<initialized, projects, meta, ports, starts, known, raced, unclean, reached>>
  BY DEF Migrate
<1>4. PICK pc \in {"copy", "ready"} : GoTo(p, pc) BY DEF Migrate
<1>5. PICK s : s = [proc[p] EXCEPT !.pc = pc] /\ proc' = [proc EXCEPT ![p] = s]
  BY <1>1, <1>2, <1>4 DEF ProcessTypes, GoTo
<1>6. /\ s \in Process /\ s.kind = proc[p].kind /\ s.at = proc[p].at /\ s.dir = proc[p].dir
      /\ s.stopping = proc[p].stopping /\ s.pc \in {"copy", "ready"}
  BY <1>2, <1>5 DEF Process, Early
<1>7. ~proc[p].stopping BY <1>2 DEF StartupInv, Dashboard, Late
<1>8. /\ ProcessTypes'
      /\ \A q \in Procs : Dashboard(q)' /\ Recorded(q)'
      /\ \A q, r \in Procs : Apart(q, r)'
      /\ \A d \in Dirs \ unclean' : Explained(d)'
  BY <1>2, <1>3, <1>5, <1>6, <1>7, OneMoves DEF Late
<1> QED BY <1>1, <1>3, <1>8, Rest DEF StartupInv, FileTypes

\* The metadata of before the migration come where none were, or the directory
\* is unclean.
LEMMA CopyKeeps == ASSUME StartupInv, NEW p \in Procs, Copy(p) PROVE StartupInv'
<1>1. ProcessTypes /\ FileTypes BY DEF StartupInv
<1>2. Running(p) /\ proc[p] \in Process /\ proc[p].pc = "copy"
  BY RunningType, <1>1 DEF Copy, At
<1>3. UNCHANGED <<initialized, projects, ports, starts, known, raced, reached>> BY DEF Copy
<1>4. PICK s : s = [proc[p] EXCEPT !.pc = "ready"] /\ proc' = [proc EXCEPT ![p] = s]
  BY <1>1, <1>2 DEF ProcessTypes, GoTo, Copy
<1>5. /\ s \in Process /\ s.kind = proc[p].kind /\ s.at = proc[p].at /\ s.dir = proc[p].dir
      /\ ~s.stopping /\ s.pc = "ready" /\ s # Off
  BY <1>2, <1>4 DEF Process, Early, Late, Off, StartupInv, Dashboard
<1>6. /\ proc'[p] = s
      /\ \A q \in Procs : q # p => /\ proc'[q] = proc[q]
                                   /\ Running(q)' <=> Running(q)
                                   /\ Dir(q)' = Dir(q)
                                   /\ Serves(q)' <=> Serves(q)
  BY <1>1, <1>4, OthersStay
<1>7. ~Serves(p)' /\ ~Serves(p) /\ Dir(p)' = Dir(p) /\ Dir(p) \in Dirs
  BY <1>1, <1>2, <1>5, <1>6, RunningType DEF Serves, Dir
<1>8. /\ meta'[Dir(p)] = LegacyOf(Dir(p))
      /\ \A d \in Dirs : d # Dir(p) => meta'[d] = meta[d]
      /\ meta' \in [Dirs -> Port \cup {NoPort, Unreadable}]
  BY <1>1, <1>7, LegacyType DEF Copy, FileTypes
<1>9. unclean \subseteq unclean' /\ (meta[Dir(p)] # NoPort => Dir(p) \in unclean') BY DEF Copy
<1>10. ProcessTypes' BY <1>1, <1>2, <1>3, <1>4, <1>5, <1>6 DEF ProcessTypes, Running, Copy
<1>11. ASSUME NEW q \in Procs PROVE Dashboard(q)' /\ Recorded(q)'
  <2>1. CASE q # p
    <3>1. Dashboard(q)' BY <1>3, <1>6, <1>9, <2>1 DEF StartupInv, Dashboard, Late
    <3>2. ASSUME Serves(q), Dir(q) \notin unclean' PROVE meta'[Dir(q)] = proc[q].port
      <4>1. Dir(q) \in Dirs /\ meta[Dir(q)] = proc[q].port /\ proc[q].port \in Port
        BY <1>1, <1>9, <3>2, RunningType DEF StartupInv, Recorded, Dashboard, Serves, Late
      <4>2. Dir(q) # Dir(p) BY <1>9, <3>2, <4>1 DEF Port, NoPort
      <4> QED BY <1>8, <4>1, <4>2
    <3> QED BY <1>6, <2>1, <3>1, <3>2 DEF Recorded
  <2>2. CASE q = p BY <1>5, <1>6, <1>7, <2>2 DEF Dashboard, Recorded, Late
  <2> QED BY <2>1, <2>2
<1>12. ASSUME NEW q \in Procs, NEW r \in Procs PROVE Apart(q, r)'
  <2>1. \A x \in Procs : Running(x)' => Running(x) /\ Dir(x)' = Dir(x)
            /\ proc'[x].kind = proc[x].kind
    BY <1>2, <1>5, <1>6, <1>7
  <2> QED BY <1>9, <2>1 DEF StartupInv, Apart
<1>13. ASSUME NEW d \in Dirs \ unclean' PROVE Explained(d)'
  <2>1. CASE d = Dir(p) BY <1>8, <2>1 DEF Explained, LegacyOf
  <2>2. CASE d # Dir(p)
    BY <1>6, <1>7, <1>8, <1>9, <2>2 DEF StartupInv, Explained, LegacyOf
  <2> QED BY <2>1, <2>2
<1>14. RegisteredStays' /\ CommandReachesItsProject'
  BY <1>3 DEF StartupInv, RegisteredStays, CommandReachesItsProject
<1> QED BY <1>1, <1>3, <1>8, <1>10, <1>11, <1>12, <1>13, <1>14 DEF StartupInv, FileTypes

\* A dashboard begins to listen: nobody else had the port.
LEMMA ListenKeeps == ASSUME StartupInv, NEW p \in Procs, Listen(p) PROVE StartupInv'
<1>1. ProcessTypes /\ FileTypes BY DEF StartupInv
<1>2. Running(p) /\ proc[p] \in Process /\ proc[p].pc = "probed"
  BY RunningType, <1>1 DEF Listen, At
<1>3. UNCHANGED <<initialized, projects, meta, starts, known, raced, unclean, reached>>
  BY DEF Listen
<1>4. CASE ports[proc[p].port] # Nobody
  <2>1. proc' = [proc EXCEPT ![p] = Off] /\ UNCHANGED ports BY <1>4 DEF Listen
  <2> QED BY <1>1, <1>2, <1>3, <2>1, OneMoves, Rest DEF StartupInv, FileTypes
<1>5. CASE ports[proc[p].port] = Nobody
  <2>1. proc[p].kind = "start" /\ proc[p].port \in Port
    BY <1>2 DEF StartupInv, Dashboard, Late
  <2>2. PICK s : s = [proc[p] EXCEPT !.pc = "listening"] /\ proc' = [proc EXCEPT ![p] = s]
    BY <1>1, <1>2, <1>5 DEF ProcessTypes, Listen, GoTo
  <2>3. /\ s \in Process /\ s.kind = proc[p].kind /\ s.at = proc[p].at /\ s.dir = proc[p].dir
        /\ s.stopping = proc[p].stopping /\ s.pc = "listening" /\ s.port = proc[p].port /\ s # Off
    BY <1>2, <2>2 DEF Process, Late, Off
  <2>4. /\ proc'[p] = s
        /\ \A q \in Procs : q # p => /\ proc'[q] = proc[q]
                                     /\ Running(q)' <=> Running(q)
                                     /\ Dir(q)' = Dir(q)
                                     /\ Serves(q)' <=> Serves(q)
    BY <1>1, <2>2, OthersStay
  <2>5. ~Serves(p)' /\ ~Serves(p) /\ Dir(p)' = Dir(p)
    BY <1>2, <2>3, <2>4 DEF Serves, Dir
  <2>6. ports' = [ports EXCEPT ![proc[p].port] = p] BY <1>5 DEF Listen
  <2>7. /\ ports'[proc[p].port] = p
        /\ \A q \in Procs, n \in Port : ports[n] = q => ports'[n] = q
    <3>1. ports'[proc[p].port] = p BY <1>1, <2>1, <2>6 DEF FileTypes
    <3>2. ASSUME NEW q \in Procs, NEW n \in Port, ports[n] = q PROVE ports'[n] = q
      <4>1. q # Nobody BY DEF Procs, Nobody
      <4>2. n # proc[p].port BY <1>5, <3>2, <4>1
      <4> QED BY <1>1, <2>6, <3>2, <4>2 DEF FileTypes
    <3> QED BY <3>1, <3>2
  <2>8. ProcessTypes' BY <1>1, <1>2, <1>3, <2>2, <2>3, <2>4 DEF ProcessTypes, Running
  <2>9. FileTypes' BY <1>1, <1>3, <2>1, <2>6 DEF FileTypes
  <2>10. ASSUME NEW q \in Procs PROVE Dashboard(q)' /\ Recorded(q)'
    <3>1. CASE q # p
      BY <1>3, <2>4, <2>7, <3>1 DEF StartupInv, Dashboard, Recorded, Late
    <3>2. CASE q = p
      BY <1>2, <1>3, <2>1, <2>3, <2>4, <2>5, <2>7, <3>2 DEF Dashboard, Recorded, StartupInv, Late
    <3> QED BY <3>1, <3>2
  <2>11. ASSUME NEW q \in Procs, NEW r \in Procs PROVE Apart(q, r)'
    <3>1. \A x \in Procs : Running(x)' => Running(x) /\ Dir(x)' = Dir(x)
              /\ proc'[x].kind = proc[x].kind
      BY <1>2, <2>3, <2>4, <2>5
    <3> QED BY <1>3, <3>1 DEF StartupInv, Apart
  <2>12. ASSUME NEW d \in Dirs \ unclean' PROVE Explained(d)'
    BY <1>3, <2>4, <2>5 DEF StartupInv, Explained
  <2> QED BY <1>3, <2>8, <2>9, <2>10, <2>11, <2>12, Rest DEF StartupInv
<1> QED BY <1>4, <1>5

\* A dashboard writes its metadata: in a clean directory no other serves.
LEMMA WriteKeeps == ASSUME StartupInv, NEW p \in Procs, WriteMetadata(p) PROVE StartupInv'
<1>1. ProcessTypes /\ FileTypes BY DEF StartupInv
<1>2. Running(p) /\ proc[p] \in Process /\ proc[p].pc = "listening"
  BY RunningType, <1>1 DEF WriteMetadata, At
<1>3. UNCHANGED <<initialized, projects, ports, starts, known, raced, unclean, reached>>
  BY DEF WriteMetadata
<1>4. proc[p].kind = "start" /\ proc[p].port \in Port /\ ports[proc[p].port] = p
      /\ (proc[p].stopping => Dir(p) \in unclean)
  BY <1>2 DEF StartupInv, Dashboard, Late
<1>5. PICK s : s = [proc[p] EXCEPT !.pc = "serving"] /\ proc' = [proc EXCEPT ![p] = s]
  BY <1>1, <1>2 DEF ProcessTypes, WriteMetadata, GoTo
<1>6. /\ s \in Process /\ s.kind = proc[p].kind /\ s.at = proc[p].at /\ s.dir = proc[p].dir
      /\ s.stopping = proc[p].stopping /\ s.pc = "serving" /\ s.port = proc[p].port /\ s # Off
  BY <1>2, <1>5 DEF Process, Late, Off
<1>7. /\ proc'[p] = s
      /\ \A q \in Procs : q # p => /\ proc'[q] = proc[q]
                                   /\ Running(q)' <=> Running(q)
                                   /\ Dir(q)' = Dir(q)
                                   /\ Serves(q)' <=> Serves(q)
  BY <1>1, <1>5, OthersStay
<1>8. Dir(p)' = Dir(p) /\ Running(p)' /\ Dir(p) \in Dirs /\ ~Serves(p)
  BY <1>1, <1>2, <1>6, <1>7, RunningType DEF Dir, Running, Serves
<1>9. /\ meta'[Dir(p)] = proc[p].port
      /\ \A d \in Dirs : d # Dir(p) => meta'[d] = meta[d]
      /\ meta' \in [Dirs -> Port \cup {NoPort, Unreadable}]
  BY <1>1, <1>4, <1>8 DEF WriteMetadata, FileTypes
<1>10. ProcessTypes' BY <1>1, <1>2, <1>3, <1>5, <1>6, <1>7 DEF ProcessTypes, Running
<1>11. ASSUME NEW q \in Procs PROVE Dashboard(q)' /\ Recorded(q)'
  <2>1. CASE q # p
    <3>1. Dashboard(q)' BY <1>3, <1>7, <2>1 DEF StartupInv, Dashboard, Late
    <3>2. ASSUME Serves(q), Dir(q) \notin unclean PROVE meta'[Dir(q)] = proc[q].port
      <4>1. Running(q) /\ proc[q].kind = "start"
        BY <3>2 DEF Serves, StartupInv, Dashboard, Late
      <4>2. Dir(q) # Dir(p) BY <1>2, <1>4, <2>1, <3>2, <4>1 DEF StartupInv, Apart
      <4>3. Dir(q) \in Dirs BY <1>1, <4>1, RunningType
      <4> QED BY <1>9, <3>2, <4>2, <4>3 DEF StartupInv, Recorded
    <3> QED BY <1>3, <1>7, <2>1, <3>1, <3>2 DEF Recorded
  <2>2. CASE q = p
    BY <1>3, <1>4, <1>6, <1>7, <1>8, <1>9, <2>2 DEF Dashboard, Recorded, Late
  <2> QED BY <2>1, <2>2
<1>12. ASSUME NEW q \in Procs, NEW r \in Procs PROVE Apart(q, r)'
  <2>1. \A x \in Procs : Running(x)' => Running(x) /\ Dir(x)' = Dir(x)
            /\ proc'[x].kind = proc[x].kind
    BY <1>2, <1>6, <1>7, <1>8
  <2> QED BY <1>3, <2>1 DEF StartupInv, Apart
<1>13. ASSUME NEW d \in Dirs \ unclean' PROVE Explained(d)'
  <2>1. CASE d = Dir(p)
    <3>1. Serves(p)' BY <1>3, <1>4, <1>6, <1>7, <1>8, <2>1 DEF Serves
    <3> QED BY <1>8, <2>1, <3>1 DEF Explained
  <2>2. CASE d # Dir(p)
    BY <1>3, <1>7, <1>8, <1>9, <2>2 DEF StartupInv, Explained
  <2> QED BY <2>1, <2>2
<1> QED BY <1>1, <1>3, <1>9, <1>10, <1>11, <1>12, <1>13, Rest DEF StartupInv, FileTypes

\* A signal: the metadata that are cleared are those of the dashboard itself,
\* unless its directory is unclean.
LEMMA ShutdownKeeps == ASSUME StartupInv, NEW p \in Procs, Shutdown(p) PROVE StartupInv'
<1>1. ProcessTypes /\ FileTypes BY DEF StartupInv
<1>2. Running(p) /\ proc[p] \in Process /\ proc[p].pc \in Late /\ ~proc[p].stopping
  BY RunningType, <1>1 DEF Shutdown, At, Late
<1>3. UNCHANGED <<initialized, projects, ports, starts, known, raced, reached>>
  BY DEF Shutdown
<1>4. PICK s : s = [proc[p] EXCEPT !.stopping = TRUE] /\ proc' = [proc EXCEPT ![p] = s]
  BY <1>1, <1>2 DEF ProcessTypes, Shutdown
<1>5. /\ s \in Process /\ s.kind = proc[p].kind /\ s.at = proc[p].at /\ s.dir = proc[p].dir
      /\ s.stopping = TRUE /\ s.pc = proc[p].pc /\ s.port = proc[p].port
  BY <1>2, <1>4 DEF Process
<1>6. /\ proc'[p] = s
      /\ \A q \in Procs : q # p => /\ proc'[q] = proc[q]
                                   /\ Running(q)' <=> Running(q)
                                   /\ Dir(q)' = Dir(q)
                                   /\ Serves(q)' <=> Serves(q)
  BY <1>1, <1>4, OthersStay
<1>7. Dir(p)' = Dir(p) /\ Dir(p) \in Dirs /\ ~Serves(p)'
  BY <1>1, <1>2, <1>5, <1>6, RunningType DEF Dir, Serves
<1>8. /\ meta'[Dir(p)] = NoPort
      /\ \A d \in Dirs : d # Dir(p) => meta'[d] = meta[d]
      /\ meta' \in [Dirs -> Port \cup {NoPort, Unreadable}]
  BY <1>1, <1>7 DEF Shutdown, FileTypes
<1>9. unclean \subseteq unclean' /\ (proc[p].pc # "serving" => Dir(p) \in unclean')
  BY DEF Shutdown, At
<1>10. ProcessTypes'
  <2>1. s # Off BY <1>2, <1>5 DEF Off, Late
  <2> QED BY <1>1, <1>2, <1>3, <1>4, <1>5, <1>6 DEF ProcessTypes, Running
<1>11. ASSUME NEW q \in Procs PROVE Dashboard(q)' /\ Recorded(q)'
  <2>1. CASE q # p
    <3>1. Dashboard(q)' BY <1>3, <1>6, <1>9, <2>1 DEF StartupInv, Dashboard, Late
    <3>2. ASSUME Serves(q), Dir(q) \notin unclean PROVE meta'[Dir(q)] = proc[q].port
      <4>1. Running(q) /\ proc[q].kind = "start" /\ proc[p].kind = "start"
        BY <1>2, <3>2 DEF Serves, StartupInv, Dashboard, Late
      <4>2. Dir(q) # Dir(p) BY <1>2, <2>1, <3>2, <4>1 DEF StartupInv, Apart
      <4>3. Dir(q) \in Dirs BY <1>1, <4>1, RunningType
      <4> QED BY <1>8, <3>2, <4>2, <4>3 DEF StartupInv, Recorded
    <3> QED BY <1>6, <1>9, <2>1, <3>1, <3>2 DEF Recorded
  <2>2. CASE q = p
    <3>1. proc[p].kind = "start" /\ proc[p].port \in Port
          /\ (proc[p].pc \in {"listening", "serving"} => ports[proc[p].port] = p)
      BY <1>2 DEF StartupInv, Dashboard, Late
    <3> QED BY <1>2, <1>3, <1>5, <1>6, <1>7, <1>9, <2>2, <3>1 DEF Dashboard, Recorded
  <2> QED BY <2>1, <2>2
<1>12. ASSUME NEW q \in Procs, NEW r \in Procs PROVE Apart(q, r)'
  <2>1. \A x \in Procs : Running(x)' => Running(x) /\ Dir(x)' = Dir(x)
            /\ proc'[x].kind = proc[x].kind
    BY <1>2, <1>5, <1>6, <1>7
  <2> QED BY <1>9, <2>1 DEF StartupInv, Apart
<1>13. ASSUME NEW d \in Dirs \ unclean' PROVE Explained(d)'
  <2>1. CASE d = Dir(p) BY <1>8, <2>1 DEF Explained
  <2>2. CASE d # Dir(p)
    <3>1. \A q \in Procs : Dir(q) = d => q # p BY <2>2
    <3> QED BY <1>6, <1>7, <1>8, <1>9, <2>2, <3>1 DEF StartupInv, Explained
  <2> QED BY <2>1, <2>2
<1> QED BY <1>1, <1>3, <1>8, <1>10, <1>11, <1>12, <1>13, Rest DEF StartupInv, FileTypes

\* A process is over: by itself after a signal, or it is killed.
LEMMA EndKeeps == ASSUME StartupInv, NEW p \in Procs, Exit(p) \/ Crash(p) PROVE StartupInv'
<1>1. ProcessTypes /\ FileTypes BY DEF StartupInv
<1>2. Running(p) /\ proc[p] \in Process BY RunningType, <1>1 DEF Exit, Crash
<1>3. UNCHANGED <<initialized, starts, raced, reached>>
      /\ ports' = Freed(p) /\ proc' = [proc EXCEPT ![p] = Off]
  BY DEF Exit, Crash
<1>4. unclean \subseteq unclean' /\ (proc[p].stopping \/ Dir(p) \in unclean')
  BY DEF Exit, Crash
<1>5. /\ proc'[p] = Off
      /\ \A q \in Procs : q # p => /\ proc'[q] = proc[q]
                                   /\ Running(q)' <=> Running(q)
                                   /\ Dir(q)' = Dir(q)
                                   /\ Serves(q)' <=> Serves(q)
  BY <1>1, <1>3, OthersStay
<1>6. ~Running(p)' /\ ~Serves(p)' BY <1>5 DEF Running, Serves
<1>7. /\ \A q \in Procs, n \in Port : ports[n] = q /\ q # p => ports'[n] = q
      /\ ports' \in [Port -> Procs \cup {Nobody, Other}]
  BY <1>1, <1>3 DEF Freed, FileTypes
<1>12. Dir(p) \in Dirs BY <1>1, <1>2, RunningType
<1>13. /\ \A d \in Dirs \ unclean' : meta'[d] = meta[d]
       /\ meta' \in [Dirs -> Port \cup {NoPort, Unreadable}]
  BY <1>1, <1>12 DEF Exit, Crash, FileTypes
<1>14. \/ UNCHANGED <<projects, known>>
       \/ projects' = {} /\ known' = {}
  BY DEF Exit, Crash
<1>15. RegisteredStays' /\ CommandReachesItsProject' /\ FileTypes'
  BY <1>1, <1>3, <1>7, <1>13, <1>14
     DEF StartupInv, RegisteredStays, CommandReachesItsProject, FileTypes
<1>8. ProcessTypes' BY <1>1, <1>2, <1>3, <1>5 DEF ProcessTypes, Running
<1>9. ASSUME NEW q \in Procs PROVE Dashboard(q)' /\ Recorded(q)'
  <2>1. CASE q # p
    <3>1. Dashboard(q)' BY <1>3, <1>4, <1>5, <1>7, <2>1 DEF StartupInv, Dashboard, Late
    <3>2. Running(q) => Dir(q) \in Dirs BY <1>1, RunningType
    <3>3. Recorded(q)'
      BY <1>4, <1>5, <1>13, <2>1, <3>2 DEF StartupInv, Recorded, Serves
    <3> QED BY <3>1, <3>3
  <2>2. CASE q = p
    BY <1>5, <1>6, <2>2 DEF Dashboard, Recorded, Off, Late
  <2> QED BY <2>1, <2>2
<1>10. ASSUME NEW q \in Procs, NEW r \in Procs PROVE Apart(q, r)'
  <2>1. \A x \in Procs : Running(x)' => x # p BY <1>6
  <2> QED BY <1>4, <1>5, <2>1 DEF StartupInv, Apart
<1>11. ASSUME NEW d \in Dirs \ unclean' PROVE Explained(d)'
  <2>1. \A q \in Procs : Serves(q) /\ Dir(q) = d => q # p BY <1>4 DEF Serves
  <2> QED BY <1>4, <1>5, <1>13, <2>1 DEF StartupInv, Explained
<1> QED BY <1>8, <1>9, <1>10, <1>11, <1>15 DEF StartupInv

\* Another program takes a port that nobody has.
LEMMA OtherKeeps == ASSUME StartupInv, NEW n \in Port, OtherTakes(n) PROVE StartupInv'
<1>1. ProcessTypes /\ FileTypes BY DEF StartupInv
<1>2. UNCHANGED <<initialized, projects, meta, proc, starts, known, raced, unclean, reached>>
  BY DEF OtherTakes
<1>3. /\ \A q \in Procs, k \in Port : ports[k] = q => ports'[k] = q
      /\ ports' \in [Port -> Procs \cup {Nobody, Other}]
  <2>1. \A q \in Procs : q # Nobody BY DEF Procs, Nobody
  <2> QED BY <1>1, <2>1 DEF OtherTakes, FileTypes
<1>4. ProcessTypes' BY <1>1, <1>2 DEF ProcessTypes
<1>5. \A q \in Procs : /\ Running(q)' <=> Running(q)
                       /\ Dir(q)' = Dir(q)
                       /\ Serves(q)' <=> Serves(q)
  BY <1>2 DEF Running, Dir, Serves
<1>6. \A q \in Procs : Dashboard(q)' /\ Recorded(q)'
  BY <1>2, <1>3, <1>5 DEF StartupInv, Dashboard, Recorded, Late
<1>7. \A q, r \in Procs : Apart(q, r)' BY <1>2, <1>5 DEF StartupInv, Apart
<1>8. \A d \in Dirs \ unclean' : Explained(d)' BY <1>2, <1>5 DEF StartupInv, Explained
<1> QED BY <1>1, <1>2, <1>3, <1>4, <1>6, <1>7, <1>8, Rest DEF StartupInv, FileTypes

\* Every step keeps the invariant.
LEMMA StartupStep == ASSUME StartupInv, [StartupNext]_startupVars PROVE StartupInv'
<1>1. ASSUME NEW p \in Procs, NEW path \in Paths, NEW kind \in {"start", "init", "command"},
             Launch(p, path, kind)
      PROVE  StartupInv'
  BY <1>1, LaunchKeeps DEF Kinds
<1>2. ASSUME NEW p \in Procs,
             \/ LoadRegistry(p) \/ SaveRegistry(p) \/ Migrate(p) \/ Copy(p)
             \/ InitDone(p) \/ Command(p)
             \/ FindPort(p) \/ Listen(p) \/ WriteMetadata(p) \/ Shutdown(p) \/ Exit(p) \/ Crash(p)
      PROVE  StartupInv'
  BY <1>2, RegistrationKeeps, MigrateKeeps, CopyKeeps, CommandKeeps, PortKeeps, ListenKeeps,
     WriteKeeps, ShutdownKeeps, EndKeeps
<1>3. ASSUME NEW n \in Port, OtherTakes(n) PROVE StartupInv' BY <1>3, OtherKeeps
<1>4. CASE UNCHANGED startupVars
  <2>1. UNCHANGED <<initialized, projects, meta, ports, proc, starts, known, raced, unclean,
            reached>>
    BY <1>4 DEF startupVars
  <2>2. \A q \in Procs : /\ Running(q)' <=> Running(q)
                         /\ Dir(q)' = Dir(q)
                         /\ Serves(q)' <=> Serves(q)
    BY <2>1 DEF Running, Dir, Serves
  <2> QED
    BY <2>1, <2>2, Rest
       DEF StartupInv, ProcessTypes, FileTypes, Dashboard, Recorded, Apart, Explained
<1> QED BY <1>1, <1>2, <1>3, <1>4 DEF StartupNext

\* runtimeMetadata.ts, projectPersistence.ts: a registered project stays
\* registered unless two registrations overlapped or the file was cut off; of a
\* clean directory the metadata name the dashboard that serves it, or are those of
\* before the migration, and a command of its project reaches its dashboard; for
\* any number of workspaces, ports and processes, and any ports left by the past.
THEOREM StartupIsSound == StartupSpec => []StartupSafe
<1>1. StartupInit => StartupInv
  <2> SUFFICES ASSUME StartupInit PROVE StartupInv OBVIOUS
  <2>1. \A p \in Procs : proc[p] = Off /\ ~Running(p) /\ ~Serves(p)
    BY DEF StartupInit, Running, Serves
  <2>2. ProcessTypes /\ FileTypes BY DEF StartupInit, ProcessTypes, FileTypes, Off
  <2>3. \A p \in Procs : Dashboard(p) /\ Recorded(p)
    BY <2>1 DEF Dashboard, Recorded, Off, Late
  <2>4. \A p, q \in Procs : Apart(p, q) BY <2>1 DEF Apart
  <2>5. \A d \in Dirs \ unclean : Explained(d) BY DEF StartupInit, Explained
  <2> QED
    BY <2>2, <2>3, <2>4, <2>5 DEF StartupInv, StartupInit, RegisteredStays,
       CommandReachesItsProject, NoCommand
<1>2. StartupInv /\ [StartupNext]_startupVars => StartupInv' BY StartupStep
<1>3. StartupInv => StartupSafe
  <2> SUFFICES ASSUME StartupInv PROVE StartupSafe OBVIOUS
  <2>1. \A p \in Procs : Running(p) => proc[p] \in Process BY RunningType DEF StartupInv
  <2>2. StartupTypeOK BY <2>1 DEF StartupInv, FileTypes, StartupTypeOK, Process
  <2> QED BY <2>2, MetadataFollow DEF StartupSafe, StartupInv
<1> QED BY <1>1, <1>2, <1>3, PTL DEF StartupSpec

-----------------------------------------------------------------------------
(* AgentSession.                                                           *)

Words == {"boot", "prompt", "submit", "draft", "input"}

\* What was written to a process, told by position, and which timer has what to
\* write yet: the command, one prompt or draft, the submission of the prompt.
Told(p, timers) ==
    /\ p \in Seq(Words) /\ Len(p) >= 1 /\ p[1] = "boot"
    /\ timers \in {{}, {"prompt"}, {"draft"}, {"submit"}}
    /\ \A i \in 1..Len(p) : p[i] = "boot" => i = 1
    /\ \A i, j \in 1..Len(p) : p[i] \in {"prompt", "draft"} /\ p[j] \in {"prompt", "draft"} => i = j
    /\ \A i, j \in 1..Len(p) : p[i] = "submit" /\ p[j] = "submit" => i = j
    /\ \A j \in 1..Len(p) : p[j] = "submit" => \E i \in 1..Len(p) : p[i] = "prompt" /\ i < j
    /\ timers \cap {"prompt", "draft"} # {} =>
         \A i \in 1..Len(p) : p[i] \notin {"prompt", "draft"}
    /\ "submit" \in timers => /\ \E i \in 1..Len(p) : p[i] = "prompt"
                              /\ \A j \in 1..Len(p) : p[j] # "submit"

\* The metrics of a session account for the time until its state was entered.
Accounted(x) ==
    /\ x \in Accumulator
    /\ x.spent.idle + x.spent.processing = x.entered
    /\ x.entered <= clock

\* The deadline of a busy agent is not nearer than it has been quiet for.
Deadlined == agent.state = "processing" => agent.left + quiet >= IdleAfter

SessionInv ==
    agent # NoSession =>
        /\ agent \in Agent /\ agent.booted = TRUE
        /\ Told(pty, agent.timers)
        /\ agent.launch.how = "resume" => agent.launch.id \in conversations
        /\ agent.launch.how = "new" => agent.launch.id \in Ids
        /\ acc # NoAcc /\ Accounted(acc) /\ acc.current = agent.shown
        /\ transcript = "session_start"
        /\ Deadlined

AgentInv ==
    /\ record \in Record /\ agent \in Agent \cup {NoSession}
    /\ pty \in Seq(Words) /\ conversations \subseteq Ids
    /\ given \in [Ids -> 0..1]
    /\ transcript \in {"none", "session_start", "session_end"}
    /\ summary \in Summary \cup {NoSummary}
    /\ clock \in Times /\ quiet \in 0..IdleAfter
    /\ agent = NoSession => acc = NoAcc
    /\ summary # NoSummary => /\ summary.spent.idle + summary.spent.processing = summary.lasted
                              /\ transcript = "session_end"
    /\ SessionInv

-----------------------------------------------------------------------------
\* One more word that is typed, or pasted by the timer that waited to do so.
LEMMA ToldMore ==
    ASSUME NEW p, NEW timers, Told(p, timers)
    PROVE  /\ Told(Append(p, "input"), timers)
           /\ "prompt" \in timers
               => Told(Append(p, "prompt"), (timers \ {"prompt"}) \cup {"submit"})
           /\ "draft" \in timers => Told(Append(p, "draft"), timers \ {"draft"})
           /\ "submit" \in timers => Told(Append(p, "submit"), timers \ {"submit"})
<1> DEFINE n == Len(p)
<1>1. /\ p \in Seq(Words) /\ n \in Nat /\ n >= 1
      /\ \A w \in Words : /\ Append(p, w) \in Seq(Words) /\ Len(Append(p, w)) = n + 1
                          /\ Append(p, w)[n + 1] = w
                          /\ \A i \in 1..n : Append(p, w)[i] = p[i]
  BY DEF Told
<1>2. \A i \in 1..(n + 1) : i \in 1..n \/ i = n + 1 BY <1>1
<1>3. "input" \in Words /\ "prompt" \in Words /\ "draft" \in Words /\ "submit" \in Words
  BY DEF Words
<1>4. \A i \in 1..n : i \in 1..(n + 1) /\ i < n + 1 BY <1>1
<1>5. n + 1 \in 1..(n + 1) /\ n + 1 # 1 /\ 1 \in 1..n BY <1>1
<1>6. Told(Append(p, "input"), timers)
  <2> PICK q : q = Append(p, "input") OBVIOUS
  <2>1. /\ q \in Seq(Words) /\ Len(q) = n + 1 /\ q[n + 1] = "input"
        /\ \A i \in 1..n : q[i] = p[i]
    BY <1>1, <1>3
  <2> HIDE DEF n
  <2>2. Told(q, timers)
    BY <1>1, <1>2, <1>4, <1>5, <2>1 DEF Told
  <2> QED BY <2>2
<1>7. ASSUME "prompt" \in timers
      PROVE  Told(Append(p, "prompt"), (timers \ {"prompt"}) \cup {"submit"})
  <2> PICK q : q = Append(p, "prompt") OBVIOUS
  <2>1. /\ q \in Seq(Words) /\ Len(q) = n + 1 /\ q[n + 1] = "prompt"
        /\ \A i \in 1..n : q[i] = p[i]
    BY <1>1, <1>3
  <2>2. timers = {"prompt"} /\ (timers \ {"prompt"}) \cup {"submit"} = {"submit"}
    BY <1>7 DEF Told
  <2>3. \A i \in 1..n : p[i] \notin {"prompt", "draft", "submit"} BY <2>2 DEF Told
  <2> HIDE DEF n
  <2>4. Told(q, {"submit"})
    BY <1>1, <1>2, <1>4, <1>5, <2>1, <2>3 DEF Told
  <2> QED BY <2>2, <2>4
<1>8. ASSUME "draft" \in timers PROVE Told(Append(p, "draft"), timers \ {"draft"})
  <2> PICK q : q = Append(p, "draft") OBVIOUS
  <2>1. /\ q \in Seq(Words) /\ Len(q) = n + 1 /\ q[n + 1] = "draft"
        /\ \A i \in 1..n : q[i] = p[i]
    BY <1>1, <1>3
  <2>2. timers = {"draft"} /\ timers \ {"draft"} = {} BY <1>8 DEF Told
  <2>3. \A i \in 1..n : p[i] \notin {"prompt", "draft", "submit"} BY <2>2 DEF Told
  <2> HIDE DEF n
  <2>4. Told(q, {}) BY <1>1, <1>2, <1>4, <1>5, <2>1, <2>3 DEF Told
  <2> QED BY <2>2, <2>4
<1>9. ASSUME "submit" \in timers PROVE Told(Append(p, "submit"), timers \ {"submit"})
  <2> PICK q : q = Append(p, "submit") OBVIOUS
  <2>1. /\ q \in Seq(Words) /\ Len(q) = n + 1 /\ q[n + 1] = "submit"
        /\ \A i \in 1..n : q[i] = p[i]
    BY <1>1, <1>3
  <2>2. timers = {"submit"} /\ timers \ {"submit"} = {} BY <1>9 DEF Told
  <2>3. (\E i \in 1..n : p[i] = "prompt") /\ \A i \in 1..n : p[i] # "submit"
    BY <1>9 DEF Told
  <2> HIDE DEF n
  <2>4. Told(q, {}) BY <1>1, <1>2, <1>4, <1>5, <2>1, <2>3 DEF Told
  <2> QED BY <2>2, <2>4
<1> QED BY <1>6, <1>7, <1>8, <1>9

\* What the positions say of the numbers.
LEMMA ToldIsBriefed ==
    ASSUME NEW timers, Told(pty, timers)
    PROVE  LET Pos(w) == {i \in DOMAIN pty : pty[i] = w} IN
           /\ Pos("boot") = {1}
           /\ Cardinality(Pos("prompt") \cup Pos("draft")) <= 1
           /\ Cardinality(Pos("submit")) <= Cardinality(Pos("prompt"))
           /\ \A i \in Pos("prompt"), j \in Pos("submit") : i < j
           /\ "submit" \in timers => Pos("prompt") # {} /\ Pos("submit") = {}
<1> DEFINE Pos(w) == {i \in DOMAIN pty : pty[i] = w}
<1>1. DOMAIN pty = 1..Len(pty) /\ Len(pty) \in Nat BY DEF Told
<1>2. \A w : Pos(w) = {i \in 1..Len(pty) : pty[i] = w} BY <1>1
<1>3. \A S : (\A i, j \in S : i = j) => S = {} \/ \E i : S = {i}
  BY Zenon
<1>4. \A S : (\A i, j \in S : i = j) => Cardinality(S) = IF S = {} THEN 0 ELSE 1
  BY <1>3, FS_EmptySet, FS_Singleton
<1>5. Pos("boot") = {1} BY <1>1, <1>2 DEF Told
<1>6. \A i, j \in Pos("prompt") \cup Pos("draft") : i = j BY <1>1, <1>2 DEF Told
<1>7. \A i, j \in Pos("prompt") : i = j BY <1>6
<1>8. \A i, j \in Pos("submit") : i = j BY <1>1, <1>2 DEF Told
<1>9. \A j \in Pos("submit") : \E i \in Pos("prompt") : i < j BY <1>1, <1>2 DEF Told
<1>10. "submit" \in timers => Pos("prompt") # {} /\ Pos("submit") = {} BY <1>1, <1>2 DEF Told
<1>11. Cardinality(Pos("prompt") \cup Pos("draft")) <= 1 BY <1>4, <1>6
<1>12. Cardinality(Pos("submit")) <= Cardinality(Pos("prompt"))
  <2>1. Pos("prompt") = {} => Pos("submit") = {} BY <1>9
  <2> QED BY <1>4, <1>7, <1>8, <2>1
<1>13. \A i \in Pos("prompt"), j \in Pos("submit") : i < j BY <1>7, <1>9
<1> QED BY <1>5, <1>10, <1>11, <1>12, <1>13

-----------------------------------------------------------------------------
\* What the collector makes of a new state accounts for the time of the old one.
LEMMA ChangeAccounted ==
    ASSUME NEW x, Accounted(x), x # NoAcc, clock \in Times,
           NEW next \in {"idle", "processing"}
    PROVE  /\ Accounted(OnStateChange(x, next))
           /\ OnStateChange(x, next) # NoAcc
           /\ OnStateChange(x, next).current = next
<1>1. /\ x \in Accumulator /\ x.spent \in Spent /\ x.entered \in Times
      /\ x.spent.idle \in Times /\ x.spent.processing \in Times /\ x.events \in 0..MaxEvents
      /\ x.current \in {"idle", "processing"}
  BY DEF Accounted, Accumulator, Spent
<1>2. NoAcc \notin Accumulator BY DEF NoAcc, Accumulator
<1>3. CASE x.current = next
  BY <1>1, <1>3 DEF OnStateChange
<1>4. CASE x.current # next
  <2> DEFINE sp == [x.spent EXCEPT ![x.current] = @ + (clock - x.entered)]
             ev == IF x.events < MaxEvents THEN x.events + 1 ELSE x.events
  <2>1. OnStateChange(x, next)
          = [x EXCEPT !.spent = sp, !.current = next, !.entered = clock, !.events = ev]
    BY <1>1, <1>4 DEF OnStateChange, Logged, Accumulator
  <2>2. ev \in 0..MaxEvents BY <1>1, AgentAssumption
  <2>3. sp \in Spent /\ sp.idle + sp.processing = clock
    <3>1. x.spent.idle + x.spent.processing = x.entered /\ x.entered <= clock /\ clock \in Times
      BY DEF Accounted
    <3>2. MaxTime \in Nat BY AgentAssumption
    <3>3. CASE x.current = "idle"
      <4>1. sp = [idle |-> x.spent.idle + (clock - x.entered), processing |-> x.spent.processing]
        BY <1>1, <3>3 DEF Spent
      <4>2. x.spent.idle + (clock - x.entered) \in Times
        BY <1>1, <3>1, <3>2 DEF Times
      <4>3. x.spent.idle + (clock - x.entered) + x.spent.processing = clock
        BY <1>1, <3>1, <3>2 DEF Times
      <4> HIDE DEF sp
      <4> QED BY <1>1, <4>1, <4>2, <4>3 DEF Spent
    <3>4. CASE x.current = "processing"
      <4>1. sp = [idle |-> x.spent.idle, processing |-> x.spent.processing + (clock - x.entered)]
        BY <1>1, <3>4 DEF Spent
      <4>2. x.spent.processing + (clock - x.entered) \in Times
        BY <1>1, <3>1, <3>2 DEF Times
      <4>3. x.spent.idle + (x.spent.processing + (clock - x.entered)) = clock
        BY <1>1, <3>1, <3>2 DEF Times
      <4> HIDE DEF sp
      <4> QED BY <1>1, <4>1, <4>2, <4>3 DEF Spent
    <3> QED BY <1>1, <3>3, <3>4
  <2> PICK y : y = OnStateChange(x, next) OBVIOUS
  <2>4. y = [x EXCEPT !.spent = sp, !.current = next, !.entered = clock, !.events = ev]
    BY <2>1
  <2> HIDE DEF sp, ev
  <2>5. y \in Accumulator /\ y.spent = sp /\ y.entered = clock /\ y.current = next
    BY <1>1, <2>2, <2>3, <2>4 DEF Accumulator
  <2>6. clock <= clock BY DEF Times
  <2>7. Accounted(y) BY <2>3, <2>5, <2>6 DEF Accounted
  <2> QED BY <1>2, <2>5, <2>7
<1> QED BY <1>3, <1>4

\* What it finds in the output costs no time.
LEMMA OutputAccounted ==
    ASSUME NEW x, Accounted(x), x # NoAcc, NEW c
    PROVE  /\ Accounted(OnOutputChunk(x, c)) /\ OnOutputChunk(x, c) # NoAcc
           /\ OnOutputChunk(x, c).current = x.current
<1>1. x \in Accumulator /\ x.events \in 0..MaxEvents /\ x.tools \in SUBSET {"tool"}
  BY DEF Accounted, Accumulator
<1>2. CASE c \notin Finds \/ c \in x.tools BY <1>2 DEF OnOutputChunk
<1>3. CASE c \in Finds /\ c \notin x.tools
  <2> DEFINE ts == x.tools \cup ({c} \cap {"tool"})
             ev == IF x.events < MaxEvents THEN x.events + 1 ELSE x.events
  <2>1. OnOutputChunk(x, c) = [x EXCEPT !.tools = ts, !.events = ev]
    BY <1>1, <1>3 DEF OnOutputChunk, Logged, Accumulator
  <2>2. ev \in 0..MaxEvents /\ ts \in SUBSET {"tool"} BY <1>1, AgentAssumption
  <2> PICK y : y = OnOutputChunk(x, c) OBVIOUS
  <2>3. y = [x EXCEPT !.tools = ts, !.events = ev] BY <2>1
  <2> HIDE DEF ts, ev
  <2>4. y \in Accumulator /\ y.spent = x.spent /\ y.entered = x.entered /\ y.current = x.current
    BY <1>1, <2>2, <2>3 DEF Accumulator
  <2>5. NoAcc \notin Accumulator BY DEF NoAcc, Accumulator
  <2> QED BY <2>4, <2>5 DEF Accounted
<1> QED BY <1>2, <1>3

-----------------------------------------------------------------------------
\* An agent that is there is a record of the type.
LEMMA AgentThere ==
    ASSUME AgentInv, agent # NoSession
    PROVE  /\ agent \in Agent /\ agent.booted = TRUE /\ Told(pty, agent.timers)
           /\ acc # NoAcc /\ Accounted(acc) /\ acc.current = agent.shown
           /\ Deadlined
           /\ agent.state \in {"idle", "processing"} /\ agent.shown \in {"idle", "processing"}
           /\ agent.left \in 0..IdleAfter /\ NoSession \notin Agent
BY DEF AgentInv, SessionInv, Agent, NoSession

\* The new state is shown, and counted, when it differs from both.
LEMMA EmitKeeps ==
    ASSUME AgentInv, agent # NoSession, NEW a \in Agent, a.launch = agent.launch,
           a.booted = TRUE, a.timers = agent.timers, a.shown = agent.shown,
           NEW x, Accounted(x), x # NoAcc, x.current = agent.shown, Emit(a, x), clock' = clock
    PROVE  /\ agent' \in Agent /\ agent' # NoSession /\ agent'.launch = agent.launch
           /\ agent'.booted = TRUE /\ agent'.timers = agent.timers
           /\ agent'.state = a.state /\ agent'.left = a.left
           /\ acc' # NoAcc /\ Accounted(acc)' /\ acc'.current = agent'.shown
           /\ agent'.shown # agent.shown => /\ agent'.shown = agent'.state
                                            /\ agent'.state # agent.state
<1>1. NoSession \notin Agent /\ a.state \in {"idle", "processing"}
  BY AgentThere DEF Agent
<1>2. CASE a.state = agent.state \/ a.state = a.shown
  <2>1. agent' = a /\ acc' = x BY <1>2 DEF Emit
  <2> QED BY <1>1, <2>1 DEF Accounted
<1>3. CASE ~(a.state = agent.state \/ a.state = a.shown)
  <2>1. agent' = [a EXCEPT !.shown = a.state] /\ acc' = OnStateChange(x, a.state)
    BY <1>3 DEF Emit
  <2>2. /\ agent' \in Agent /\ agent'.launch = a.launch /\ agent'.booted = a.booted
        /\ agent'.timers = a.timers /\ agent'.state = a.state /\ agent'.left = a.left
        /\ agent'.shown = a.state
    BY <1>1, <2>1 DEF Agent
  <2>3. Accounted(acc') /\ acc' # NoAcc /\ acc'.current = a.state
    BY <1>1, <2>1, ChangeAccounted DEF AgentInv
  <2>4. Accounted(acc)' BY <2>3 DEF Accounted
  <2> QED BY <1>1, <1>3, <2>2, <2>3, <2>4
<1> QED BY <1>2, <1>3

\* What the tracker makes of a chunk: the deadline only moves back, to the whole delay.
LEMMA ChunkObserved ==
    ASSUME AgentInv, agent # NoSession, NEW c \in Chunks
    PROVE  LET a == ObserveChunk(agent, c) IN
           /\ a \in Agent /\ a.launch = agent.launch /\ a.booted = TRUE
           /\ a.timers = agent.timers /\ a.shown = agent.shown
           /\ agent.state = "processing" => a.state = "processing"
           /\ Visible(c) /\ a.state = "processing" => a.left = IdleAfter
           /\ ~Visible(c) => a.left = agent.left /\ a.state = agent.state
<1>1. agent \in Agent /\ agent.booted = TRUE /\ agent.head \in BOOLEAN
      /\ agent.left \in 0..IdleAfter /\ agent.state \in {"idle", "processing"}
  BY AgentThere DEF Agent
<1>2. IdleAfter \in 0..IdleAfter BY AgentAssumption
<1>3. CASE c = "escapes"
  BY <1>1, <1>3 DEF ObserveChunk, Visible
<1>4. CASE c # "escapes"
  <2> DEFINE hd == c = "head"
             lf == IF agent.state = "processing" /\ Visible(c) THEN IdleAfter ELSE agent.left
             carried == [agent EXCEPT !.head = hd, !.left = lf]
             busy == HasProcessingSignal(agent, c)
  <2>1. ObserveChunk(agent, c) = IF busy THEN EnterProcessing(carried) ELSE carried
    BY <1>4 DEF ObserveChunk
  <2>2. hd \in BOOLEAN /\ lf \in 0..IdleAfter BY <1>1, <1>2
  <2>3. ~Visible(c) => lf = agent.left OBVIOUS
  <2>4. Visible(c) /\ agent.state = "processing" => lf = IdleAfter OBVIOUS
  <2>5. busy => Visible(c) BY DEF HasProcessingSignal, Visible
  <2> HIDE DEF hd, lf
  <2>6. /\ carried \in Agent /\ carried.launch = agent.launch /\ carried.booted = TRUE
        /\ carried.timers = agent.timers /\ carried.shown = agent.shown
        /\ carried.state = agent.state /\ carried.left = lf
    BY <1>1, <2>2 DEF Agent
  <2> HIDE DEF carried, busy
  <2>7. CASE busy
    <3> PICK a : a = EnterProcessing(carried) OBVIOUS
    <3>1. /\ a \in Agent /\ a.launch = agent.launch /\ a.booted = TRUE
          /\ a.timers = agent.timers /\ a.shown = agent.shown
          /\ a.state = "processing" /\ a.left = IdleAfter
      BY <1>2, <2>6 DEF EnterProcessing, Agent
    <3> QED BY <2>1, <2>5, <2>7, <3>1
  <2>8. CASE ~busy BY <2>1, <2>3, <2>4, <2>6, <2>8
  <2> QED BY <2>7, <2>8
<1> QED BY <1>3, <1>4

\* Output and input: what is shown follows the tracker.
LEMMA AgentOutputKeeps ==
    ASSUME AgentInv, NEW c \in Chunks, Output(c)
    PROVE  AgentInv' /\ BusyUntilQuiet
<1>1. agent # NoSession BY DEF Output
<1> PICK a : a = ObserveChunk(agent, c) OBVIOUS
<1> PICK x : x = OnOutputChunk(acc, c) OBVIOUS
<1>2. /\ a \in Agent /\ a.launch = agent.launch /\ a.booted = TRUE
      /\ a.timers = agent.timers /\ a.shown = agent.shown
      /\ agent.state = "processing" => a.state = "processing"
      /\ Visible(c) /\ a.state = "processing" => a.left = IdleAfter
      /\ ~Visible(c) => a.left = agent.left /\ a.state = agent.state
  BY <1>1, ChunkObserved
<1>3. Accounted(x) /\ x # NoAcc /\ x.current = agent.shown
  BY <1>1, AgentThere, OutputAccounted
<1>4. /\ Emit(a, x) /\ quiet' = IF Visible(c) THEN 0 ELSE quiet
      /\ UNCHANGED <<record, pty, conversations, given, transcript, summary, clock>>
  BY DEF Output
<1>5. /\ agent' \in Agent /\ agent' # NoSession /\ agent'.launch = agent.launch
      /\ agent'.booted = TRUE /\ agent'.timers = agent.timers
      /\ agent'.state = a.state /\ agent'.left = a.left
      /\ acc' # NoAcc /\ Accounted(acc)' /\ acc'.current = agent'.shown
      /\ agent'.shown # agent.shown => /\ agent'.shown = agent'.state
                                       /\ agent'.state # agent.state
  BY <1>1, <1>2, <1>3, <1>4, EmitKeeps
<1>6. Deadlined'
  <2>1. CASE Visible(c)
    BY <1>2, <1>4, <1>5, <2>1, AgentAssumption DEF Deadlined
  <2>2. CASE ~Visible(c)
    BY <1>1, <1>2, <1>4, <1>5, <2>2, AgentThere DEF Deadlined
  <2> QED BY <2>1, <2>2
<1>7. quiet' \in 0..IdleAfter BY <1>4, AgentAssumption DEF AgentInv
<1>8. BusyUntilQuiet
  BY <1>1, <1>2, <1>5, AgentThere DEF BusyUntilQuiet
<1> QED BY <1>1, <1>4, <1>5, <1>6, <1>7, <1>8 DEF AgentInv, SessionInv

\* A poll shows an agent as idle only after the whole delay.
LEMMA PollKeeps == ASSUME AgentInv, Poll PROVE AgentInv' /\ BusyUntilQuiet
<1>1. agent # NoSession /\ PollState(agent) # agent BY DEF Poll
<1>2. agent.state = "processing" /\ agent.left = 0 BY <1>1 DEF PollState
<1> PICK a : a = [agent EXCEPT !.state = "idle"] OBVIOUS
<1>3. /\ a \in Agent /\ a.launch = agent.launch /\ a.booted = TRUE
      /\ a.timers = agent.timers /\ a.shown = agent.shown /\ a.state = "idle"
  BY <1>1, AgentThere DEF Agent
<1>4. /\ Emit(a, acc)
      /\ UNCHANGED <<record, pty, conversations, given, transcript, summary, clock, quiet>>
  BY <1>2 DEF Poll, PollState
<1>5. /\ agent' \in Agent /\ agent' # NoSession /\ agent'.launch = agent.launch
      /\ agent'.booted = TRUE /\ agent'.timers = agent.timers /\ agent'.state = "idle"
      /\ acc' # NoAcc /\ Accounted(acc)' /\ acc'.current = agent'.shown
  BY <1>1, <1>3, <1>4, EmitKeeps, AgentThere
<1>6. quiet = IdleAfter
  <2>1. Deadlined BY <1>1, AgentThere
  <2>2. quiet \in 0..IdleAfter BY DEF AgentInv
  <2> QED BY <1>2, <2>1, <2>2, AgentAssumption DEF Deadlined
<1> QED BY <1>1, <1>4, <1>5, <1>6 DEF AgentInv, SessionInv, Deadlined, BusyUntilQuiet

\* Words that are typed, and submitted.
LEMMA InputKeeps ==
    ASSUME AgentInv, NEW submits \in BOOLEAN, Input(submits) PROVE AgentInv' /\ BusyUntilQuiet
<1>1. /\ agent # NoSession /\ pty' = Append(pty, "input")
      /\ IF submits
         THEN Emit(EnterProcessing(agent), acc) /\ quiet' = 0
         ELSE UNCHANGED <<agent, acc, quiet>>
      /\ UNCHANGED <<record, conversations, given, transcript, summary, clock>>
  BY DEF Input
<1>2. Told(pty', agent.timers) BY <1>1, AgentThere, ToldMore
<1>3. pty' \in Seq(Words) BY <1>2 DEF Told
<1>4. CASE submits = TRUE
  <2> PICK a : a = EnterProcessing(agent) OBVIOUS
  <2>1. /\ a \in Agent /\ a.launch = agent.launch /\ a.booted = TRUE
        /\ a.timers = agent.timers /\ a.shown = agent.shown
        /\ a.state = "processing" /\ a.left = IdleAfter
    <3>1. IdleAfter \in 0..IdleAfter BY AgentAssumption
    <3>2. agent \in Agent /\ agent.booted = TRUE BY <1>1, AgentThere
    <3> QED BY <3>1, <3>2 DEF EnterProcessing, Agent
  <2>2. Emit(a, acc) /\ quiet' = 0 BY <1>1, <1>4
  <2>3. /\ agent' \in Agent /\ agent' # NoSession /\ agent'.launch = agent.launch
        /\ agent'.booted = TRUE /\ agent'.timers = agent.timers
        /\ agent'.state = "processing" /\ agent'.left = IdleAfter
        /\ acc' # NoAcc /\ Accounted(acc)' /\ acc'.current = agent'.shown
        /\ agent'.shown # agent.shown => agent'.shown = agent'.state
    BY <1>1, <2>1, <2>2, EmitKeeps, AgentThere
  <2>4. Deadlined' /\ quiet' \in 0..IdleAfter
    BY <2>2, <2>3, AgentAssumption DEF Deadlined
  <2>5. BusyUntilQuiet BY <2>3 DEF BusyUntilQuiet
  <2> QED BY <1>1, <1>2, <1>3, <2>3, <2>4, <2>5 DEF AgentInv, SessionInv
<1>5. CASE submits = FALSE
  <2>1. UNCHANGED <<agent, acc, quiet>> BY <1>1, <1>5
  <2>2. BusyUntilQuiet BY <2>1 DEF BusyUntilQuiet
  <2> QED
    BY <1>1, <1>2, <1>3, <2>1, <2>2 DEF AgentInv, SessionInv, Accounted, Deadlined
<1> QED BY <1>4, <1>5

\* A timer pastes or submits what it waited for.
LEMMA PromptKeeps ==
    ASSUME AgentInv, PastePrompt \/ SubmitPrompt \/ PasteDraft PROVE AgentInv' /\ BusyUntilQuiet
<1>1. PICK what \in {"prompt", "submit", "draft"}, after \in {{}, {"submit"}} :
        PromptTimer(what, after) /\ after = IF what = "prompt" THEN {"submit"} ELSE {}
  BY DEF PastePrompt, SubmitPrompt, PasteDraft
<1>2. /\ agent # NoSession /\ what \in agent.timers
      /\ pty' = Append(pty, what)
      /\ UNCHANGED <<record, conversations, given, transcript, acc, summary, clock, quiet>>
  BY <1>1 DEF PromptTimer
<1> PICK timers : timers = (agent.timers \ {what}) \cup after OBVIOUS
<1>3. agent' = [agent EXCEPT !.timers = timers] BY <1>1 DEF PromptTimer
<1>4. Told(pty', timers)
  <2>1. Told(pty, agent.timers) BY <1>2, AgentThere
  <2>2. CASE what = "prompt" BY <1>1, <1>2, <2>1, <2>2, ToldMore
  <2>3. CASE what # "prompt"
    <3>1. timers = agent.timers \ {what} BY <1>1, <2>3
    <3>2. CASE what = "draft"
      <4>1. Told(Append(pty, "draft"), agent.timers \ {"draft"})
        BY <1>2, <2>1, <3>2, ToldMore
      <4> QED BY <1>2, <3>1, <3>2, <4>1
    <3>3. CASE what = "submit"
      <4>1. Told(Append(pty, "submit"), agent.timers \ {"submit"})
        BY <1>2, <2>1, <3>3, ToldMore
      <4> QED BY <1>2, <3>1, <3>3, <4>1
    <3> QED BY <2>3, <3>2, <3>3
  <2> QED BY <2>2, <2>3
<1>5. pty' \in Seq(Words) /\ timers \in SUBSET {"prompt", "submit", "draft"} BY <1>4 DEF Told
<1>6. /\ agent' \in Agent /\ agent' # NoSession /\ agent'.launch = agent.launch
      /\ agent'.booted = TRUE /\ agent'.timers = timers /\ agent'.state = agent.state
      /\ agent'.left = agent.left /\ agent'.shown = agent.shown
  BY <1>2, <1>3, <1>5, AgentThere DEF Agent
<1>7. BusyUntilQuiet BY <1>6 DEF BusyUntilQuiet
<1> QED
  BY <1>2, <1>4, <1>5, <1>6, <1>7 DEF AgentInv, SessionInv, Accounted, Deadlined

\* Time passes.
LEMMA ClockKeeps == ASSUME AgentInv, ClockTick PROVE AgentInv' /\ BusyUntilQuiet
<1>1. /\ agent # NoSession
      /\ clock' = IF clock < MaxTime THEN clock + 1 ELSE clock
      /\ quiet' = IF quiet < IdleAfter THEN quiet + 1 ELSE quiet
      /\ UNCHANGED <<record, pty, conversations, given, transcript, acc, summary>>
  BY DEF ClockTick
<1> PICK left : left = IF agent.left > 0 THEN agent.left - 1 ELSE 0 OBVIOUS
<1>2. agent' = [agent EXCEPT !.left = left] BY DEF ClockTick
<1>3. clock \in 0..MaxTime /\ quiet \in 0..IdleAfter /\ agent.left \in 0..IdleAfter
  BY <1>1, AgentThere DEF AgentInv, Times
<1>4. left \in 0..IdleAfter /\ quiet' \in 0..IdleAfter /\ clock' \in 0..MaxTime /\ clock <= clock'
      /\ (agent.left + quiet >= IdleAfter => left + quiet' >= IdleAfter)
  BY <1>1, <1>3, AgentAssumption
<1>5. /\ agent' \in Agent /\ agent' # NoSession /\ agent'.launch = agent.launch
      /\ agent'.booted = TRUE /\ agent'.timers = agent.timers /\ agent'.state = agent.state
      /\ agent'.left = left /\ agent'.shown = agent.shown
  BY <1>1, <1>2, <1>4, AgentThere DEF Agent
<1>6. Accounted(acc)'
  <2>1. Accounted(acc) BY <1>1, AgentThere
  <2>2. acc.entered \in 0..MaxTime BY <2>1 DEF Accounted, Accumulator, Times
  <2> QED BY <1>1, <1>3, <1>4, <2>1, <2>2, AgentAssumption DEF Accounted
<1>7. Deadlined' BY <1>1, <1>4, <1>5, AgentThere DEF Deadlined
<1>8. BusyUntilQuiet BY <1>5 DEF BusyUntilQuiet
<1> QED BY <1>1, <1>4, <1>5, <1>6, <1>7, <1>8 DEF AgentInv, SessionInv, Times

\* The launch of a session: an id that was never given, or a conversation on disk.
LEMMA LaunchPlanned ==
    ASSUME AgentInv, HasFreshId
    PROVE  LET plan == PlanClaudeBootstrap IN
           /\ plan \in LaunchPlan
           /\ plan.how = "resume" => plan.id \in conversations
           /\ plan.how = "new" => plan.id \in Ids /\ given[plan.id] = 0
           /\ Planned(plan) \in Record
<1>1. record \in Record /\ record.claude \in Ids \cup {NoId} BY DEF AgentInv, Record
<1>2. FreshId \in Ids /\ given[FreshId] = 0 BY DEF HasFreshId, FreshId
<1> PICK plan : plan = PlanClaudeBootstrap OBVIOUS
<1>3. /\ plan \in LaunchPlan
      /\ plan.how = "resume" => plan.id \in conversations
      /\ plan.how = "new" => plan.id \in Ids /\ given[plan.id] = 0
  <2> HIDE DEF FreshId
  <2>1. \/ plan = [how |-> "plain", id |-> NoId]
        \/ plan = [how |-> "resume", id |-> record.claude] /\ record.claude \in conversations
        \/ plan = [how |-> "continue", id |-> NoId]
        \/ plan = [how |-> "new", id |-> FreshId]
    BY DEF PlanClaudeBootstrap
  <2> QED BY <1>1, <1>2, <2>1 DEF LaunchPlan
<1>4. Planned(plan) \in Record
  BY <1>1, <1>3 DEF Planned, Record
<1> QED BY <1>3, <1>4

\* A session starts with the command, and with nothing that was not new or saved.
LEMMA StartKeeps == ASSUME AgentInv, Start PROVE AgentInv' /\ BusyUntilQuiet
<1>1. agent = NoSession /\ HasFreshId BY DEF Start
<1> PICK plan : plan = PlanClaudeBootstrap OBVIOUS
<1> DEFINE new == [launch |-> plan, booted |-> FALSE, timers |-> {},
                   shown |-> "idle", state |-> "idle", left |-> 0, head |-> FALSE]
<1>2. /\ plan \in LaunchPlan
      /\ plan.how = "resume" => plan.id \in conversations
      /\ plan.how = "new" => plan.id \in Ids /\ given[plan.id] = 0
      /\ Planned(plan) \in Record
  BY <1>1, LaunchPlanned
<1>3. /\ record' = [Planned(plan) EXCEPT !.life = "running"]
      /\ given' = IF plan.how = "new" THEN [given EXCEPT ![plan.id] = @ + 1] ELSE given
      /\ agent' = Bootstrap(new)[1]
      /\ pty' = <<"boot">> /\ transcript' = "session_start" /\ summary' = NoSummary
      /\ acc' = [entered |-> 0, current |-> "idle", spent |-> [idle |-> 0, processing |-> 0],
                 tools |-> {}, events |-> 0]
      /\ clock' = 0 /\ quiet' = 0 /\ UNCHANGED conversations
  BY DEF Start
<1> PICK timers : timers = IF "prompt" \in record.brief THEN {"prompt"} ELSE record.brief
  OBVIOUS
<1>4. timers \in {{}, {"prompt"}, {"draft"}}
  <2>1. record.brief \in SUBSET {"prompt", "draft"} BY DEF AgentInv, Record
  <2> QED BY <2>1
<1>5. agent' = [launch |-> plan, booted |-> TRUE, timers |-> timers,
                shown |-> "idle", state |-> "idle", left |-> 0, head |-> FALSE]
  <2>1. new.booted = FALSE /\ new.timers = {} OBVIOUS
  <2>2. {} \cup timers = timers OBVIOUS
  <2> QED BY <1>3, <2>1, <2>2 DEF Bootstrap
<1>6. agent' \in Agent /\ agent' # NoSession
  <2>1. 0 \in 0..IdleAfter BY AgentAssumption
  <2>2. timers \in SUBSET {"prompt", "submit", "draft"} BY <1>4
  <2> QED BY <1>2, <1>5, <2>1, <2>2 DEF Agent, NoSession
<1>7. Told(pty', timers)
  <2> PICK p : p = <<"boot">> OBVIOUS
  <2>1. p \in Seq(Words) /\ Len(p) = 1 /\ p[1] = "boot" /\ \A i \in 1..1 : i = 1
    BY DEF Words
  <2>2. Told(p, timers) BY <1>4, <2>1 DEF Told
  <2> QED BY <1>3, <2>2
<1>8. Accounted(acc)' /\ acc' # NoAcc /\ acc'.current = "idle"
  <2>1. 0 \in Times /\ 0 \in 0..MaxEvents BY AgentAssumption DEF Times
  <2>2. [idle |-> 0, processing |-> 0] \in Spent BY <2>1 DEF Spent
  <2>3. acc' \in Accumulator BY <1>3, <2>1, <2>2 DEF Accumulator
  <2> QED BY <1>3, <2>3 DEF Accounted, NoAcc
<1>9. record' \in Record /\ given' \in [Ids -> 0..1]
  <2>1. record' \in Record BY <1>2, <1>3 DEF Record
  <2>2. given \in [Ids -> 0..1] BY DEF AgentInv
  <2> QED BY <1>2, <1>3, <2>1, <2>2
<1>10. SessionInv'
  <2>1. /\ agent'.booted = TRUE /\ agent'.timers = timers /\ agent'.launch = plan
        /\ agent'.state = "idle" /\ agent'.shown = "idle"
    BY <1>5
  <2>2. /\ plan.how = "resume" => plan.id \in conversations'
        /\ plan.how = "new" => plan.id \in Ids
    BY <1>2, <1>3
  <2>3. transcript' = "session_start" /\ Deadlined' BY <1>3, <2>1 DEF Deadlined
  <2> QED BY <1>6, <1>7, <1>8, <2>1, <2>2, <2>3 DEF SessionInv
<1>11. pty' \in Seq(Words) /\ clock' \in Times /\ quiet' \in 0..IdleAfter
  BY <1>3, <1>7, AgentAssumption DEF Told, Times
<1> QED BY <1>1, <1>3, <1>6, <1>9, <1>10, <1>11 DEF AgentInv, BusyUntilQuiet

\* A session ends: its time is summed up, or lost with the API.
LEMMA EndingKeeps ==
    ASSUME AgentInv,
           \/ ApiCrash
           \/ \E reason \in {"pty_exit", "operator_stop", "operator_kill", "session_close"},
                 exitCode \in {-1, 0, 1} : End(reason, exitCode)
    PROVE  AgentInv' /\ BusyUntilQuiet
<1>1. agent # NoSession /\ agent' = NoSession /\ acc' = NoAcc /\ UNCHANGED <<conversations, given>>
  BY DEF ApiCrash, End
<1>2. BusyUntilQuiet BY <1>1 DEF BusyUntilQuiet
<1>3. pty' \in Seq(Words) /\ clock' \in Times /\ quiet' \in 0..IdleAfter
  <2>1. pty' = <<>> /\ clock' = 0 /\ quiet' = 0 BY DEF ApiCrash, End, Forgotten
  <2> QED BY <2>1, AgentAssumption DEF Times
<1>4. SessionInv' BY <1>1 DEF SessionInv
<1>5. record \in Record BY DEF AgentInv
<1>6. CASE ApiCrash
  <2>1. record' \in Record BY <1>5, <1>6 DEF ApiCrash, Record
  <2> QED BY <1>1, <1>2, <1>3, <1>4, <1>6, <2>1 DEF AgentInv, ApiCrash
<1>7. ASSUME NEW reason \in {"pty_exit", "operator_stop", "operator_kill", "session_close"},
             NEW exitCode \in {-1, 0, 1}, End(reason, exitCode)
      PROVE  AgentInv'
  <2>1. record' \in Record BY <1>5, <1>7 DEF End, Record
  <2>2. Accounted(acc) /\ clock \in Times BY <1>1, AgentThere DEF AgentInv
  <2>3. acc \in Accumulator /\ acc.spent \in Spent /\ acc.entered \in Times
        /\ acc.spent.idle \in Times /\ acc.spent.processing \in Times
        /\ acc.current \in {"idle", "processing"}
    BY <2>2 DEF Accounted, Accumulator, Spent
  <2> PICK sp : sp = [acc.spent EXCEPT ![acc.current] = @ + (clock - acc.entered)] OBVIOUS
  <2>4. sp \in Spent /\ sp.idle + sp.processing = clock
    <3>1. acc.spent.idle + acc.spent.processing = acc.entered /\ acc.entered <= clock
      BY <2>2 DEF Accounted
    <3>2. MaxTime \in Nat BY AgentAssumption
    <3>3. CASE acc.current = "idle"
      <4>1. sp = [idle |-> acc.spent.idle + (clock - acc.entered),
                processing |-> acc.spent.processing]
        BY <2>3, <3>3 DEF Spent
      <4> PICK i : i = acc.spent.idle + (clock - acc.entered) OBVIOUS
      <4>2. i \in Times /\ i + acc.spent.processing = clock
        BY <2>2, <2>3, <3>1, <3>2 DEF Times
      <4> QED BY <2>3, <4>1, <4>2 DEF Spent
    <3>4. CASE acc.current = "processing"
      <4>1. sp = [idle |-> acc.spent.idle,
                processing |-> acc.spent.processing + (clock - acc.entered)]
        BY <2>3, <3>4 DEF Spent
      <4> PICK i : i = acc.spent.processing + (clock - acc.entered) OBVIOUS
      <4>2. i \in Times /\ acc.spent.idle + i = clock
        BY <2>2, <2>3, <3>1, <3>2 DEF Times
      <4> QED BY <2>3, <4>1, <4>2 DEF Spent
    <3> QED BY <2>3, <3>3, <3>4
  <2> PICK outcome : outcome = InferOutcome(reason, exitCode) OBVIOUS
  <2>5. outcome \in {"killed", "stopped", "success", "error", "unknown"} BY DEF InferOutcome
  <2>6. summary' = [lasted |-> clock, spent |-> sp, outcome |-> outcome]
        /\ transcript' = "session_end"
    BY <1>7 DEF End
  <2>7. summary' \in Summary BY <2>2, <2>4, <2>5, <2>6 DEF Summary
  <2> QED BY <1>1, <1>3, <1>4, <2>1, <2>4, <2>6, <2>7 DEF AgentInv
<1> QED BY <1>2, <1>6, <1>7

\* What changes no session: a launch that fails, an attachment, a conversation saved.
LEMMA QuietStepsKeep ==
    ASSUME AgentInv, SpawnThrows \/ Reattach \/ ClaudeSaves \/ UNCHANGED agentVars
    PROVE  AgentInv' /\ BusyUntilQuiet
<1>1. CASE SpawnThrows
  <2>1. agent = NoSession /\ HasFreshId
        /\ UNCHANGED <<agent, pty, conversations, transcript, acc, summary, clock, quiet>>
    BY <1>1 DEF SpawnThrows
  <2> PICK plan : plan = PlanClaudeBootstrap OBVIOUS
  <2>2. /\ plan.how = "new" => plan.id \in Ids /\ given[plan.id] = 0
        /\ Planned(plan) \in Record
    BY <2>1, LaunchPlanned
  <2>3. /\ record' = Planned(plan)
        /\ given' = IF plan.how = "new" THEN [given EXCEPT ![plan.id] = @ + 1] ELSE given
    BY <1>1 DEF SpawnThrows
  <2>4. given' \in [Ids -> 0..1]
    <3>1. given \in [Ids -> 0..1] BY DEF AgentInv
    <3> QED BY <2>2, <2>3, <3>1
  <2> QED BY <2>1, <2>2, <2>3, <2>4 DEF AgentInv, SessionInv, BusyUntilQuiet
<1>2. CASE Reattach
  <2>1. UNCHANGED agentVars
    <3>1. agent # NoSession BY <1>2 DEF Reattach
    <3>2. agent.booted = TRUE BY <3>1, AgentThere
    <3> QED BY <1>2, <3>2 DEF Reattach, Bootstrap, agentVars
  <2> QED
    BY <2>1 DEF agentVars, AgentInv, SessionInv, Accounted, Deadlined, BusyUntilQuiet
<1>3. CASE ClaudeSaves
  <2>1. /\ UNCHANGED <<record, agent, pty, given, transcript, acc, summary, clock, quiet>>
        /\ conversations \subseteq conversations' /\ agent # NoSession
        /\ conversations' = conversations \cup {agent.launch.id} /\ agent.launch.how = "new"
    BY <1>3 DEF ClaudeSaves
  <2>2. conversations' \subseteq Ids
    <3>1. agent.launch.id \in Ids BY <2>1 DEF AgentInv, SessionInv
    <3>2. conversations \subseteq Ids BY DEF AgentInv
    <3> QED BY <2>1, <3>1, <3>2
  <2> QED
    BY <2>1, <2>2 DEF AgentInv, SessionInv, Accounted, Deadlined, BusyUntilQuiet
<1>4. CASE UNCHANGED agentVars
  BY <1>4 DEF agentVars, AgentInv, SessionInv, Accounted, Deadlined, BusyUntilQuiet
<1> QED BY <1>1, <1>2, <1>3, <1>4

\* Every step keeps the invariant, and shows nobody as idle too early.
LEMMA AgentStep ==
    ASSUME AgentInv, [AgentNext]_agentVars PROVE AgentInv' /\ BusyUntilQuiet
<1>1. CASE \E submits \in BOOLEAN : Input(submits) BY <1>1, InputKeeps
<1>2. CASE \E c \in Chunks : Output(c) BY <1>2, AgentOutputKeeps
<1>3. CASE ~(\E submits \in BOOLEAN : Input(submits)) /\ ~(\E c \in Chunks : Output(c))
  <2>1. \/ Start \/ SpawnThrows \/ Reattach \/ PastePrompt \/ SubmitPrompt \/ PasteDraft
        \/ Poll \/ ClockTick \/ ClaudeSaves \/ ApiCrash \/ UNCHANGED agentVars
        \/ \E reason \in {"pty_exit", "operator_stop", "operator_kill", "session_close"},
              exitCode \in {-1, 0, 1} : End(reason, exitCode)
    BY <1>3 DEF AgentNext
  <2> QED
    BY <2>1, StartKeeps, QuietStepsKeep, PromptKeeps, PollKeeps, ClockKeeps, EndingKeeps
<1> QED BY <1>1, <1>2, <1>3

LEMMA AgentStart == AgentInit => AgentInv
<1> SUFFICES ASSUME AgentInit PROVE AgentInv OBVIOUS
<1>1. 1 \in Ids /\ 0 \in Times /\ 0 \in 0..IdleAfter BY AgentAssumption DEF Ids, Times
<1>2. record \in Record BY <1>1 DEF AgentInit, Record
<1>3. conversations \subseteq Ids BY <1>2 DEF AgentInit, Record
<1>4. given \in [Ids -> 0..1] BY DEF AgentInit
<1> QED BY <1>1, <1>2, <1>3, <1>4 DEF AgentInit, AgentInv, SessionInv

\* Briefing, conversations and accounts hold in every state of the invariant.
LEMMA AgentInvIsSafe == AgentInv => AgentSafe
<1> SUFFICES ASSUME AgentInv PROVE AgentSafe OBVIOUS
<1>1. AgentTypeOK
  <2>1. acc \in Accumulator \cup {NoAcc}
    BY AgentThere DEF AgentInv, Accounted
  <2>2. given \in [Ids -> Nat]
    <3>1. given \in [Ids -> 0..1] BY DEF AgentInv
    <3> QED BY <3>1
  <2> QED BY <2>1, <2>2 DEF AgentInv, AgentTypeOK, Words
<1>2. BriefedOnce
  BY AgentThere, ToldIsBriefed DEF BriefedOnce
<1>3. OwnConversation
  <2>1. given \in [Ids -> 0..1] BY DEF AgentInv
  <2>2. \A i \in Ids : given[i] <= 1 BY <2>1
  <2> QED BY <2>2 DEF OwnConversation, AgentInv, SessionInv
<1>4. SessionsAccounted
  <2>1. agent = NoSession <=> acc = NoAcc BY DEF AgentInv, SessionInv
  <2>2. agent # NoSession => /\ acc.current = agent.shown
                             /\ acc.spent.idle + acc.spent.processing = acc.entered
                             /\ transcript = "session_start"
    BY DEF AgentInv, SessionInv, Accounted
  <2> QED BY <2>1, <2>2 DEF SessionsAccounted, AgentInv
<1> QED BY <1>1, <1>2, <1>3, <1>4 DEF AgentSafe

\* An agent is briefed once and in order, its conversation is its own, and the
\* metrics account for every moment of its sessions, whoever finds the session
\* and whatever ends it.
THEOREM AgentIsSafe == AgentSpec => []AgentSafe
<1>1. AgentInv /\ [AgentNext]_agentVars => AgentInv' BY AgentStep
<1> QED BY <1>1, AgentStart, AgentInvIsSafe, PTL DEF AgentSpec

\* An agent that was shown as busy is shown as idle only after it was quiet for
\* the whole idle delay (BusyUntilQuiet, a part of StepsForward).
THEOREM BusyUntilItIsQuiet == AgentSpec => [][BusyUntilQuiet]_agentVars
<1>1. AgentInv /\ [AgentNext]_agentVars => AgentInv' /\ BusyUntilQuiet BY AgentStep
<1> QED BY <1>1, AgentStart, PTL DEF AgentSpec
=============================================================================
