------------------------- MODULE RegistryPersistence -------------------------
(***************************************************************************)
(* createTerminalRegistryPersistence: the debounced writer of the registry *)
(* file.  Documents are named by their position in the history of what was *)
(* handed over; 0 is the null of the code.                                 *)
(***************************************************************************)
EXTENDS Naturals, Sequences

CONSTANTS
    Docs,       \* serialized registries
    Loops,      \* write loops, each one run of the async function
    NoLoop,
    MaxPuts     \* bound: the length of the history

ASSUME PersistenceAssumption ==
    /\ NoLoop \notin Loops
    /\ MaxPuts \in Nat \ {0}   \* the loaded document is one

VARIABLES
    history,    \* the documents handed over since the last restart, and the loaded one
    pending,    \* pendingSerialized
    timer,      \* is the debounce timer armed?
    promise,    \* writeLoopPromise: the loop it belongs to
    writing,    \* writing[l]: the document l is writing
    persisted,  \* lastPersistedSerialized
    file,       \* the document in the registry file
    failed,     \* did the last write fail?
    closing,    \* "open", "flushing" or "closed": the state of close()
    awaited     \* what had been handed over when close() was called

vars == <<history, pending, timer, promise, writing, persisted, file, failed, closing, awaited>>

Positions == 0..MaxPuts

TypeOK ==
    /\ history \in Seq(Docs)
    /\ Len(history) \in 1..MaxPuts
    /\ pending \in Positions /\ persisted \in Positions /\ file \in Positions \ {0}
    /\ writing \in [Loops -> Positions]
    /\ timer \in BOOLEAN /\ failed \in BOOLEAN
    /\ promise \in Loops \cup {NoLoop}
    /\ closing \in {"open", "flushing", "closed"}
    /\ awaited \in Positions

Idle == [l \in Loops |-> 0]

Init ==
    /\ \E d \in Docs : history = <<d>>
    /\ pending = 0 /\ persisted = 0
    /\ timer = FALSE
    /\ promise = NoLoop
    /\ writing = Idle
    /\ file = 1
    /\ failed = FALSE
    /\ closing = "open" /\ awaited = 0

-----------------------------------------------------------------------------
Newest == Len(history)

\* d === the document at position i; null equals no document.
Is(i, d) == i # 0 /\ history[i] = d

\* Mutant: what is being written is not looked at.
SkippedDuringWrite(d) == Is(pending, d) \/ (pending = 0 /\ Is(persisted, d))

\* schedulePersist returns early: the document is pending already, or nothing is
\* on its way and the file has it.
Skipped(d) == Is(pending, d) \/ (pending = 0 /\ promise = NoLoop /\ Is(persisted, d))

\* A new write loop takes the pending document.
StartLoop ==
    \E l \in Loops :
        /\ writing[l] = 0
        /\ promise' = l
        /\ writing' = [writing EXCEPT ![l] = pending]
        /\ pending' = 0

\* Mutants: a second loop is started beside the first; none is ever started.
RunWriteLoopTwice ==
    IF pending # 0 THEN StartLoop ELSE UNCHANGED <<pending, promise, writing>>
RunWriteLoopNever == UNCHANGED <<pending, promise, writing>>

\* runWriteLoop, which leaves a running loop alone.
RunWriteLoop ==
    IF promise = NoLoop /\ pending # 0 THEN StartLoop ELSE UNCHANGED <<pending, promise, writing>>

\* The loop goes on with what has become pending meanwhile, or leaves.
NextRound(l) ==
    /\ writing' = [writing EXCEPT ![l] = pending]
    /\ pending' = 0

-----------------------------------------------------------------------------
\* schedulePersist.
SchedulePersist(d) ==
    /\ Len(history) < MaxPuts
    /\ history' = Append(history, d)
    /\ IF Skipped(d) THEN UNCHANGED <<pending, timer>>
                     ELSE pending' = Len(history') /\ timer' = TRUE
    /\ UNCHANGED <<promise, writing, persisted, file, failed, closing, awaited>>

\* The debounce timer fires.
DebounceFires ==
    /\ timer
    /\ timer' = FALSE
    /\ RunWriteLoop
    /\ UNCHANGED <<history, persisted, file, failed, closing, awaited>>

\* The rename is done: the file holds the document that l was writing.
WriteDone(l) ==
    /\ writing[l] # 0
    /\ file' = writing[l] /\ persisted' = writing[l]
    /\ failed' = FALSE
    /\ NextRound(l)
    /\ UNCHANGED <<history, timer, promise, closing, awaited>>

\* The write or the rename fails: a warning is logged, the document is dropped.
WriteFails(l) ==
    /\ writing[l] # 0
    /\ failed' = TRUE
    /\ NextRound(l)
    /\ UNCHANGED <<history, timer, promise, persisted, file, closing, awaited>>

\* Mutant: the finally handler does not look for a pending document.
LoopSettlesOnly(l) ==
    /\ promise = l /\ writing[l] = 0
    /\ closing' = IF closing = "flushing" THEN "closed" ELSE closing
    /\ promise' = NoLoop
    /\ UNCHANGED <<history, pending, writing, timer, persisted, file, failed, awaited>>

\* The finally handler of a loop that has left.  Since the loop's last look at
\* the pending document another continuation may have scheduled one: a new loop
\* is started for it, but close() waits for the old one only.
LoopSettles(l) ==
    /\ promise = l /\ writing[l] = 0
    /\ closing' = IF closing = "flushing" THEN "closed" ELSE closing
    /\ IF pending # 0 THEN StartLoop ELSE promise' = NoLoop /\ UNCHANGED <<pending, writing>>
    /\ UNCHANGED <<history, timer, persisted, file, failed, awaited>>

\* Mutant: the timer is cleared and the running loop is awaited, but no loop is
\* started for what was pending.
CloseWithoutFlush ==
    /\ closing = "open"
    /\ promise # NoLoop => writing[promise] # 0
    /\ awaited' = Newest
    /\ timer' = FALSE
    /\ closing' = IF promise = NoLoop THEN "closed" ELSE "flushing"
    /\ UNCHANGED <<history, pending, promise, writing, persisted, file, failed>>

\* close() is called, by the handler of a signal: never between the last look of
\* a loop and its finally handler, which follow each other without a turn of the
\* event loop.
Close ==
    /\ closing = "open"
    /\ promise # NoLoop => writing[promise] # 0
    /\ awaited' = Newest
    /\ timer' = FALSE
    /\ RunWriteLoop
    /\ closing' = IF promise' = NoLoop THEN "closed" ELSE "flushing"
    /\ UNCHANGED <<history, persisted, file, failed>>

\* The process ends, at any time, and the next one loads the file.
Restart ==
    /\ history' = SubSeq(history, 1, file)
    /\ pending' = 0 /\ persisted' = 0
    /\ timer' = FALSE
    /\ promise' = NoLoop
    /\ writing' = Idle
    /\ failed' = FALSE
    /\ closing' = "open" /\ awaited' = 0
    /\ UNCHANGED file

Next ==
    \/ \E d \in Docs : SchedulePersist(d)
    \/ DebounceFires
    \/ \E l \in Loops : WriteDone(l) \/ WriteFails(l) \/ LoopSettles(l)
    \/ Close
    \/ Restart

\* Timers fire, and a write that was started ends one way or the other.
Fairness ==
    /\ WF_vars(DebounceFires)
    /\ \A l \in Loops :
        /\ WF_vars(WriteDone(l) \/ WriteFails(l))
        /\ WF_vars(LoopSettles(l))

Spec == Init /\ [][Next]_vars /\ Fairness

-----------------------------------------------------------------------------
\* A document that is pending is never forgotten: a timer is armed for it, or a
\* loop is running whose end will pick it up.
NoStrandedDocument == pending # 0 => timer \/ promise # NoLoop

\* When the writer has come to rest the file holds what was handed over last,
\* unless the disk refused it: skipping equal documents never skips one that a
\* write on its way was about to replace.
RestingFileIsNewest ==
    pending = 0 /\ promise = NoLoop /\ ~failed => history[file] = history[Newest]

\* When close() has returned, the file is as new as the document that was
\* handed over when it was called, unless the disk refused it.
CloseFlushes ==
    closing = "closed" /\ ~failed =>
        file >= awaited \/ history[file] = history[awaited]

\* The writer of the registry: its types, and what close() promises.
RegistrySafe == TypeOK /\ CloseFlushes

\* The file moves forward through the history only, whatever is skipped, fails,
\* or is cut off by a crash: this writer is a durable register.
Register == INSTANCE DurableRegister WITH log <- history, durable <- file
WritesInOrder == Register!RegisterSpec

\* What was handed over last reaches the file, unless the disk refuses it or the
\* process ends, which forgets it; more documents put it off (see MaxPuts).
HandedOverIsWritten == []<>(failed \/ history[file] = history[Newest])
=============================================================================
