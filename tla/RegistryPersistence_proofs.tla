--------------------- MODULE RegistryPersistence_proofs ---------------------
(***************************************************************************)
(* Proofs about two files: RegistryPersistence implements DurableRegister, *)
(* for any documents and loops and a history of any length; the memo of    *)
(* MetricsStore is the content of its log, however long that grows, and    *)
(* the views of the page say of any log what is in it.  The views are      *)
(* folds, so their part starts with what holds of folds and of sequences.  *)
(***************************************************************************)
EXTENDS RegistryPersistence, MetricsStore, FiniteSetTheorems, WellFoundedInduction, TLAPS

-----------------------------------------------------------------------------
\* Documents advance in order: what is being written is newer than the file, and
\* what is pending is newer than both.  Only the loop of writeLoopPromise writes.
Shape ==
    /\ history \in Seq(Docs)
    /\ Len(history) \in Nat \ {0}
    /\ file \in 1..Len(history)
    /\ writing \in [Loops -> 0..Len(history)]
    /\ pending \in 0..Len(history)
    /\ promise \in Loops \cup {NoLoop}

WritesAhead == \A l \in Loops : writing[l] # 0 => promise = l /\ writing[l] > file

PendingAhead ==
    pending # 0 => pending > file /\ \A l \in Loops : pending > writing[l]

IInv == Shape /\ WritesAhead /\ PendingAhead /\ NoStrandedDocument

LEMMA StartLoopInv ==
  ASSUME IInv, PersistenceAssumption, StartLoop, pending # 0, UNCHANGED <<history, file>>,
         \A l \in Loops : writing[l] = 0
  PROVE  IInv'
  <1> PICK l \in Loops :
        /\ promise' = l
        /\ writing' = [writing EXCEPT ![l] = pending]
        /\ pending' = 0
    BY DEF StartLoop
  <1>1. Shape' BY DEF IInv, Shape
  <1>2. WritesAhead' BY DEF IInv, Shape, WritesAhead, PendingAhead
  <1>3. PendingAhead' BY DEF PendingAhead
  <1>4. NoStrandedDocument' BY DEF NoStrandedDocument
  <1> QED BY <1>1, <1>2, <1>3, <1>4 DEF IInv

LEMMA RunWriteLoopInv ==
  ASSUME IInv, PersistenceAssumption, RunWriteLoop, UNCHANGED <<history, file>>
  PROVE  IInv'
  <1>1. CASE promise = NoLoop /\ pending # 0
    <2>1. \A l \in Loops : writing[l] = 0
      BY <1>1 DEF IInv, WritesAhead, PersistenceAssumption
    <2> QED BY <1>1, <2>1, StartLoopInv DEF RunWriteLoop
  <1>2. CASE ~(promise = NoLoop /\ pending # 0)
    <2>1. UNCHANGED <<history, file, pending, promise, writing>> BY <1>2 DEF RunWriteLoop
    <2>2. NoStrandedDocument' BY <1>2, <2>1 DEF NoStrandedDocument
    <2> QED BY <2>1, <2>2 DEF IInv, Shape, WritesAhead, PendingAhead
  <1> QED BY <1>1, <1>2

LEMMA NextInv ==
  ASSUME IInv, [Next]_vars, PersistenceAssumption
  PROVE  IInv'
  <1>1. ASSUME NEW d \in Docs, SchedulePersist(d)
        PROVE  IInv'
    <2>1. /\ history' \in Seq(Docs) /\ Len(history') = Len(history) + 1
          /\ UNCHANGED <<file, writing, promise>>
      BY <1>1 DEF IInv, Shape, SchedulePersist
    <2>2. \/ UNCHANGED <<pending, timer>>
          \/ pending' = Len(history') /\ timer' = TRUE
      BY <1>1 DEF SchedulePersist
    <2>3. Shape' BY <2>1, <2>2 DEF IInv, Shape
    <2>4. WritesAhead' BY <2>1 DEF IInv, WritesAhead
    <2>5. PendingAhead' BY <2>1, <2>2 DEF IInv, Shape, PendingAhead
    <2>6. NoStrandedDocument' BY <2>1, <2>2 DEF IInv, NoStrandedDocument
    <2> QED BY <2>3, <2>4, <2>5, <2>6 DEF IInv
  <1>2. ASSUME DebounceFires
        PROVE  IInv'
    BY <1>2, RunWriteLoopInv DEF DebounceFires
  <1>3. ASSUME NEW l \in Loops, WriteDone(l) \/ WriteFails(l)
        PROVE  IInv'
    <2>1. /\ writing[l] # 0 /\ promise = l
          /\ \A m \in Loops \ {l} : writing[m] = 0
      BY <1>3 DEF IInv, WritesAhead, WriteDone, WriteFails
    <2>2. /\ file' \in {file, writing[l]}
          /\ writing' = [writing EXCEPT ![l] = pending] /\ pending' = 0
          /\ UNCHANGED <<history, timer, promise>>
      BY <1>3 DEF WriteDone, WriteFails, NextRound
    <2>3. Shape' BY <2>1, <2>2 DEF IInv, Shape
    <2>4. WritesAhead'
      BY <2>1, <2>2 DEF IInv, Shape, WritesAhead, PendingAhead
    <2>5. PendingAhead' BY <2>2 DEF PendingAhead
    <2>6. NoStrandedDocument' BY <2>2 DEF NoStrandedDocument
    <2> QED BY <2>3, <2>4, <2>5, <2>6 DEF IInv
  <1>4. ASSUME NEW l \in Loops, LoopSettles(l)
        PROVE  IInv'
    <2>1. /\ \A m \in Loops : writing[m] = 0
          /\ UNCHANGED <<history, file>>
      BY <1>4 DEF IInv, WritesAhead, LoopSettles
    <2>2. CASE pending # 0
      BY <1>4, <2>1, <2>2, StartLoopInv DEF LoopSettles
    <2>3. CASE pending = 0
      BY <1>4, <2>1, <2>3
      DEF LoopSettles, IInv, Shape, WritesAhead, PendingAhead, NoStrandedDocument
    <2> QED BY <2>2, <2>3
  <1>5. ASSUME Close
        PROVE  IInv'
    BY <1>5, RunWriteLoopInv DEF Close
  <1>6. ASSUME Restart
        PROVE  IInv'
    <2>1. /\ history' \in Seq(Docs) /\ Len(history') = file
          /\ file' = file /\ pending' = 0 /\ promise' = NoLoop
          /\ writing' = [l \in Loops |-> 0]
      BY <1>6 DEF IInv, Shape, Restart, Idle
    <2> QED
      BY <2>1 DEF IInv, Shape, WritesAhead, PendingAhead, NoStrandedDocument
  <1>7. CASE UNCHANGED vars
    BY <1>7 DEF vars, IInv, Shape, WritesAhead, PendingAhead, NoStrandedDocument
  <1> QED BY <1>1, <1>2, <1>3, <1>4, <1>5, <1>6, <1>7 DEF Next

LEMMA InitInv == Init => IInv
  BY DEF Init, Idle, IInv, Shape, WritesAhead, PendingAhead, NoStrandedDocument

-----------------------------------------------------------------------------
\* However schedules, timers, writes, failures, a close and crashes interleave, a
\* pending document always has a timer or a running loop that will take it.
THEOREM NothingIsStranded == Spec => []NoStrandedDocument
  <1>1. PersistenceAssumption BY PersistenceAssumption
  <1>2. IInv => NoStrandedDocument BY DEF IInv
  <1> QED BY <1>1, <1>2, InitInv, NextInv, PTL DEF Spec

\* Every step of the writer is a step of the register, or none.
LEMMA NextRefines ==
  ASSUME IInv, [Next]_vars, PersistenceAssumption
  PROVE  [Register!RegisterNext]_(Register!registerVars)
  <1> USE DEF Register!RegisterNext, Register!registerVars
  <1>1. ASSUME NEW d \in Docs, SchedulePersist(d)
        PROVE  Register!RegisterNext
    BY <1>1 DEF SchedulePersist, Register!Put
  <1>2. ASSUME NEW l \in Loops, WriteDone(l)
        PROVE  Register!RegisterNext
    <2>1. file' = writing[l] /\ writing[l] \in 1..Len(history) /\ writing[l] > file
      BY <1>2 DEF WriteDone, IInv, Shape, WritesAhead
    <2>2. DOMAIN history = 1..Len(history) BY DEF IInv, Shape
    <2> QED BY <1>2, <2>1, <2>2 DEF WriteDone, Register!Advance
  <1>3. ASSUME Restart
        PROVE  Register!RegisterNext
    BY <1>3 DEF Restart, Register!Forget
  <1>4. CASE UNCHANGED <<history, file>> BY <1>4
  <1> QED
    BY <1>1, <1>2, <1>3, <1>4
    DEF Next, DebounceFires, WriteFails, LoopSettles, Close, vars

\* The debounced writer is a durable register: the file never goes back to an
\* older document, and a crash costs only what was not written yet.
THEOREM WriterIsDurableRegister == Spec => WritesInOrder
  <1>1. PersistenceAssumption BY PersistenceAssumption
  <1>2. Init => Register!RegisterInit BY DEF Init, Register!RegisterInit
  <1> QED
    BY <1>1, <1>2, InitInv, NextInv, NextRefines, PTL
    DEF Spec, WritesInOrder, Register!RegisterSpec

-----------------------------------------------------------------------------
\* Where the document handed over last is to be found, if the disk took it.
Carrier ==
    IF pending # 0 THEN pending
    ELSE IF promise # NoLoop /\ writing[promise] # 0 THEN writing[promise] ELSE file

Carried ==
    /\ persisted \in {0, file}
    /\ history[Carrier] = history[Newest] \/ (Carrier = file /\ failed)

LEMMA StartLoopCarries ==
  ASSUME IInv, Carried, PersistenceAssumption, StartLoop, pending # 0,
         UNCHANGED <<history, file, failed, persisted>>
  PROVE  Carried'
  <1> PICK l \in Loops :
        /\ promise' = l
        /\ writing' = [writing EXCEPT ![l] = pending]
        /\ pending' = 0
    BY DEF StartLoop
  <1>1. writing'[l] = pending /\ l # NoLoop BY DEF IInv, Shape, PersistenceAssumption
  <1>2. Carrier' = Carrier BY <1>1 DEF Carrier
  <1> QED BY <1>2 DEF Carried, Newest

LEMMA RunWriteLoopCarries ==
  ASSUME IInv, Carried, PersistenceAssumption, RunWriteLoop,
         UNCHANGED <<history, file, failed, persisted>>
  PROVE  Carried'
  <1>1. CASE promise = NoLoop /\ pending # 0
    BY <1>1, StartLoopCarries DEF RunWriteLoop
  <1>2. CASE UNCHANGED <<pending, promise, writing>>
    BY <1>2 DEF Carried, Carrier, Newest
  <1> QED BY <1>1, <1>2 DEF RunWriteLoop

LEMMA NextCarries ==
  ASSUME IInv, Carried, [Next]_vars, PersistenceAssumption
  PROVE  Carried'
  <1>1. ASSUME NEW d \in Docs, SchedulePersist(d)
        PROVE  Carried'
    <2>1. /\ history' \in Seq(Docs) /\ Len(history') = Len(history) + 1
          /\ history'[Len(history')] = d
          /\ \A i \in 1..Len(history) : history'[i] = history[i]
      BY <1>1 DEF IInv, Shape, SchedulePersist
    <2>2. UNCHANGED <<file, writing, promise, persisted, failed>>
      BY <1>1 DEF SchedulePersist
    <2>3. CASE Skipped(d)
      <3>1. Carrier' = Carrier BY <1>1, <2>2, <2>3 DEF SchedulePersist, Carrier
      <3>2. Carrier \in 1..Len(history) /\ history[Carrier] = d
        BY <2>3 DEF Skipped, Is, Carrier, Carried, IInv, Shape
      <3> QED BY <2>1, <2>2, <3>1, <3>2 DEF Carried, Newest
    <2>4. CASE ~Skipped(d)
      <3>1. Carrier' = Len(history')
        BY <1>1, <2>1, <2>4 DEF SchedulePersist, Carrier, IInv, Shape
      <3> QED BY <2>2, <3>1 DEF Carried, Newest
    <2> QED BY <2>3, <2>4
  <1>2. ASSUME DebounceFires
        PROVE  Carried'
    BY <1>2, RunWriteLoopCarries DEF DebounceFires
  <1>3. ASSUME NEW l \in Loops, WriteDone(l) \/ WriteFails(l)
        PROVE  Carried'
    <2>1. /\ writing[l] # 0 /\ promise = l /\ l # NoLoop /\ writing[l] > file
          /\ pending # 0 => pending > file
      BY <1>3 DEF IInv, WritesAhead, PendingAhead, WriteDone, WriteFails, PersistenceAssumption
    <2>2. /\ writing'[l] = pending /\ pending' = 0 /\ promise' = l /\ history' = history
      BY <1>3, <2>1 DEF WriteDone, WriteFails, NextRound, IInv, Shape
    <2>3. history[Carrier] = history[Newest]
      BY <2>1 DEF Carried, Carrier, IInv, Shape
    <2>4. CASE pending # 0
      <3>1. Carrier' = Carrier BY <2>1, <2>2, <2>4 DEF Carrier
      <3> QED BY <1>3, <2>2, <2>3, <3>1 DEF Carried, Newest, WriteDone, WriteFails
    <2>5. CASE pending = 0
      <3>1. Carrier = writing[l] /\ Carrier' = file' BY <2>1, <2>2, <2>5 DEF Carrier
      <3> QED BY <1>3, <2>2, <2>3, <3>1 DEF Carried, Newest, WriteDone, WriteFails
    <2> QED BY <2>4, <2>5 DEF IInv, Shape
  <1>4. ASSUME NEW l \in Loops, LoopSettles(l)
        PROVE  Carried'
    <2>1. UNCHANGED <<history, file, failed, persisted>> BY <1>4 DEF LoopSettles
    <2>2. CASE pending # 0 BY <1>4, <2>1, <2>2, StartLoopCarries DEF LoopSettles
    <2>3. CASE pending = 0
      <3>1. promise' = NoLoop /\ pending' = 0 /\ writing[promise] = 0
        BY <1>4, <2>3 DEF LoopSettles
      <3>2. Carrier = file /\ Carrier' = file BY <2>1, <2>3, <3>1 DEF Carrier
      <3> QED BY <2>1, <3>2 DEF Carried, Newest
    <2> QED BY <2>2, <2>3
  <1>5. ASSUME Close
        PROVE  Carried'
    BY <1>5, RunWriteLoopCarries DEF Close
  <1>6. ASSUME Restart
        PROVE  Carried'
    <2>1. Len(history') = file /\ file' = file /\ Carrier' = file /\ persisted' = 0
      BY <1>6 DEF IInv, Shape, Restart, Carrier
    <2> QED BY <2>1 DEF Carried, Newest
  <1>7. CASE UNCHANGED vars BY <1>7 DEF vars, Carried, Carrier, Newest
  <1> QED BY <1>1, <1>2, <1>3, <1>4, <1>5, <1>6, <1>7 DEF Next

\* A writer at rest has written what was handed over last, unless the disk
\* refused it: comparing with the pending and the last persisted document never
\* skips one that the file does not have.
THEOREM RestMeansNewest == Spec => []RestingFileIsNewest
  <1>1. PersistenceAssumption BY PersistenceAssumption
  <1>2. Init => Carried BY DEF Init, Carried, Carrier, Newest
  <1>3. Carried => RestingFileIsNewest BY DEF Carried, Carrier, RestingFileIsNewest
  <1> QED BY <1>1, <1>2, <1>3, InitInv, NextInv, NextCarries, PTL DEF Spec

-----------------------------------------------------------------------------
\* The document at p is as new as what close() was called with.
Delivered(p) == p >= awaited \/ history[p] = history[awaited]

\* What is on its way when close() was called, or came later, is as new as what
\* had been handed over then; once the loop that close() waits for has made its
\* last round, so is the file, unless the disk refused it.
FlushInv ==
    /\ awaited \in 0..Len(history)
    /\ closing \in {"open", "flushing", "closed"}
    /\ closing = "flushing" => promise # NoLoop
    /\ closing # "open" /\ pending # 0 => Delivered(pending)
    /\ closing = "flushing" /\ writing[promise] # 0 => pending # 0 \/ Delivered(writing[promise])
    /\ closing = "flushing" /\ writing[promise] = 0 => failed \/ Delivered(file)
    /\ closing = "closed" =>
         /\ failed \/ Delivered(file)
         /\ \A l \in Loops : writing[l] # 0 => Delivered(writing[l])

LEMMA StartLoopFlushes ==
  ASSUME IInv, FlushInv, PersistenceAssumption, StartLoop, pending # 0,
         UNCHANGED <<history, file, failed, awaited>>, closing # "flushing",
         closing' = closing
  PROVE  FlushInv'
  <1> PICK l \in Loops :
        /\ promise' = l
        /\ writing' = [writing EXCEPT ![l] = pending]
        /\ pending' = 0
    BY DEF StartLoop
  <1>1. \A m \in Loops : writing'[m] = IF m = l THEN pending ELSE writing[m]
    BY DEF IInv, Shape
  <1> QED BY <1>1 DEF FlushInv, Delivered

LEMMA NextFlushes ==
  ASSUME IInv, Carried, FlushInv, [Next]_vars, PersistenceAssumption
  PROVE  FlushInv'
  <1>0. Len(history) \in Nat \ {0} /\ awaited \in Nat /\ file \in Nat /\ pending \in Nat
        /\ \A l \in Loops : writing[l] \in Nat
    BY DEF IInv, Shape, FlushInv
  <1>1. ASSUME NEW d \in Docs, SchedulePersist(d)
        PROVE  FlushInv'
    <2>1. /\ Len(history') = Len(history) + 1
          /\ \A i \in 1..Len(history) : history'[i] = history[i]
          /\ UNCHANGED <<promise, writing, file, failed, closing, awaited>>
      BY <1>1 DEF IInv, Shape, SchedulePersist
    <2>2. pending' = pending \/ pending' = Len(history') BY <1>1 DEF SchedulePersist
    <2>3. closing # "open" => awaited \in 0..Len(history) BY DEF FlushInv
    <2>4. \A p \in 1..Len(history) : awaited # 0 /\ Delivered(p) => Delivered(p)'
      BY <2>1, <2>3 DEF FlushInv, Delivered
    <2>5. \A p \in 1..Len(history) : awaited = 0 => Delivered(p)'
      BY <2>1 DEF Delivered
    <2>6. pending' = Len(history') => Delivered(pending)' BY <1>0, <2>1 DEF FlushInv, Delivered
    <2>7. \A p \in 1..Len(history) : Delivered(p) => Delivered(p)' BY <2>4, <2>5
    <2>8. /\ pending # 0 => pending \in 1..Len(history)
          /\ file \in 1..Len(history)
          /\ \A l \in Loops : writing[l] # 0 => writing[l] \in 1..Len(history)
      BY DEF IInv, Shape
    <2>9. closing' = "flushing" => promise' \in Loops /\ promise # NoLoop
      BY <2>1 DEF FlushInv, IInv, Shape
    <2>10. closing' # "open" /\ pending' # 0 => Delivered(pending)'
      <3>1. CASE pending' = pending
        <4>1. pending # 0 /\ Delivered(pending) => Delivered(pending)'
          BY <2>7, <2>8, <3>1 DEF Delivered
        <4> QED BY <2>1, <3>1, <4>1 DEF FlushInv
      <3> QED BY <2>2, <2>6, <3>1
    <2>11. \A l \in Loops : writing[l] # 0 /\ Delivered(writing[l]) => Delivered(writing[l])'
      BY <2>1, <2>7, <2>8 DEF Delivered
    <2>13. Delivered(file) => Delivered(file)'
      BY <2>1, <2>7, <2>8 DEF Delivered
    <2>12. pending # 0 => pending' # 0 BY <1>0, <2>1, <2>2
    <2> QED BY <1>0, <2>1, <2>8, <2>9, <2>10, <2>11, <2>12, <2>13 DEF FlushInv
  <1>2. ASSUME DebounceFires
        PROVE  FlushInv'
    <2>1. UNCHANGED <<history, file, failed, awaited, closing>> BY <1>2 DEF DebounceFires
    <2>2. CASE promise = NoLoop /\ pending # 0
      BY <1>2, <2>1, <2>2, StartLoopFlushes DEF DebounceFires, RunWriteLoop, FlushInv
    <2>3. CASE UNCHANGED <<pending, promise, writing>>
      BY <2>1, <2>3 DEF FlushInv, Delivered
    <2> QED BY <1>2, <2>2, <2>3 DEF DebounceFires, RunWriteLoop
  <1>3. ASSUME NEW l \in Loops, WriteDone(l) \/ WriteFails(l)
        PROVE  FlushInv'
    <2>1. /\ writing[l] # 0 /\ promise = l
          /\ \A m \in Loops \ {l} : writing[m] = 0
      BY <1>3 DEF IInv, WritesAhead, WriteDone, WriteFails
    <2>2. /\ writing'[l] = pending /\ \A m \in Loops \ {l} : writing'[m] = 0
          /\ pending' = 0
          /\ UNCHANGED <<history, timer, promise, closing, awaited>>
      BY <1>3, <2>1 DEF WriteDone, WriteFails, NextRound, IInv, Shape
    <2>3. failed' \/ file' = writing[l] BY <1>3 DEF WriteDone, WriteFails
    <2>4. \A p : Delivered(p)' <=> Delivered(p) BY <2>2 DEF Delivered
    <2>5. closing = "flushing" /\ pending = 0 => Delivered(writing[l])
      BY <2>1 DEF FlushInv
    <2>6. closing = "closed" => Delivered(writing[l]) BY <2>1 DEF FlushInv
    <2>7. closing # "open" /\ pending # 0 => Delivered(pending) BY DEF FlushInv
    <2>8. \A m \in Loops : writing'[m] # 0 => writing'[m] = pending BY <2>2
    <2> QED BY <2>1, <2>2, <2>3, <2>4, <2>5, <2>6, <2>7, <2>8 DEF FlushInv
  <1>4. ASSUME NEW l \in Loops, LoopSettles(l)
        PROVE  FlushInv'
    <2>1. /\ \A m \in Loops : writing[m] = 0
          /\ UNCHANGED <<history, file, failed, awaited>>
          /\ promise = l
      BY <1>4 DEF IInv, WritesAhead, LoopSettles
    <2>2. closing' # "open" => closing # "open" /\ closing' = "closed"
              /\ (failed \/ Delivered(file))
      BY <1>4, <2>1 DEF LoopSettles, FlushInv
    <2>3. \A p : Delivered(p)' <=> Delivered(p) BY <2>1 DEF Delivered
    <2>4. closing' \in {"open", "closed"} /\ awaited' \in 0..Len(history')
      BY <1>4, <2>1 DEF LoopSettles, FlushInv
    <2>5. CASE pending # 0
      <3> PICK m \in Loops :
            /\ writing' = [writing EXCEPT ![m] = pending]
            /\ pending' = 0
        BY <1>4, <2>5 DEF LoopSettles, StartLoop
      <3>1. \A k \in Loops : writing'[k] # 0 => writing'[k] = pending
        BY <2>1 DEF IInv, Shape
      <3>2. closing # "open" => Delivered(pending) BY <2>5 DEF FlushInv
      <3> QED BY <2>1, <2>2, <2>3, <2>4, <3>1, <3>2 DEF FlushInv
    <2>6. CASE pending = 0
      <3>1. UNCHANGED <<pending, writing>> BY <1>4, <2>6 DEF LoopSettles
      <3> QED BY <2>1, <2>2, <2>3, <2>4, <2>6, <3>1 DEF FlushInv
    <2> QED BY <2>5, <2>6
  <1>5. ASSUME Close
        PROVE  FlushInv'
    <2>1. /\ UNCHANGED <<history, file, failed>> /\ awaited' = Newest /\ RunWriteLoop
          /\ promise # NoLoop => writing[promise] # 0
          /\ closing' = IF promise' = NoLoop THEN "closed" ELSE "flushing"
      BY <1>5 DEF Close
    <2>2. history[Carrier] = history[Newest] \/ (Carrier = file /\ failed) BY DEF Carried
    <2>3. CASE promise = NoLoop /\ pending # 0
      <3> PICK l \in Loops :
            /\ promise' = l
            /\ writing' = [writing EXCEPT ![l] = pending]
            /\ pending' = 0
        BY <2>1, <2>3 DEF RunWriteLoop, StartLoop
      <3>1. writing'[l] = pending /\ l # NoLoop BY DEF IInv, Shape, PersistenceAssumption
      <3>2. pending # file /\ Carrier = pending BY <1>0, <2>3 DEF IInv, PendingAhead, Carrier
      <3> QED BY <1>0, <2>1, <2>2, <2>3, <3>1, <3>2 DEF FlushInv, Delivered, Newest
    <2>4. CASE promise = NoLoop /\ pending = 0
      <3>1. UNCHANGED <<pending, promise, writing>> /\ Carrier = file
        BY <2>1, <2>4 DEF RunWriteLoop, Carrier
      <3>2. \A l \in Loops : writing[l] = 0
        BY <2>4 DEF IInv, WritesAhead, PersistenceAssumption
      <3> QED BY <1>0, <2>1, <2>2, <2>4, <3>1, <3>2 DEF FlushInv, Delivered, Newest
    <2>5. CASE promise # NoLoop
      <3>1. UNCHANGED <<pending, promise, writing>> /\ promise \in Loops
        BY <2>1, <2>5 DEF RunWriteLoop, IInv, Shape
      <3>2. writing[promise] > file /\ (pending # 0 => pending > file)
        BY <2>1, <2>5, <3>1 DEF IInv, WritesAhead, PendingAhead
      <3>3. Carrier = IF pending # 0 THEN pending ELSE writing[promise]
        BY <2>1, <2>5 DEF Carrier
      <3>4. Carrier # file BY <1>0, <3>1, <3>2, <3>3
      <3> QED BY <1>0, <2>1, <2>2, <2>5, <3>1, <3>3, <3>4 DEF FlushInv, Delivered, Newest
    <2> QED BY <2>3, <2>4, <2>5
  <1>6. ASSUME Restart
        PROVE  FlushInv'
    <2>1. Len(history') \in Nat /\ closing' = "open" /\ awaited' = 0
      BY <1>6 DEF IInv, Shape, Restart
    <2> QED BY <2>1 DEF FlushInv
  <1>7. CASE UNCHANGED vars BY <1>7 DEF vars, FlushInv, Delivered
  <1> QED BY <1>1, <1>2, <1>3, <1>4, <1>5, <1>6, <1>7 DEF Next

LEMMA NextFlags ==
  ASSUME timer \in BOOLEAN /\ failed \in BOOLEAN, [Next]_vars
  PROVE  timer' \in BOOLEAN /\ failed' \in BOOLEAN
  BY Zenon
  DEF Next, SchedulePersist, DebounceFires, WriteDone, WriteFails, LoopSettles, Close, Restart, vars

LEMMA NextBounded ==
  ASSUME IInv, Len(history) <= MaxPuts, [Next]_vars, PersistenceAssumption
  PROVE  Len(history') <= MaxPuts
  <1>0. Len(history) \in Nat /\ MaxPuts \in Nat BY DEF IInv, Shape, PersistenceAssumption
  <1>1. ASSUME NEW d \in Docs, SchedulePersist(d)
        PROVE  Len(history') <= MaxPuts
    <2>1. Len(history') = Len(history) + 1 BY <1>1 DEF SchedulePersist, IInv, Shape
    <2> QED BY <1>0, <1>1, <2>1 DEF SchedulePersist
  <1>2. CASE Restart
    <2>1. Len(history') = file /\ file <= Len(history) /\ file \in Nat
      BY <1>2 DEF Restart, IInv, Shape
    <2> QED BY <1>0, <2>1
  <1>3. CASE UNCHANGED history BY <1>3
  <1> QED
    BY <1>1, <1>2, <1>3
    DEF Next, DebounceFires, WriteDone, WriteFails, LoopSettles, Close, vars

\* The debounced writer keeps its types, and close() keeps its promise: when it
\* has returned, the file is as new as what had been handed over when it was
\* called, or the disk refused it, whatever is scheduled while it waits and
\* whichever loop is running.
THEOREM CloseKeepsItsPromise == Spec => []RegistrySafe
  <1>1. PersistenceAssumption BY PersistenceAssumption
  <1>2. Init => Carried BY DEF Init, Carried, Carrier, Newest
  <1>3. Init => FlushInv BY DEF Init, FlushInv
  <1> DEFINE Rest == Len(history) <= MaxPuts /\ timer \in BOOLEAN /\ failed \in BOOLEAN
  <1>4. Init => Rest
    <2>1. Init => Len(history) = 1 BY DEF Init
    <2>2. MaxPuts >= 1 BY <1>1 DEF PersistenceAssumption
    <2>3. Init => timer \in BOOLEAN /\ failed \in BOOLEAN BY DEF Init
    <2> QED BY <2>1, <2>2, <2>3
  <1>5. ASSUME IInv, Carried, FlushInv, Rest PROVE RegistrySafe
    <2>1. Len(history) \in 1..MaxPuts
      BY <1>1, <1>5 DEF IInv, Shape, PersistenceAssumption
    <2>2. /\ pending \in Positions /\ file \in Positions \ {0} /\ awaited \in Positions
          /\ persisted \in Positions
      BY <1>1, <1>5, <2>1 DEF IInv, Shape, Carried, FlushInv, Positions, PersistenceAssumption
    <2>3. writing \in [Loops -> Positions]
      BY <1>1, <1>5, <2>1 DEF IInv, Shape, Positions, PersistenceAssumption
    <2>4. TypeOK
      BY <1>5, <2>1, <2>2, <2>3 DEF TypeOK, IInv, Shape, FlushInv
    <2> QED BY <1>5, <2>4 DEF RegistrySafe, CloseFlushes, FlushInv, Delivered
  <1>6. IInv /\ Rest /\ [Next]_vars => Rest' BY <1>1, NextFlags, NextBounded
  <1> QED
    BY <1>1, <1>2, <1>3, <1>4, <1>5, <1>6, InitInv, NextInv, NextCarries, NextFlushes, PTL
    DEF Spec

-----------------------------------------------------------------------------
(* MetricsStore.                                                           *)

Stat == [mtime : Nat, size : Nat]

\* The file grows with every line, so what was loaded before has another key.
MemoInv ==
    /\ log \in Seq(Runs) /\ Len(log) <= stat.size /\ torn \in BOOLEAN
    /\ stat \in Stat /\ stat.mtime <= stat.size /\ stat.size <= MaxWrites
    /\ cache.some \in BOOLEAN
    /\ cache.some = TRUE => /\ cache.key \in Stat /\ cache.key.size <= stat.size
                            /\ cache.key = stat => cache.runs = log

LEMMA LineGrowsFile ==
    ASSUME MemoInv, stat.size < MaxWrites, stat' \in Grown(stat)
    PROVE  /\ stat' \in Stat /\ stat'.mtime <= stat'.size /\ stat'.size <= MaxWrites
           /\ stat'.size = stat.size + 1
<1> PICK m \in Nat, n \in Nat : m = stat.mtime /\ n = stat.size BY DEF MemoInv, Stat
<1>1. m <= n /\ n < MaxWrites BY DEF MemoInv
<1>2. PICK o \in {m, m + 1} : stat' = [mtime |-> o, size |-> n + 1] BY DEF Grown
<1>3. o \in Nat /\ o <= n + 1 BY <1>1, <1>2
<1>4. n + 1 <= MaxWrites BY <1>1, MetricsAssumption
<1> QED BY <1>2, <1>3, <1>4 DEF Stat

LEMMA RunKeepsMemo ==
    ASSUME MemoInv, NEW run \in Runs, RunEnds(run) PROVE MemoInv'
<1> PICK n \in Nat, k \in Nat : n = stat.size /\ k = Len(log)
  <2>1. stat.size \in Nat /\ log \in Seq(Runs) BY DEF MemoInv, Stat
  <2>2. Len(log) \in Nat BY <2>1
  <2> QED BY <2>1, <2>2
<1>1. /\ stat' \in Stat /\ stat'.mtime <= stat'.size /\ stat'.size <= MaxWrites
      /\ stat'.size = n + 1
  BY LineGrowsFile DEF RunEnds
<1>2. log' \in Seq(Runs) /\ Len(log') <= n + 1
  <2>1. log \in Seq(Runs) /\ k <= n BY DEF MemoInv
  <2>2. Append(log, run) \in Seq(Runs) /\ Len(Append(log, run)) = k + 1 BY <2>1
  <2>3. log' = log \/ log' = Append(log, run) BY DEF RunEnds
  <2> QED BY <2>1, <2>2, <2>3
<1>3. cache' = cache /\ torn' = FALSE BY DEF RunEnds
<1>4. cache.some = TRUE => cache.key.size \in Nat /\ cache.key.size <= n
  BY DEF MemoInv, Stat
<1>5. cache.some = TRUE => cache.key # stat' /\ cache.key.size <= stat'.size
  BY <1>1, <1>4
<1> QED BY <1>1, <1>2, <1>3, <1>5 DEF MemoInv

LEMMA CrashKeepsMemo == ASSUME MemoInv, CrashWhileAppending PROVE MemoInv'
<1> PICK n \in Nat, k \in Nat : n = stat.size /\ k = Len(log)
  <2>1. stat.size \in Nat /\ log \in Seq(Runs) BY DEF MemoInv, Stat
  <2>2. Len(log) \in Nat BY <2>1
  <2> QED BY <2>1, <2>2
<1>1. /\ stat' \in Stat /\ stat'.mtime <= stat'.size /\ stat'.size <= MaxWrites
      /\ stat'.size = n + 1
  BY LineGrowsFile DEF CrashWhileAppending
<1>2. log' = log /\ torn' = TRUE /\ cache' = NoMemo BY DEF CrashWhileAppending
<1>3. log \in Seq(Runs) /\ k <= n BY DEF MemoInv
<1>4. Len(log') <= stat'.size BY <1>1, <1>2, <1>3
<1> QED BY <1>1, <1>2, <1>3, <1>4 DEF MemoInv, NoMemo

LEMMA ReadKeepsMemo == ASSUME MemoInv, Read PROVE MemoInv'
<1>1. cache' = Load /\ UNCHANGED <<log, torn, stat>> BY DEF Read
<1>2. CASE cache.some = TRUE /\ cache.key = stat
  <2>1. cache' = cache BY <1>1, <1>2 DEF Load, KeyOf
  <2> QED BY <1>1, <2>1 DEF MemoInv
<1>3. CASE ~(cache.some = TRUE /\ cache.key = stat)
  <2>1. cache.some \in BOOLEAN BY DEF MemoInv
  <2>2. cache' = [some |-> TRUE, key |-> stat, runs |-> log] BY <1>1, <1>3, <2>1 DEF Load, KeyOf
  <2>3. stat.size <= stat.size BY DEF MemoInv, Stat
  <2> QED BY <1>1, <2>2, <2>3 DEF MemoInv
<1> QED BY <1>2, <1>3

\* agentMetricsStore.ts, "any write to the log changes mtime/size and busts the
\* cache": whatever is appended within one tick of the clock, torn by a crash
\* and read in between, the memo that is used is the content of the log.
THEOREM MemoStaysCurrent == MetricsSpec => [](MetricsTypeOK /\ MemoIsCurrent)
<1>1. MetricsInit => MemoInv
  <2> SUFFICES ASSUME MetricsInit PROVE MemoInv OBVIOUS
  <2>1. PICK e : e = << >> OBVIOUS
  <2>2. e \in Seq(Runs) /\ Len(e) = 0 BY <2>1
  <2>3. log = e /\ torn = FALSE /\ stat = [mtime |-> 0, size |-> 0] /\ cache.some = FALSE
    BY <2>1 DEF MetricsInit, Absent, NoMemo
  <2>4. 0 <= MaxWrites BY MetricsAssumption
  <2>5. stat \in Stat /\ stat.mtime = 0 /\ stat.size = 0 BY <2>3 DEF Stat
  <2>6. log \in Seq(Runs) /\ Len(log) <= stat.size BY <2>2, <2>3, <2>5
  <2>7. cache.some \in BOOLEAN /\ cache.some # TRUE BY <2>3
  <2>8. torn \in BOOLEAN BY <2>3
  <2>9. stat.mtime <= stat.size /\ stat.size <= MaxWrites BY <2>4, <2>5
  <2> QED BY <2>5, <2>6, <2>7, <2>8, <2>9, Zenon DEF MemoInv
<1>2. MemoInv /\ [MetricsNext]_metricsVars => MemoInv'
  <2> SUFFICES ASSUME MemoInv, [MetricsNext]_metricsVars PROVE MemoInv' OBVIOUS
  <2>1. ASSUME NEW run \in Runs, RunEnds(run) PROVE MemoInv' BY <2>1, RunKeepsMemo
  <2>2. CASE UNCHANGED metricsVars BY <2>2 DEF metricsVars, MemoInv
  <2> QED BY <2>1, <2>2, CrashKeepsMemo, ReadKeepsMemo DEF MetricsNext
<1>3. MemoInv => MetricsTypeOK /\ MemoIsCurrent
  <2> SUFFICES ASSUME MemoInv PROVE MetricsTypeOK /\ MemoIsCurrent OBVIOUS
  <2>1. stat.mtime \in Nat /\ stat.size \in Nat /\ stat.mtime <= stat.size /\ stat.size <= MaxWrites
    BY DEF MemoInv, Stat
  <2>2. stat.mtime \in 0..MaxWrites BY <2>1, MetricsAssumption
  <2> QED BY <2>2 DEF MemoInv, MetricsTypeOK, MemoIsCurrent, KeyOf
<1> QED BY <1>1, <1>2, <1>3, PTL DEF MetricsSpec

-----------------------------------------------------------------------------
(* Folds.                                                                  *)

\* The least number of a set of numbers.
LEMMA LeastNat ==
    ASSUME NEW T \in SUBSET Nat, T # {} PROVE \E m \in T : \A k \in T : m <= k
<1>1. PICK m \in T : \A k \in T : <<k, m>> \notin OpToRel(<, Nat)
  BY NatLessThanWellFounded, WFMin
<1>2. \A k \in T : ~(k < m) BY <1>1 DEF OpToRel
<1> QED BY <1>2

\* c picks an element of each subset of S that has one.
Picks(c, S) == \A s \in SUBSET S : s # {} => c[s] \in s

\* G combines a value of V with an element of S.
Combines(G, V, S) == \A v \in V, x \in S : G[<<v, x>>] \in V

FoldsBy(it, G, base, c, S) ==
    \A s \in SUBSET S : it[s] = IF s = {} THEN base ELSE G[<<it[s \ {c[s]}], c[s]>>]

\* A fold is defined: there is a function of the subsets that folds them.
LEMMA FoldExists ==
    ASSUME NEW S, IsFiniteSet(S), NEW V, NEW base \in V,
           NEW c, Picks(c, S), NEW G, Combines(G, V, S)
    PROVE  \E it \in [SUBSET S -> V] : FoldsBy(it, G, base, c, S)
<1> DEFINE Upto(k) == {s \in SUBSET S : Cardinality(s) <= k}
           Folds(it, k) ==
               /\ it \in [Upto(k) -> V]
               /\ \A s \in Upto(k) :
                      it[s] = IF s = {} THEN base ELSE G[<<it[s \ {c[s]}], c[s]>>]
           Bad == {k \in Nat : ~\E it : Folds(it, k)}
<1>1. \A s \in SUBSET S : /\ IsFiniteSet(s) /\ Cardinality(s) \in Nat
                          /\ Cardinality(s) <= Cardinality(S)
  BY FS_Subset, FS_CardinalityType
<1>2. \A s \in SUBSET S : s # {} => /\ s \ {c[s]} \in SUBSET S
                                    /\ Cardinality(s \ {c[s]}) = Cardinality(s) - 1
                                    /\ c[s] \in S
  BY <1>1, FS_RemoveElement DEF Picks
<1>3. Bad = {}
  <2> SUFFICES ASSUME Bad # {} PROVE FALSE OBVIOUS
  <2>1. PICK m \in Bad : \A k \in Bad : m <= k BY LeastNat
  <2>2. CASE m = 0
    <3> DEFINE it == [s \in Upto(0) |-> base]
    <3>1. \A s \in Upto(0) : s = {} BY <1>1, FS_EmptySet
    <3>2. Folds(it, 0) BY <3>1
    <3> QED BY <2>2, <3>2
  <2>3. CASE m # 0
    <3>1. m - 1 \in Nat /\ m - 1 \notin Bad
      <4>1. m \in Nat BY <2>1
      <4>2. m - 1 \in Nat /\ ~(m <= m - 1) BY <2>3, <4>1
      <4> HIDE DEF Bad
      <4> QED BY <2>1, <4>2
    <3>2. PICK h : Folds(h, m - 1) BY <3>1
    <3> DEFINE it == [s \in Upto(m) |-> IF s = {} THEN base ELSE G[<<h[s \ {c[s]}], c[s]>>]]
    <3>3. \A s \in Upto(m) : s # {} => s \ {c[s]} \in Upto(m - 1) BY <1>1, <1>2, <2>1, <3>1
    <3>4. it \in [Upto(m) -> V] BY <1>2, <3>2, <3>3 DEF Combines
    <3>5. \A s \in Upto(m - 1) : s \in Upto(m) /\ it[s] = h[s] BY <1>1, <2>1, <3>1, <3>2
    <3>6. \A s \in Upto(m) : it[s] = IF s = {} THEN base ELSE G[<<it[s \ {c[s]}], c[s]>>]
      BY <3>3, <3>5
    <3> QED BY <2>1, <3>4, <3>6
  <2> QED BY <2>2, <2>3
<1>4. Cardinality(S) \in Nat BY FS_CardinalityType
<1>5. PICK it : Folds(it, Cardinality(S)) BY <1>3, <1>4
<1>6. Upto(Cardinality(S)) = SUBSET S BY <1>1
<1> QED BY <1>5, <1>6 DEF FoldsBy

\* Two of them agree, if they agree wherever they agree on what is folded before.
GoTogether(it, h, c, S) ==
    /\ it[{}] = h[{}]
    /\ \A s \in SUBSET S : s # {} /\ it[s \ {c[s]}] = h[s \ {c[s]}] => it[s] = h[s]

LEMMA FoldUnique ==
    ASSUME NEW S, IsFiniteSet(S), NEW c, Picks(c, S), NEW it, NEW h, GoTogether(it, h, c, S)
    PROVE  \A s \in SUBSET S : it[s] = h[s]
<1> DEFINE Bad == {k \in Nat : \E s \in SUBSET S : Cardinality(s) = k /\ it[s] # h[s]}
<1>1. \A s \in SUBSET S : IsFiniteSet(s) /\ Cardinality(s) \in Nat
  BY FS_Subset, FS_CardinalityType
<1>2. Bad = {}
  <2> SUFFICES ASSUME Bad # {} PROVE FALSE OBVIOUS
  <2>1. PICK m \in Bad : \A k \in Bad : m <= k BY LeastNat
  <2>2. PICK s \in SUBSET S : Cardinality(s) = m /\ it[s] # h[s] BY <2>1
  <2>3. s # {} BY <2>2 DEF GoTogether
  <2>4. s \ {c[s]} \in SUBSET S /\ Cardinality(s \ {c[s]}) = m - 1
    BY <1>1, <2>2, <2>3, FS_RemoveElement DEF Picks
  <2>5. m - 1 \in Nat /\ m - 1 \notin Bad BY <1>1, <2>1, <2>4
  <2>6. it[s \ {c[s]}] = h[s \ {c[s]}] BY <2>4, <2>5
  <2> QED BY <2>2, <2>3, <2>6 DEF GoTogether
<1> QED BY <1>1, <1>2

-----------------------------------------------------------------------------
\* The last position of a set of positions.
LEMMA MaxIsLast ==
    ASSUME NEW n \in Nat, NEW s \in SUBSET (1..n), s # {}
    PROVE  Max(s) \in s /\ \A y \in s : Max(s) >= y
<1> DEFINE Above == {k \in Nat : \A y \in s : y <= k}
<1>1. n \in Above OBVIOUS
<1>2. PICK m \in Above : \A k \in Above : m <= k BY <1>1, LeastNat
<1>3. m \in s
  <2> SUFFICES ASSUME m \notin s PROVE FALSE OBVIOUS
  <2>1. \A y \in s : y \in Nat /\ y <= m - 1 /\ y >= 1 BY <1>2
  <2>2. m \in Nat /\ \E y \in s : TRUE BY <1>2
  <2>3. m - 1 \in Nat /\ ~(m <= m - 1) BY <2>1, <2>2
  <2>4. m - 1 \in Above BY <2>1, <2>3
  <2> HIDE DEF Above
  <2> QED BY <1>2, <2>3, <2>4
<1>4. \E x \in s : \A y \in s : x >= y BY <1>2, <1>3
<1> QED BY <1>4 DEF Max

\* The fold of a sequence by a function of pairs.
Before(s) == s \ {Max(s)}

IsFoldFn(it, G, base, seq) ==
    it = [s \in SUBSET (DOMAIN seq) |->
            IF s = {} THEN base ELSE G[<<it[Before(s)], seq[Max(s)]>>]]

FoldFn(G, base, seq) == (CHOOSE it : IsFoldFn(it, G, base, seq))[DOMAIN seq]

\* What is built in the same way, from results that it is built for.
FollowsFold(it, G, base, V, seq) ==
    /\ it[{}] = base
    /\ \A s \in SUBSET (DOMAIN seq) : s # {} /\ it[Before(s)] \in V
           => it[s] = G[<<it[Before(s)], seq[Max(s)]>>]

LastOf(S) == [s \in SUBSET S |-> Max(s)]

LEMMA SeqPositions ==
    ASSUME NEW E, NEW seq \in Seq(E)
    PROVE  /\ DOMAIN seq = 1..Len(seq) /\ Len(seq) \in Nat
           /\ \A i \in DOMAIN seq : seq[i] \in E
           /\ IsFiniteSet(DOMAIN seq) /\ Picks(LastOf(DOMAIN seq), DOMAIN seq)
           /\ \A s \in SUBSET (DOMAIN seq) : s # {} => Max(s) \in DOMAIN seq
<1>1. DOMAIN seq = 1..Len(seq) /\ Len(seq) \in Nat /\ \A i \in DOMAIN seq : seq[i] \in E
  OBVIOUS
<1>2. \A s \in SUBSET (DOMAIN seq) : s # {} => Max(s) \in s BY <1>1, MaxIsLast
<1>3. IsFiniteSet(DOMAIN seq) BY <1>1, FS_Interval
<1>4. Picks(LastOf(DOMAIN seq), DOMAIN seq) BY <1>2 DEF Picks, LastOf
<1>5. \A s \in SUBSET (DOMAIN seq) : s # {} => Max(s) \in DOMAIN seq BY <1>2
<1> QED BY <1>1, <1>3, <1>4, <1>5

Foldable(seq, G, base, V, E) == base \in V /\ Combines(G, V, E) /\ seq \in Seq(E)

LEMMA FoldFnExists ==
    ASSUME NEW seq, NEW G, NEW base, NEW V, NEW E, Foldable(seq, G, base, V, E)
    PROVE  \E it \in [SUBSET (DOMAIN seq) -> V] : IsFoldFn(it, G, base, seq)
<1> USE DEF Foldable
<1> DEFINE D == DOMAIN seq
           F == [p \in V \X D |-> G[<<p[1], seq[p[2]]>>]]
<1>1. Combines(F, V, D) BY SeqPositions DEF Combines
<1> HIDE DEF F
<1>2. PICK it \in [SUBSET D -> V] : FoldsBy(it, F, base, LastOf(D), D)
  BY <1>1, SeqPositions, FoldExists
<1>3. \A s \in SUBSET D :
          it[s] = IF s = {} THEN base ELSE G[<<it[Before(s)], seq[Max(s)]>>]
  <2> TAKE s \in SUBSET D
  <2>1. s # {} => Max(s) \in D /\ it[s \ {Max(s)}] \in V BY SeqPositions
  <2>2. LastOf(D)[s] = Max(s) BY DEF LastOf
  <2> QED BY <1>2, <2>1, <2>2 DEF F, FoldsBy, Before
<1>4. it = [s \in SUBSET D |-> it[s]] OBVIOUS
<1>5. it = [s \in SUBSET D |->
              IF s = {} THEN base ELSE G[<<it[Before(s)], seq[Max(s)]>>]]
  BY <1>3, <1>4, Zenon
<1> QED BY <1>5 DEF IsFoldFn

LEMMA FoldFnFollows ==
    ASSUME NEW it, NEW V, NEW base, NEW G, NEW seq, IsFoldFn(it, G, base, seq)
    PROVE  FollowsFold(it, G, base, V, seq)
<1> DEFINE body(s) == IF s = {} THEN base ELSE G[<<it[Before(s)], seq[Max(s)]>>]
<1>1. it = [s \in SUBSET (DOMAIN seq) |-> body(s)] BY DEF IsFoldFn
<1>2. \A s \in SUBSET (DOMAIN seq) : it[s] = body(s)
  <2> HIDE DEF body
  <2> QED BY <1>1, Zenon
<1>3. {} \in SUBSET (DOMAIN seq) OBVIOUS
<1> QED BY <1>2, <1>3 DEF FollowsFold

LEMMA FollowersAgree ==
    ASSUME NEW seq, NEW G, NEW base, NEW V, NEW E, Foldable(seq, G, base, V, E),
           NEW h \in [SUBSET (DOMAIN seq) -> V], IsFoldFn(h, G, base, seq),
           NEW it, FollowsFold(it, G, base, V, seq)
    PROVE  it[DOMAIN seq] = h[DOMAIN seq]
<1> DEFINE D == DOMAIN seq
<1>1. FollowsFold(h, G, base, V, seq) BY FoldFnFollows
<1>2. it[{}] = h[{}] BY <1>1 DEF FollowsFold
<1>3. ASSUME NEW s \in SUBSET D, s # {}, it[s \ {LastOf(D)[s]}] = h[s \ {LastOf(D)[s]}]
      PROVE  it[s] = h[s]
  <2>1. LastOf(D)[s] = Max(s) BY DEF LastOf
  <2>2. Before(s) \in SUBSET D BY DEF Before
  <2>3. it[Before(s)] = h[Before(s)] BY <1>3, <2>1 DEF Before
  <2>4. h[Before(s)] \in V BY <2>2
  <2> QED BY <1>1, <1>3, <2>3, <2>4 DEF FollowsFold
<1>4. GoTogether(it, h, LastOf(D), D) BY <1>2, <1>3 DEF GoTogether
<1>5. seq \in Seq(E) BY DEF Foldable
<1>6. \A s \in SUBSET D : it[s] = h[s] BY <1>4, <1>5, SeqPositions, FoldUnique
<1> QED BY <1>6

LEMMA FoldFnIs ==
    ASSUME NEW seq, NEW G, NEW base, NEW V, NEW E, Foldable(seq, G, base, V, E),
           NEW it, FollowsFold(it, G, base, V, seq)
    PROVE  FoldFn(G, base, seq) = it[DOMAIN seq] /\ FoldFn(G, base, seq) \in V
<1>1. PICK h \in [SUBSET (DOMAIN seq) -> V] : IsFoldFn(h, G, base, seq) BY FoldFnExists
<1>2. PICK f : f = CHOOSE g : IsFoldFn(g, G, base, seq) OBVIOUS
<1>3. IsFoldFn(f, G, base, seq) /\ FoldFn(G, base, seq) = f[DOMAIN seq] BY <1>1, <1>2 DEF FoldFn
<1>4. FollowsFold(f, G, base, V, seq) BY <1>3, FoldFnFollows
<1>5. it[DOMAIN seq] = h[DOMAIN seq] BY <1>1, FollowersAgree
<1>6. f[DOMAIN seq] = h[DOMAIN seq] BY <1>1, <1>4, FollowersAgree
<1> QED BY <1>1, <1>3, <1>5, <1>6

LEMMA FoldFnType ==
    ASSUME NEW seq, NEW G, NEW base, NEW V, NEW E, Foldable(seq, G, base, V, E)
    PROVE  FoldFn(G, base, seq) \in V
<1>1. PICK h \in [SUBSET (DOMAIN seq) -> V] : IsFoldFn(h, G, base, seq) BY FoldFnExists
<1>2. FollowsFold(h, G, base, V, seq) BY <1>1, FoldFnFollows
<1> QED BY <1>2, FoldFnIs

\* The fold of the empty sequence, and of a longer one.
LEMMA FoldFnEmpty ==
    ASSUME NEW G, NEW base, NEW V, NEW E, Foldable(<<>>, G, base, V, E)
    PROVE  FoldFn(G, base, <<>>) = base
<1>1. PICK q : q = <<>> OBVIOUS
<1>2. q \in Seq(E) /\ DOMAIN q = {} /\ Foldable(q, G, base, V, E) BY <1>1
<1>3. PICK it : it = [s \in SUBSET (DOMAIN q) |-> base] OBVIOUS
<1>4. it[{}] = base /\ it[DOMAIN q] = base BY <1>2, <1>3
<1>5. FollowsFold(it, G, base, V, q) BY <1>2, <1>4 DEF FollowsFold
<1>6. FoldFn(G, base, q) = it[DOMAIN q] BY <1>2, <1>5, FoldFnIs
<1> QED BY <1>1, <1>4, <1>6

LEMMA Longer ==
    ASSUME NEW E, NEW seq \in Seq(E), NEW e \in E
    PROVE  /\ Append(seq, e) \in Seq(E) /\ Len(Append(seq, e)) = Len(seq) + 1
           /\ DOMAIN Append(seq, e) = 1..(Len(seq) + 1)
           /\ DOMAIN seq = 1..Len(seq) /\ Len(seq) \in Nat
           /\ Append(seq, e)[Len(seq) + 1] = e
           /\ \A i \in 1..Len(seq) : Append(seq, e)[i] = seq[i]
OBVIOUS

LEMMA FoldFnAppend ==
    ASSUME NEW seq, NEW G, NEW base, NEW V, NEW E, Foldable(seq, G, base, V, E), NEW e \in E
    PROVE  FoldFn(G, base, Append(seq, e)) = G[<<FoldFn(G, base, seq), e>>]
<1>1. PICK n : n = Len(seq) OBVIOUS
<1>2. PICK long : long = Append(seq, e) OBVIOUS
<1>3. /\ long \in Seq(E) /\ DOMAIN long = 1..(n + 1) /\ DOMAIN seq = 1..n /\ n \in Nat
      /\ long[n + 1] = e /\ \A i \in 1..n : long[i] = seq[i]
  BY <1>1, <1>2, Longer DEF Foldable
<1>4. Foldable(long, G, base, V, E) BY <1>3 DEF Foldable
<1>5. PICK g \in [SUBSET (DOMAIN long) -> V] : IsFoldFn(g, G, base, long)
  BY <1>4, FoldFnExists
<1>6. FollowsFold(g, G, base, V, long) BY <1>5, FoldFnFollows
<1>7. FoldFn(G, base, long) = g[1..(n + 1)] BY <1>3, <1>4, <1>6, FoldFnIs
<1>8. FollowsFold(g, G, base, V, seq)
  <2>1. ASSUME NEW s \in SUBSET (DOMAIN seq), s # {}, g[Before(s)] \in V
        PROVE  g[s] = G[<<g[Before(s)], seq[Max(s)]>>]
    <3>1. Max(s) \in 1..n BY <1>3, <2>1, SeqPositions DEF Foldable
    <3>2. s \in SUBSET (DOMAIN long) BY <1>3
    <3>3. g[s] = G[<<g[Before(s)], long[Max(s)]>>] BY <1>6, <2>1, <3>2 DEF FollowsFold
    <3> QED BY <1>3, <3>1, <3>3
  <2> QED BY <1>6, <2>1 DEF FollowsFold
<1>9. FoldFn(G, base, seq) = g[1..n] BY <1>3, <1>8, FoldFnIs
<1>10. n + 1 \in Nat /\ n + 1 \in 1..(n + 1) BY <1>3
<1>11. Max(1..(n + 1)) = n + 1
  <2>1. /\ Max(1..(n + 1)) \in 1..(n + 1)
        /\ \A y \in 1..(n + 1) : Max(1..(n + 1)) >= y
    BY <1>10, MaxIsLast
  <2> QED BY <1>10, <2>1
<1>12. Before(1..(n + 1)) = 1..n BY <1>3, <1>11 DEF Before
<1>13. g[1..n] \in V BY <1>3, <1>5
<1>14. g[1..(n + 1)] = G[<<g[1..n], e>>]
  <2>1. 1..(n + 1) # {} /\ 1..(n + 1) \in SUBSET (DOMAIN long) BY <1>3, <1>10
  <2> QED BY <1>3, <1>6, <1>11, <1>12, <1>13, <2>1 DEF FollowsFold
<1> QED BY <1>2, <1>7, <1>9, <1>14

-----------------------------------------------------------------------------
(* The folds of the views.                                                 *)

Counts == [runs : Nat, success : Nat, error : Nat, lasted : Int]
CountFn == [p \in Counts \X Runs |-> Counted(p[1], p[2])]

LEMMA CountFolds ==
    ASSUME NEW runs \in Seq(Runs) PROVE Foldable(runs, CountFn, NoStats, Counts, Runs)
<1>1. \A stats \in Counts, run \in Runs : Counted(stats, run) \in Counts
  <2> TAKE stats \in Counts, run \in Runs
  <2>1. run.end - run.start \in Int BY MetricsAssumption DEF Runs, Stamps
  <2> QED BY <2>1 DEF Counts, Counted
<1>2. NoStats \in Counts BY DEF NoStats, Counts
<1> QED BY <1>1, <1>2 DEF Combines, CountFn, Foldable

LEMMA AggregateIsFold ==
    ASSUME NEW runs \in Seq(Runs) PROVE ReadAggregate(runs) = FoldFn(CountFn, NoStats, runs)
<1> DEFINE D == DOMAIN runs
           body(it, s) == IF s = {} THEN NoStats ELSE Counted(it[s \ {Max(s)}], runs[Max(s)])
           Fits(it) == it = [s \in SUBSET D |-> body(it, s)]
<1>1. ReadAggregate(runs) = (CHOOSE it : Fits(it))[D]
  BY Zenon DEF ReadAggregate, FoldLeft, MapThenFoldSet
<1>2. PICK h \in [SUBSET D -> Counts] : IsFoldFn(h, CountFn, NoStats, runs)
  BY CountFolds, FoldFnExists
<1>3. FollowsFold(h, CountFn, NoStats, Counts, runs) BY <1>2, FoldFnFollows
<1>4. ASSUME NEW it, NEW s \in SUBSET D, s # {}, it[Before(s)] \in Counts
      PROVE  body(it, s) = CountFn[<<it[Before(s)], runs[Max(s)]>>]
  BY <1>4, SeqPositions DEF CountFn, Before
<1>5. \A it : body(it, {}) = NoStats OBVIOUS
<1> HIDE DEF body
<1>6. \A s \in SUBSET D : h[s] = body(h, s)
  <2>1. \A s \in SUBSET D : h[Before(s)] \in Counts BY DEF Before
  <2> QED BY <1>3, <1>4, <1>5, <2>1 DEF FollowsFold
<1>7. Fits(h) BY <1>6
<1>8. PICK it : Fits(it) /\ ReadAggregate(runs) = it[D]
  <2> HIDE DEF Fits
  <2> QED BY <1>1, <1>7
<1>9. \A s \in SUBSET D : it[s] = body(it, s) BY <1>8, Zenon
<1>10. FollowsFold(it, CountFn, NoStats, Counts, runs) BY <1>4, <1>5, <1>9 DEF FollowsFold
<1> QED BY <1>8, <1>10, CountFolds, FoldFnIs

Row == [outcome : Outcomes, latest : Stamps, start : Stamps, end : Stamps, lasted : Int]
Rows == UNION {[T -> Row] : T \in SUBSET LogTerminals}
RowsFn == [p \in Rows \X Runs |-> WithRun(p[1], p[2])]

LEMMA WithRunIs ==
    ASSUME NEW rows \in Rows, NEW run \in Runs
    PROVE  /\ WithRun(rows, run) \in Rows
           /\ DOMAIN WithRun(rows, run) = DOMAIN rows \cup {run.terminal}
           /\ WithRun(rows, run)[run.terminal] =
                  IF run.terminal \in DOMAIN rows
                  THEN Merged(rows[run.terminal], run) ELSE RowOf(run)
           /\ \A t \in DOMAIN rows \ {run.terminal} : WithRun(rows, run)[t] = rows[t]
<1> DEFINE u == run.terminal
<1>1. PICK T \in SUBSET LogTerminals : rows \in [T -> Row] BY DEF Rows
<1>2. u \in LogTerminals BY DEF Runs
<1>3. run.end - run.start \in Int BY MetricsAssumption DEF Runs, Stamps
<1>4. RowOf(run) \in Row BY <1>3 DEF RowOf, Row, Runs
<1>5. u \in T => Merged(rows[u], run) \in Row
  <2> SUFFICES ASSUME u \in T PROVE Merged(rows[u], run) \in Row OBVIOUS
  <2>1. rows[u] \in Row BY <1>1
  <2> QED BY <1>3, <2>1 DEF Merged, LatestOf, Row, Runs
<1>6. WithRun(rows, run) = [t \in T \cup {u} |->
          IF t # u THEN rows[t] ELSE IF t \in T THEN Merged(rows[t], run) ELSE RowOf(run)]
  BY <1>1 DEF WithRun
<1>7. WithRun(rows, run) \in [T \cup {u} -> Row] BY <1>1, <1>4, <1>5, <1>6
<1>8. T \cup {u} \in SUBSET LogTerminals BY <1>2
<1> QED BY <1>1, <1>6, <1>7, <1>8 DEF Rows

LEMMA RowsFolds ==
    ASSUME NEW runs \in Seq(Runs) PROVE Foldable(runs, RowsFn, <<>>, Rows, Runs)
<1>1. PICK e : e = <<>> OBVIOUS
<1>2. e \in [{} -> Row] BY <1>1
<1>3. e \in Rows BY <1>2 DEF Rows
<1>4. \A rows \in Rows, run \in Runs : RowsFn[<<rows, run>>] \in Rows
  BY WithRunIs DEF RowsFn
<1> QED BY <1>1, <1>3, <1>4 DEF Combines, Foldable

LEMMA RowsAreFold ==
    ASSUME NEW runs \in Seq(Runs) PROVE AggregateByTerminal(runs) = FoldFn(RowsFn, <<>>, runs)
<1> DEFINE D == DOMAIN runs
           body(it, s) == IF s = {} THEN <<>> ELSE WithRun(it[s \ {Max(s)}], runs[Max(s)])
           Fits(it) == it = [s \in SUBSET D |-> body(it, s)]
<1>1. AggregateByTerminal(runs) = (CHOOSE it : Fits(it))[D]
  BY Zenon DEF AggregateByTerminal, FoldLeft, MapThenFoldSet
<1>2. PICK h \in [SUBSET D -> Rows] : IsFoldFn(h, RowsFn, <<>>, runs)
  BY RowsFolds, FoldFnExists
<1>3. FollowsFold(h, RowsFn, <<>>, Rows, runs) BY <1>2, FoldFnFollows
<1>4. ASSUME NEW it, NEW s \in SUBSET D, s # {}, it[Before(s)] \in Rows
      PROVE  body(it, s) = RowsFn[<<it[Before(s)], runs[Max(s)]>>]
  BY <1>4, SeqPositions DEF RowsFn, Before
<1>5. \A it : body(it, {}) = <<>> OBVIOUS
<1> HIDE DEF body
<1>6. \A s \in SUBSET D : h[s] = body(h, s)
  <2>1. \A s \in SUBSET D : h[Before(s)] \in Rows BY DEF Before
  <2> QED BY <1>3, <1>4, <1>5, <2>1 DEF FollowsFold
<1>7. Fits(h) BY <1>6
<1>8. PICK it : Fits(it) /\ AggregateByTerminal(runs) = it[D]
  <2> HIDE DEF Fits
  <2> QED BY <1>1, <1>7
<1>9. \A s \in SUBSET D : it[s] = body(it, s) BY <1>8, Zenon
<1>10. FollowsFold(it, RowsFn, <<>>, Rows, runs) BY <1>4, <1>5, <1>9 DEF FollowsFold
<1> QED BY <1>8, <1>10, RowsFolds, FoldFnIs

FilterFn(K) == [p \in Seq(Runs) \X Runs |-> IF p[2] \in K THEN Append(p[1], p[2]) ELSE p[1]]
RunsOf(t) == {run \in Runs : run.terminal = t}
GroupOf(runs, t) == Filtered(runs, RunsOf(t))

LEMMA FilterFolds ==
    ASSUME NEW runs \in Seq(Runs), NEW K PROVE Foldable(runs, FilterFn(K), <<>>, Seq(Runs), Runs)
<1>1. \A q \in Seq(Runs), run \in Runs : FilterFn(K)[<<q, run>>] \in Seq(Runs)
  BY Longer DEF FilterFn
<1> QED BY <1>1 DEF Combines, Foldable

LEMMA FilteredIsFold ==
    ASSUME NEW runs \in Seq(Runs), NEW K
    PROVE  Filtered(runs, K) = FoldFn(FilterFn(K), <<>>, runs)
<1> DEFINE D == DOMAIN runs
           body(it, s) ==
             IF s = {} THEN <<>>
             ELSE IF runs[Max(s)] \in K THEN Append(it[s \ {Max(s)}], runs[Max(s)])
             ELSE it[s \ {Max(s)}]
           Fits(it) == it = [s \in SUBSET D |-> body(it, s)]
<1>1. Filtered(runs, K) = (CHOOSE it : Fits(it))[D]
  BY Zenon DEF Filtered, FoldLeft, MapThenFoldSet
<1>2. PICK h \in [SUBSET D -> Seq(Runs)] : IsFoldFn(h, FilterFn(K), <<>>, runs)
  BY FilterFolds, FoldFnExists
<1>3. FollowsFold(h, FilterFn(K), <<>>, Seq(Runs), runs) BY <1>2, FoldFnFollows
<1>4. ASSUME NEW it, NEW s \in SUBSET D, s # {}, it[Before(s)] \in Seq(Runs)
      PROVE  body(it, s) = FilterFn(K)[<<it[Before(s)], runs[Max(s)]>>]
  BY <1>4, SeqPositions DEF FilterFn, Before
<1>5. \A it : body(it, {}) = <<>> OBVIOUS
<1> HIDE DEF body
<1>6. \A s \in SUBSET D : h[s] = body(h, s)
  <2>1. \A s \in SUBSET D : h[Before(s)] \in Seq(Runs) BY DEF Before
  <2> QED BY <1>3, <1>4, <1>5, <2>1 DEF FollowsFold
<1>7. Fits(h) BY <1>6
<1>8. PICK it : Fits(it) /\ Filtered(runs, K) = it[D]
  <2> HIDE DEF Fits
  <2> QED BY <1>1, <1>7
<1>9. \A s \in SUBSET D : it[s] = body(it, s) BY <1>8, Zenon
<1>10. FollowsFold(it, FilterFn(K), <<>>, Seq(Runs), runs)
  BY <1>4, <1>5, <1>9 DEF FollowsFold
<1> QED BY <1>8, <1>10, FilterFolds, FoldFnIs

-----------------------------------------------------------------------------
\* Sequences by induction: a set that has the empty one, and every longer one of
\* one that it has, has all of them.
LEMMA AllSequences ==
    ASSUME NEW E, NEW T \in SUBSET Seq(E), <<>> \in T,
           \A q \in T, e \in E : Append(q, e) \in T
    PROVE  Seq(E) \subseteq T
<1> DEFINE Bad == {n \in Nat : \E q \in Seq(E) : Len(q) = n /\ q \notin T}
<1>1. Bad = {}
  <2> SUFFICES ASSUME Bad # {} PROVE FALSE OBVIOUS
  <2>1. PICK m \in Bad : \A k \in Bad : m <= k BY LeastNat
  <2>2. PICK q \in Seq(E) : Len(q) = m /\ q \notin T BY <2>1
  <2>3. m # 0 BY <2>2
  <2>4. PICK k \in Nat : m = k + 1 BY <2>1, <2>3
  <2>5. PICK p : p = [i \in 1..k |-> q[i]] OBVIOUS
  <2>6. p \in Seq(E) /\ Len(p) = k
    <3>1. \A i \in 1..k : q[i] \in E BY <2>2, <2>4
    <3> QED BY <2>5, <3>1
  <2>7. k \notin Bad
    <3> HIDE DEF Bad
    <3> QED BY <2>1, <2>4
  <2>8. p \in T BY <2>6, <2>7
  <2>9. q[k + 1] \in E BY <2>2, <2>4
  <2>10. q = Append(p, q[k + 1]) BY <2>2, <2>4, <2>5, <2>6, <2>9
  <2> QED BY <2>2, <2>8, <2>9, <2>10
<1>2. \A q \in Seq(E) : Len(q) \in Nat OBVIOUS
<1> QED BY <1>1, <1>2

-----------------------------------------------------------------------------
(* The rows.                                                               *)

LEMMA AggregateSteps ==
    ASSUME NEW runs \in Seq(Runs), NEW run \in Runs
    PROVE  /\ ReadAggregate(<<>>) = NoStats /\ ReadAggregate(runs) \in Counts
           /\ ReadAggregate(Append(runs, run)) = Counted(ReadAggregate(runs), run)
<1>1. PICK e : e = <<>> OBVIOUS
<1>2. PICK long : long = Append(runs, run) OBVIOUS
<1>3. e \in Seq(Runs) /\ long \in Seq(Runs) BY <1>1, <1>2, Longer
<1>4. \A q \in Seq(Runs) : /\ ReadAggregate(q) = FoldFn(CountFn, NoStats, q)
                           /\ Foldable(q, CountFn, NoStats, Counts, Runs)
  BY AggregateIsFold, CountFolds
<1>5. ReadAggregate(e) = NoStats BY <1>1, <1>3, <1>4, FoldFnEmpty
<1>6. ReadAggregate(runs) \in Counts BY <1>4, FoldFnType
<1>7. FoldFn(CountFn, NoStats, Append(runs, run)) = CountFn[<<FoldFn(CountFn, NoStats, runs), run>>]
  BY <1>4, FoldFnAppend
<1>8. ReadAggregate(long) = CountFn[<<ReadAggregate(runs), run>>] BY <1>2, <1>3, <1>4, <1>7
<1> QED BY <1>1, <1>2, <1>5, <1>6, <1>8 DEF CountFn

LEMMA RowsSteps ==
    ASSUME NEW runs \in Seq(Runs), NEW run \in Runs
    PROVE  /\ AggregateByTerminal(<<>>) = <<>> /\ AggregateByTerminal(runs) \in Rows
           /\ AggregateByTerminal(Append(runs, run)) = WithRun(AggregateByTerminal(runs), run)
<1>1. PICK e : e = <<>> OBVIOUS
<1>2. PICK long : long = Append(runs, run) OBVIOUS
<1>3. e \in Seq(Runs) /\ long \in Seq(Runs) BY <1>1, <1>2, Longer
<1>4. \A q \in Seq(Runs) : /\ AggregateByTerminal(q) = FoldFn(RowsFn, <<>>, q)
                           /\ Foldable(q, RowsFn, <<>>, Rows, Runs)
  BY RowsAreFold, RowsFolds
<1>5. AggregateByTerminal(e) = <<>> BY <1>1, <1>3, <1>4, FoldFnEmpty
<1>6. AggregateByTerminal(runs) \in Rows BY <1>4, FoldFnType
<1>7. FoldFn(RowsFn, <<>>, Append(runs, run)) = RowsFn[<<FoldFn(RowsFn, <<>>, runs), run>>]
  BY <1>4, FoldFnAppend
<1>8. AggregateByTerminal(long) = RowsFn[<<AggregateByTerminal(runs), run>>]
  BY <1>2, <1>3, <1>4, <1>7
<1> QED BY <1>1, <1>2, <1>5, <1>6, <1>8 DEF RowsFn

LEMMA GroupSteps ==
    ASSUME NEW runs \in Seq(Runs), NEW run \in Runs, NEW t
    PROVE  /\ GroupOf(<<>>, t) = <<>> /\ GroupOf(runs, t) \in Seq(Runs)
           /\ GroupOf(Append(runs, run), t) =
                 IF run.terminal = t THEN Append(GroupOf(runs, t), run) ELSE GroupOf(runs, t)
<1> DEFINE F == FilterFn(RunsOf(t))
<1>1. PICK e : e = <<>> OBVIOUS
<1>2. PICK long : long = Append(runs, run) OBVIOUS
<1>3. e \in Seq(Runs) /\ long \in Seq(Runs) BY <1>1, <1>2, Longer
<1>4. \A q \in Seq(Runs) : /\ GroupOf(q, t) = FoldFn(F, <<>>, q)
                           /\ Foldable(q, F, <<>>, Seq(Runs), Runs)
  BY FilteredIsFold, FilterFolds DEF GroupOf
<1> HIDE DEF F
<1>5. GroupOf(e, t) = <<>> BY <1>1, <1>3, <1>4, FoldFnEmpty
<1>6. GroupOf(runs, t) \in Seq(Runs) BY <1>4, FoldFnType
<1>7. FoldFn(F, <<>>, Append(runs, run)) = F[<<FoldFn(F, <<>>, runs), run>>]
  BY <1>4, FoldFnAppend
<1>8. GroupOf(long, t) = F[<<GroupOf(runs, t), run>>] BY <1>2, <1>3, <1>4, <1>7
<1> QED BY <1>1, <1>2, <1>5, <1>6, <1>8 DEF FilterFn, RunsOf, F

LEMMA SinceType == ASSUME NEW runs \in Seq(Runs), NEW since PROVE Since(runs, since) \in Seq(Runs)
BY FilteredIsFold, FilterFolds, FoldFnType DEF Since

Of(runs, t) == {i \in DOMAIN runs : runs[i].terminal = t}

\* The run that started last, and of those that started at once was logged last.
IsLatest(i, runs, t) ==
    /\ i \in Of(runs, t)
    /\ \A j \in Of(runs, t) : runs[j].start < runs[i].start
                              \/ (runs[j].start = runs[i].start /\ j <= i)

\* What a row tells of the runs of its terminal.
Tells(row, runs, t) ==
    /\ \E i \in DOMAIN runs : /\ IsLatest(i, runs, t)
                              /\ row.outcome = runs[i].outcome /\ row.latest = runs[i].start
    /\ row.lasted = ReadAggregate(GroupOf(runs, t)).lasted
    /\ \A i \in Of(runs, t) : row.start <= runs[i].start /\ runs[i].end <= row.end

Collapsed(runs) ==
    LET rows == AggregateByTerminal(runs)
    IN \A t \in LogTerminals :
         /\ t \in DOMAIN rows <=> Of(runs, t) # {}
         /\ t \in DOMAIN rows => Tells(rows[t], runs, t)
         /\ t \notin DOMAIN rows => ReadAggregate(GroupOf(runs, t)).lasted = 0

\* What a run that is appended changes for terminal t.
Adds(long, run, runs, n, t) ==
    /\ Of(long, t) = IF run.terminal = t THEN Of(runs, t) \cup {n} ELSE Of(runs, t)
    /\ n \in Nat /\ n \in DOMAIN long /\ long[n] = run
    /\ \A i \in Of(runs, t) : /\ i \in DOMAIN runs /\ i \in DOMAIN long /\ i \in Nat
                              /\ i < n /\ long[i] = runs[i] /\ runs[i] \in Runs

LEMMA OfLonger ==
    ASSUME NEW runs \in Seq(Runs), NEW run \in Runs
    PROVE  \A t : Adds(Append(runs, run), run, runs, Len(runs) + 1, t)
<1> PICK long : long = Append(runs, run) OBVIOUS
<1> PICK n : n = Len(runs) + 1 OBVIOUS
<1>1. /\ DOMAIN long = 1..n /\ DOMAIN runs = 1..(n - 1) /\ n \in Nat /\ long[n] = run
      /\ \A i \in 1..(n - 1) : long[i] = runs[i]
      /\ n - 1 \in Nat
  BY Longer
<1>2. \A i \in DOMAIN runs : runs[i] \in Runs BY SeqPositions
<1>3. DOMAIN long = DOMAIN runs \cup {n} BY <1>1
<1>4. \A t : Adds(long, run, runs, n, t) BY <1>1, <1>2, <1>3 DEF Of, Adds
<1> QED BY <1>4

LEMMA RowJoins ==
    ASSUME NEW runs \in Seq(Runs), NEW run \in Runs, NEW row \in Row, NEW t, run.terminal = t,
           Tells(row, runs, t)
    PROVE  Tells(Merged(row, run), Append(runs, run), t)
<1>1. PICK long : long = Append(runs, run) OBVIOUS
<1>2. PICK n : n = Len(runs) + 1 OBVIOUS
<1>3. /\ Of(long, t) = Of(runs, t) \cup {n} /\ n \in Nat /\ n \in DOMAIN long /\ long[n] = run
      /\ \A i \in Of(runs, t) : /\ i \in DOMAIN runs /\ i \in DOMAIN long /\ i \in Nat
                                /\ i < n /\ long[i] = runs[i] /\ runs[i] \in Runs
  BY <1>1, <1>2, OfLonger DEF Adds
<1>4. PICK k \in DOMAIN runs :
        IsLatest(k, runs, t) /\ row.outcome = runs[k].outcome /\ row.latest = runs[k].start
  BY DEF Tells
<1>5. k \in Of(runs, t) BY <1>4 DEF IsLatest
<1>6. /\ row.latest \in Int /\ row.start \in Int /\ row.end \in Int /\ row.lasted \in Int
      /\ run.start \in Int /\ run.end \in Int
      /\ \A i \in Of(runs, t) : runs[i].start \in Int /\ runs[i].end \in Int
  BY <1>3, MetricsAssumption DEF Row, Runs, Stamps
<1>7. \E i \in DOMAIN long :
        /\ IsLatest(i, long, t)
        /\ Merged(row, run).outcome = long[i].outcome /\ Merged(row, run).latest = long[i].start
  <2>1. CASE run.start >= row.latest
    <3>1. \A j \in Of(runs, t) : runs[j].start <= runs[k].start BY <1>4, <1>6 DEF IsLatest
    <3>2. \A j \in Of(runs, t) : long[j].start <= run.start
      <4> TAKE j \in Of(runs, t)
      <4>1. runs[j].start <= runs[k].start /\ runs[k].start = row.latest BY <1>4, <3>1
      <4>2. long[j].start = runs[j].start BY <1>3
      <4> QED BY <1>5, <1>6, <2>1, <4>1, <4>2
    <3>3. IsLatest(n, long, t)
      <4> SUFFICES ASSUME NEW j \in Of(long, t)
                   PROVE  long[j].start < run.start \/ (long[j].start = run.start /\ j <= n)
        BY <1>3 DEF IsLatest
      <4>1. CASE j = n BY <1>3, <4>1
      <4>2. CASE j # n
        <5>1. j \in Of(runs, t) BY <1>3, <4>2
        <5>2. long[j].start \in Int /\ j <= n BY <1>3, <1>6, <5>1
        <5> QED BY <1>6, <3>2, <5>1, <5>2
      <4> QED BY <4>1, <4>2
    <3> QED BY <1>3, <2>1, <3>3 DEF Merged, LatestOf
  <2>2. CASE ~(run.start >= row.latest)
    <3>1. run.start < runs[k].start BY <1>4, <1>6, <2>2
    <3>2. IsLatest(k, long, t)
      <4> SUFFICES ASSUME NEW j \in Of(long, t)
                   PROVE  long[j].start < long[k].start \/ (long[j].start = long[k].start /\ j <= k)
        BY <1>3, <1>5 DEF IsLatest
      <4>1. long[k] = runs[k] BY <1>3, <1>5
      <4>2. CASE j = n BY <1>3, <3>1, <4>1, <4>2
      <4>3. CASE j # n
        <5>1. j \in Of(runs, t) /\ long[j] = runs[j] BY <1>3, <4>3
        <5> QED BY <1>4, <4>1, <5>1 DEF IsLatest
      <4> QED BY <4>2, <4>3
    <3>3. long[k] = runs[k] /\ k \in DOMAIN long BY <1>3, <1>5
    <3> QED BY <1>4, <2>2, <3>2, <3>3 DEF Merged, LatestOf
  <2> QED BY <2>1, <2>2
<1>8. Merged(row, run).lasted = ReadAggregate(GroupOf(long, t)).lasted
  <2>1. GroupOf(long, t) = Append(GroupOf(runs, t), run) /\ GroupOf(runs, t) \in Seq(Runs)
    BY <1>1, GroupSteps
  <2>2. ReadAggregate(GroupOf(long, t)) = Counted(ReadAggregate(GroupOf(runs, t)), run)
    BY <2>1, AggregateSteps
  <2> QED BY <2>2 DEF Counted, Merged, Tells
<1>9. \A i \in Of(long, t) : /\ Merged(row, run).start <= long[i].start
                             /\ long[i].end <= Merged(row, run).end
  <2> TAKE i \in Of(long, t)
  <2>1. CASE i = n BY <1>3, <1>6, <2>1 DEF Merged
  <2>2. CASE i # n
    <3>1. i \in Of(runs, t) /\ long[i] = runs[i] BY <1>3, <2>2
    <3>2. row.start <= runs[i].start /\ runs[i].end <= row.end BY <3>1 DEF Tells
    <3> QED BY <1>6, <3>1, <3>2 DEF Merged
  <2> QED BY <2>1, <2>2
<1> QED BY <1>1, <1>7, <1>8, <1>9 DEF Tells

LEMMA RowBegins ==
    ASSUME NEW runs \in Seq(Runs), NEW run \in Runs, NEW t, run.terminal = t,
           Of(runs, t) = {}, ReadAggregate(GroupOf(runs, t)).lasted = 0
    PROVE  Tells(RowOf(run), Append(runs, run), t)
<1>1. PICK long : long = Append(runs, run) OBVIOUS
<1>2. PICK n : n = Len(runs) + 1 OBVIOUS
<1>3. Of(long, t) = {n} /\ n \in Nat /\ n \in DOMAIN long /\ long[n] = run
  BY <1>1, <1>2, OfLonger DEF Adds
<1>4. run.start \in Int /\ run.end \in Int BY MetricsAssumption DEF Runs, Stamps
<1>5. ReadAggregate(GroupOf(long, t)).lasted = run.end - run.start
  <2>1. GroupOf(long, t) = Append(GroupOf(runs, t), run) /\ GroupOf(runs, t) \in Seq(Runs)
    BY <1>1, GroupSteps
  <2>2. ReadAggregate(GroupOf(long, t)) = Counted(ReadAggregate(GroupOf(runs, t)), run)
    BY <2>1, AggregateSteps
  <2> QED BY <1>4, <2>2 DEF Counted
<1>6. IsLatest(n, long, t) BY <1>3 DEF IsLatest
<1> QED BY <1>1, <1>3, <1>4, <1>5, <1>6 DEF Tells, RowOf

LEMMA RowStays ==
    ASSUME NEW runs \in Seq(Runs), NEW run \in Runs, NEW row, NEW t, run.terminal # t,
           Tells(row, runs, t)
    PROVE  Tells(row, Append(runs, run), t)
<1>1. PICK long : long = Append(runs, run) OBVIOUS
<1>2. PICK n : n = Len(runs) + 1 OBVIOUS
<1>3. /\ Of(long, t) = Of(runs, t)
      /\ \A i \in Of(runs, t) : i \in DOMAIN long /\ long[i] = runs[i]
  BY <1>1, <1>2, OfLonger DEF Adds
<1>4. GroupOf(long, t) = GroupOf(runs, t) BY <1>1, GroupSteps
<1>5. PICK k \in DOMAIN runs :
        IsLatest(k, runs, t) /\ row.outcome = runs[k].outcome /\ row.latest = runs[k].start
  BY DEF Tells
<1>6. k \in DOMAIN long /\ IsLatest(k, long, t) /\ long[k] = runs[k] BY <1>3, <1>5 DEF IsLatest
<1> QED BY <1>1, <1>3, <1>4, <1>5, <1>6 DEF Tells

LEMMA CollapsedAppend ==
    ASSUME NEW runs \in Seq(Runs), NEW run \in Runs, Collapsed(runs)
    PROVE  Collapsed(Append(runs, run))
<1> DEFINE u == run.terminal
<1>1. PICK long : long = Append(runs, run) OBVIOUS
<1>2. PICK n : n = Len(runs) + 1 OBVIOUS
<1>3. PICK rows \in Rows : rows = AggregateByTerminal(runs) BY RowsSteps
<1>4. PICK new : new = AggregateByTerminal(long) OBVIOUS
<1>5. /\ DOMAIN new = DOMAIN rows \cup {u}
      /\ new[u] = IF u \in DOMAIN rows THEN Merged(rows[u], run) ELSE RowOf(run)
      /\ \A t \in DOMAIN rows \ {u} : new[t] = rows[t]
  <2>1. new = WithRun(rows, run) BY <1>1, <1>3, <1>4, RowsSteps
  <2> QED BY <2>1, WithRunIs
<1>6. \A t \in DOMAIN rows : rows[t] \in Row BY <1>3 DEF Rows
<1>7. \A t \in LogTerminals :
        /\ t \in DOMAIN rows <=> Of(runs, t) # {}
        /\ t \in DOMAIN rows => Tells(rows[t], runs, t)
        /\ t \notin DOMAIN rows => ReadAggregate(GroupOf(runs, t)).lasted = 0
  BY <1>3 DEF Collapsed
<1> HIDE DEF u
<1>8. ASSUME NEW t \in LogTerminals
      PROVE  /\ t \in DOMAIN new <=> Of(long, t) # {}
             /\ t \in DOMAIN new => Tells(new[t], long, t)
             /\ t \notin DOMAIN new => ReadAggregate(GroupOf(long, t)).lasted = 0
  <2>1. CASE t = u
    <3>1. run.terminal = t BY <2>1 DEF u
    <3>2. t \in DOMAIN new BY <1>5, <2>1
    <3>3. Of(long, t) # {} BY <1>1, <1>2, <3>1, OfLonger DEF Adds
    <3>4. CASE t \in DOMAIN rows
      <4>1. new[t] = Merged(rows[t], run) BY <1>5, <2>1, <3>4
      <4>2. Tells(new[t], long, t) BY <1>1, <1>6, <1>7, <3>1, <3>4, <4>1, RowJoins
      <4> QED BY <3>2, <3>3, <4>2
    <3>5. CASE t \notin DOMAIN rows
      <4>1. new[t] = RowOf(run) BY <1>5, <2>1, <3>5
      <4>2. Tells(new[t], long, t) BY <1>1, <1>7, <3>1, <3>5, <4>1, RowBegins
      <4> QED BY <3>2, <3>3, <4>2
    <3> QED BY <3>4, <3>5
  <2>2. CASE t # u
    <3>1. run.terminal # t BY <2>2 DEF u
    <3>2. t \in DOMAIN new <=> t \in DOMAIN rows BY <1>5, <2>2
    <3>3. Of(long, t) = Of(runs, t) BY <1>1, <1>2, <3>1, OfLonger DEF Adds
    <3>4. GroupOf(long, t) = GroupOf(runs, t) BY <1>1, <3>1, GroupSteps
    <3>5. t \in DOMAIN rows => new[t] = rows[t] BY <1>5, <2>2
    <3>6. t \in DOMAIN rows => Tells(rows[t], long, t) BY <1>1, <1>7, <3>1, RowStays
    <3> QED BY <1>7, <3>2, <3>3, <3>4, <3>5, <3>6
  <2> QED BY <2>1, <2>2
<1>9. Collapsed(long) BY <1>4, <1>8 DEF Collapsed
<1> QED BY <1>1, <1>9

LEMMA AllCollapsed == \A runs \in Seq(Runs) : Collapsed(runs)
<1> DEFINE T == {runs \in Seq(Runs) : Collapsed(runs)}
<1>1. <<>> \in T
  <2>1. PICK e : e = <<>> OBVIOUS
  <2>2. e \in Seq(Runs) /\ DOMAIN e = {} BY <2>1
  <2>3. \A run \in Runs : AggregateByTerminal(e) = e BY <2>1, <2>2, RowsSteps
  <2>4. \A t : Of(e, t) = {} BY <2>2 DEF Of
  <2>5. AggregateByTerminal(e) = <<>> BY <2>1, <2>2, RowsAreFold, RowsFolds, FoldFnEmpty
  <2>6. \A t : ReadAggregate(GroupOf(e, t)).lasted = 0
    <3> TAKE t
    <3>1. GroupOf(e, t) = <<>> BY <2>1, <2>2, FilteredIsFold, FilterFolds, FoldFnEmpty DEF GroupOf
    <3>2. ReadAggregate(e) = NoStats BY <2>1, <2>2, AggregateIsFold, CountFolds, FoldFnEmpty
    <3> QED BY <2>1, <3>1, <3>2 DEF NoStats
  <2> QED BY <2>1, <2>2, <2>4, <2>5, <2>6 DEF Collapsed
<1>2. \A runs \in T, run \in Runs : Append(runs, run) \in T BY CollapsedAppend, Longer
<1> HIDE DEF T
<1>3. T \in SUBSET Seq(Runs) BY DEF T
<1>4. Seq(Runs) \subseteq T BY <1>1, <1>2, <1>3, AllSequences
<1> QED BY <1>4 DEF T

\* aggregateByTerminal collapses the runs of any log, under every filter by time.
LEMMA RowsCollapse == ASSUME log \in Seq(Runs) PROVE RowsCollapseRuns
<1> SUFFICES ASSUME NEW since \in Stamps, NEW runs, runs = Since(log, since),
                    NEW rows, rows = AggregateByTerminal(runs), NEW t \in LogTerminals
             PROVE  /\ t \in DOMAIN rows <=> Of(runs, t) # {}
                    /\ Of(runs, t) # {} =>
                         /\ \E i \in Of(runs, t) :
                              /\ \A j \in Of(runs, t) :
                                    runs[j].start < runs[i].start
                                    \/ (runs[j].start = runs[i].start /\ j <= i)
                              /\ rows[t].outcome = runs[i].outcome
                         /\ rows[t].lasted = ByGroup(runs)[t].lasted
                         /\ \A i \in Of(runs, t) :
                               rows[t].start <= runs[i].start /\ runs[i].end <= rows[t].end
  BY Zenon DEF RowsCollapseRuns, Of
<1>1. runs \in Seq(Runs) BY SinceType
<1>2. /\ t \in DOMAIN rows <=> Of(runs, t) # {}
      /\ t \in DOMAIN rows => Tells(rows[t], runs, t)
  BY <1>1, AllCollapsed DEF Collapsed
<1>3. Of(runs, t) # {} => ByGroup(runs)[t] = ReadAggregate(GroupOf(runs, t))
  <2>1. t \in {r.terminal : r \in ToSet(runs)} <=> Of(runs, t) # {} BY DEF ToSet, Of
  <2> QED BY <2>1, Zenon DEF ByGroup, GroupOf, RunsOf
<1> QED BY <1>2, <1>3 DEF Tells, IsLatest

-----------------------------------------------------------------------------
(* Sums over a finite set.                                                 *)

AnyOf(s) == CHOOSE x \in s : TRUE
Without(s) == s \ {AnyOf(s)}

SumsUp(it, f, S) ==
    it[{}] = 0 /\ \A s \in SUBSET S : s # {} => it[s] = f[AnyOf(s)] + it[Without(s)]

Sums(S) == [SUBSET S -> Nat]
SumOf(f, S) == CHOOSE n : \E it \in Sums(S) : SumsUp(it, f, S) /\ n = it[S]

Choice(S) == [s \in SUBSET S |-> AnyOf(s)]

LEMMA ChoicePicks == \A S : /\ Picks(Choice(S), S)
                            /\ \A s \in SUBSET S : /\ Choice(S)[s] = AnyOf(s)
                                                   /\ Without(s) \in SUBSET S
                                                   /\ s # {} => AnyOf(s) \in s
<1> TAKE S
<1>1. \A s \in SUBSET S : s # {} => AnyOf(s) \in s BY DEF AnyOf
<1> QED BY <1>1 DEF Picks, Choice, Without

LEMMA SumExists ==
    ASSUME NEW S, IsFiniteSet(S), NEW f \in [S -> Nat]
    PROVE  \E it \in Sums(S) : SumsUp(it, f, S)
<1> DEFINE G == [p \in Nat \X S |-> f[p[2]] + p[1]]
<1>1. PICK V, z : V = Nat /\ z = 0 OBVIOUS
<1>2. Combines(G, V, S) /\ z \in V /\ Picks(Choice(S), S) BY <1>1, ChoicePicks DEF Combines
<1> HIDE DEF G
<1>3. PICK it \in [SUBSET S -> V] : FoldsBy(it, G, z, Choice(S), S) BY <1>2, FoldExists
<1>4. ASSUME NEW s \in SUBSET S, s # {} PROVE it[s] = f[AnyOf(s)] + it[Without(s)]
  <2>1. it[s] = G[<<it[Without(s)], AnyOf(s)>>]
    BY <1>1, <1>3, <1>4, ChoicePicks DEF FoldsBy, Without
  <2>2. AnyOf(s) \in S /\ it[Without(s)] \in Nat BY <1>1, <1>3, <1>4, ChoicePicks
  <2> QED BY <2>1, <2>2 DEF G
<1>5. it[{}] = 0 BY <1>1, <1>3 DEF FoldsBy
<1> QED BY <1>1, <1>3, <1>4, <1>5 DEF SumsUp, Sums

LEMMA SumUnique ==
    ASSUME NEW S, IsFiniteSet(S), NEW f, NEW it, NEW h, SumsUp(it, f, S), SumsUp(h, f, S)
    PROVE  it[S] = h[S]
<1>1. GoTogether(it, h, Choice(S), S) BY ChoicePicks DEF SumsUp, GoTogether, Without
<1>2. \A s \in SUBSET S : it[s] = h[s] BY <1>1, ChoicePicks, FoldUnique
<1> QED BY <1>2

LEMMA SumIs ==
    ASSUME NEW S, IsFiniteSet(S), NEW f, NEW it \in Sums(S), SumsUp(it, f, S)
    PROVE  SumOf(f, S) = it[S] /\ it[S] \in Nat
<1>1. PICK n : n = CHOOSE m : \E h \in Sums(S) : SumsUp(h, f, S) /\ m = h[S] OBVIOUS
<1>2. PICK h \in Sums(S) : SumsUp(h, f, S) /\ n = h[S] BY <1>1
<1>3. n = it[S] BY <1>2, SumUnique
<1>4. it[S] \in Nat BY DEF Sums
<1> QED BY <1>1, <1>3, <1>4 DEF SumOf

\* h is f and g together.
Together(h, f, g, S) ==
    /\ f \in [S -> Nat] /\ g \in [S -> Nat] /\ h \in [S -> Nat]
    /\ \A x \in S : h[x] = f[x] + g[x]

LEMMA SumPlus ==
    ASSUME NEW S, IsFiniteSet(S), NEW f, NEW g, NEW h, Together(h, f, g, S)
    PROVE  SumOf(h, S) = SumOf(f, S) + SumOf(g, S) /\ SumOf(f, S) \in Nat /\ SumOf(g, S) \in Nat
<1> USE DEF Together
<1>1. PICK it \in Sums(S) : SumsUp(it, f, S) BY SumExists
<1>2. PICK jt \in Sums(S) : SumsUp(jt, g, S) BY SumExists
<1>3. PICK kt : kt = [s \in SUBSET S |-> it[s] + jt[s]] OBVIOUS
<1>4. \A s \in SUBSET S : it[s] \in Nat /\ jt[s] \in Nat /\ kt[s] = it[s] + jt[s]
  BY <1>1, <1>2, <1>3 DEF Sums
<1>5. kt \in Sums(S) BY <1>3, <1>4 DEF Sums
<1>6. SumsUp(kt, h, S)
  <2>1. kt[{}] = 0 BY <1>1, <1>2, <1>4 DEF SumsUp
  <2>2. ASSUME NEW s \in SUBSET S, s # {} PROVE kt[s] = h[AnyOf(s)] + kt[Without(s)]
    <3>1. AnyOf(s) \in S /\ Without(s) \in SUBSET S BY <2>2, ChoicePicks
    <3>2. it[s] = f[AnyOf(s)] + it[Without(s)] BY <1>1, <2>2 DEF SumsUp
    <3>3. jt[s] = g[AnyOf(s)] + jt[Without(s)] BY <1>2, <2>2 DEF SumsUp
    <3>4. f[AnyOf(s)] \in Nat /\ g[AnyOf(s)] \in Nat BY <3>1
    <3> QED BY <1>4, <3>1, <3>2, <3>3, <3>4
  <2> QED BY <2>1, <2>2 DEF SumsUp
<1>7. SumOf(f, S) = it[S] /\ it[S] \in Nat BY <1>1, SumIs
<1>8. SumOf(g, S) = jt[S] /\ jt[S] \in Nat BY <1>2, SumIs
<1>9. SumOf(h, S) = kt[S] BY <1>5, <1>6, SumIs
<1>10. kt[S] = it[S] + jt[S] BY <1>4
<1> QED BY <1>7, <1>8, <1>9, <1>10

\* One of the members counts, or none.
LEMMA SumOne ==
    ASSUME NEW S, IsFiniteSet(S), NEW a, NEW f \in [S -> Nat],
           \A x \in S : f[x] = IF x = a THEN 1 ELSE 0
    PROVE  SumOf(f, S) = IF a \in S THEN 1 ELSE 0
<1>1. PICK it : it = [s \in SUBSET S |-> IF a \in s THEN 1 ELSE 0] OBVIOUS
<1>2. it \in Sums(S) BY <1>1 DEF Sums
<1>3. SumsUp(it, f, S)
  <2>1. it[{}] = 0 BY <1>1
  <2>2. ASSUME NEW s \in SUBSET S, s # {} PROVE it[s] = f[AnyOf(s)] + it[Without(s)]
    <3>1. AnyOf(s) \in s /\ AnyOf(s) \in S /\ Without(s) \in SUBSET S BY <2>2, ChoicePicks
    <3>2. a \in Without(s) <=> a \in s /\ a # AnyOf(s) BY DEF Without
    <3> QED BY <1>1, <3>1, <3>2
  <2> QED BY <2>1, <2>2 DEF SumsUp
<1>4. it[S] = IF a \in S THEN 1 ELSE 0 BY <1>1
<1> QED BY <1>2, <1>3, <1>4, SumIs

-----------------------------------------------------------------------------
(* The heatmap and the totals.                                             *)

At(runs, t) == {i \in DOMAIN runs : runs[i].start = t}
FailedAt(runs, t) == {i \in At(runs, t) : runs[i].outcome = "error"}
PerHour(runs) == [t \in Stamps |-> Cardinality(At(runs, t))]
FailedPerHour(runs) == [t \in Stamps |-> Cardinality(FailedAt(runs, t))]

LEMMA StampsFinite == IsFiniteSet(Stamps)
BY MetricsAssumption, FS_Interval DEF Stamps

LEMMA HoursCount ==
    ASSUME NEW runs \in Seq(Runs)
    PROVE  /\ PerHour(runs) \in [Stamps -> Nat] /\ FailedPerHour(runs) \in [Stamps -> Nat]
           /\ \A t : IsFiniteSet(At(runs, t)) /\ IsFiniteSet(FailedAt(runs, t))
           /\ \A t : Cardinality(At(runs, t)) \in Nat /\ Cardinality(FailedAt(runs, t)) \in Nat
<1>1. IsFiniteSet(DOMAIN runs) BY SeqPositions
<1>2. \A t : At(runs, t) \subseteq DOMAIN runs /\ FailedAt(runs, t) \subseteq DOMAIN runs
  BY DEF At, FailedAt
<1>3. \A t : IsFiniteSet(At(runs, t)) /\ IsFiniteSet(FailedAt(runs, t)) BY <1>1, <1>2, FS_Subset
<1>4. \A t : Cardinality(At(runs, t)) \in Nat /\ Cardinality(FailedAt(runs, t)) \in Nat
  BY <1>3, FS_CardinalityType
<1> QED BY <1>3, <1>4 DEF PerHour, FailedPerHour

Totals(runs) ==
    /\ SumOf(PerHour(runs), Stamps) = ReadAggregate(runs).runs
    /\ SumOf(FailedPerHour(runs), Stamps) = ReadAggregate(runs).error

LEMMA TotalsAppend ==
    ASSUME NEW runs \in Seq(Runs), NEW run \in Runs, Totals(runs)
    PROVE  Totals(Append(runs, run))
<1>1. PICK long : long = Append(runs, run) OBVIOUS
<1>2. PICK n : n = Len(runs) + 1 OBVIOUS
<1>3. /\ long \in Seq(Runs) /\ n \notin DOMAIN runs /\ long[n] = run
      /\ DOMAIN long = DOMAIN runs \cup {n} /\ \A i \in DOMAIN runs : long[i] = runs[i]
  <2>1. /\ DOMAIN long = 1..n /\ DOMAIN runs = 1..(n - 1) /\ n \in Nat /\ long[n] = run
        /\ \A i \in 1..(n - 1) : long[i] = runs[i]
        /\ n - 1 \in Nat /\ long \in Seq(Runs)
    BY <1>1, <1>2, Longer
  <2> QED BY <2>1
<1>4. PICK one : one = [t \in Stamps |-> IF t = run.start THEN 1 ELSE 0] OBVIOUS
<1>5. PICK bad : bad = [t \in Stamps |-> IF run.outcome = "error" /\ t = run.start THEN 1 ELSE 0]
  OBVIOUS
<1>6. one \in [Stamps -> Nat] /\ bad \in [Stamps -> Nat] BY <1>4, <1>5
<1>7. \A t \in Stamps : PerHour(long)[t] = PerHour(runs)[t] + one[t]
  <2> TAKE t \in Stamps
  <2>1. At(long, t) = IF run.start = t THEN At(runs, t) \cup {n} ELSE At(runs, t)
    BY <1>3 DEF At
  <2>2. n \notin At(runs, t) BY <1>3 DEF At
  <2>3. IsFiniteSet(At(runs, t)) /\ Cardinality(At(runs, t)) \in Nat BY HoursCount
  <2>4. Cardinality(At(runs, t) \cup {n}) = Cardinality(At(runs, t)) + 1
    BY <2>2, <2>3, FS_AddElement
  <2>5. PerHour(long)[t] = Cardinality(At(long, t)) /\ PerHour(runs)[t] = Cardinality(At(runs, t))
    BY DEF PerHour
  <2> QED BY <1>4, <2>1, <2>3, <2>4, <2>5
<1>8. \A t \in Stamps : FailedPerHour(long)[t] = FailedPerHour(runs)[t] + bad[t]
  <2> TAKE t \in Stamps
  <2>1. FailedAt(long, t) = IF run.outcome = "error" /\ run.start = t
                            THEN FailedAt(runs, t) \cup {n} ELSE FailedAt(runs, t)
    BY <1>3 DEF At, FailedAt
  <2>2. n \notin FailedAt(runs, t) BY <1>3 DEF At, FailedAt
  <2>3. IsFiniteSet(FailedAt(runs, t)) /\ Cardinality(FailedAt(runs, t)) \in Nat BY HoursCount
  <2>4. Cardinality(FailedAt(runs, t) \cup {n}) = Cardinality(FailedAt(runs, t)) + 1
    BY <2>2, <2>3, FS_AddElement
  <2>5. /\ FailedPerHour(long)[t] = Cardinality(FailedAt(long, t))
        /\ FailedPerHour(runs)[t] = Cardinality(FailedAt(runs, t))
    BY DEF FailedPerHour
  <2> QED BY <1>5, <2>1, <2>3, <2>4, <2>5
<1>9. SumOf(one, Stamps) = 1
  <2>1. run.start \in Stamps BY DEF Runs
  <2> QED BY <1>4, <1>6, <2>1, StampsFinite, SumOne
<1>10. SumOf(bad, Stamps) = IF run.outcome = "error" THEN 1 ELSE 0
  <2>1. CASE run.outcome = "error"
    <3>1. bad = one BY <1>4, <1>5, <2>1
    <3> QED BY <1>9, <2>1, <3>1
  <2>2. CASE run.outcome # "error"
    <3>1. PICK none : none \notin Stamps
      <4>1. 0 \notin Stamps BY MetricsAssumption DEF Stamps
      <4> QED BY <4>1
    <3>2. \A t \in Stamps : bad[t] = IF t = none THEN 1 ELSE 0 BY <1>5, <2>2, <3>1
    <3>3. SumOf(bad, Stamps) = IF none \in Stamps THEN 1 ELSE 0
      BY <1>6, <3>2, StampsFinite, SumOne
    <3> QED BY <2>2, <3>1, <3>3
  <2> QED BY <2>1, <2>2
<1>11. /\ PerHour(runs) \in [Stamps -> Nat] /\ PerHour(long) \in [Stamps -> Nat]
       /\ FailedPerHour(runs) \in [Stamps -> Nat] /\ FailedPerHour(long) \in [Stamps -> Nat]
  BY <1>3, HoursCount
<1>12. SumOf(PerHour(long), Stamps) = SumOf(PerHour(runs), Stamps) + 1
  <2>1. Together(PerHour(long), PerHour(runs), one, Stamps) BY <1>6, <1>7, <1>11 DEF Together
  <2> QED BY <1>9, <2>1, StampsFinite, SumPlus
<1>13. SumOf(FailedPerHour(long), Stamps) = SumOf(FailedPerHour(runs), Stamps) + SumOf(bad, Stamps)
  <2>1. Together(FailedPerHour(long), FailedPerHour(runs), bad, Stamps)
    BY <1>6, <1>8, <1>11 DEF Together
  <2> QED BY <2>1, StampsFinite, SumPlus
<1>14. ReadAggregate(long) = Counted(ReadAggregate(runs), run) BY <1>1, AggregateSteps
<1>15. Totals(long) BY <1>10, <1>12, <1>13, <1>14 DEF Totals, Counted
<1> QED BY <1>1, <1>15

LEMMA AllTotals == \A runs \in Seq(Runs) : Totals(runs)
<1> DEFINE T == {runs \in Seq(Runs) : Totals(runs)}
<1>1. <<>> \in T
  <2>1. PICK e : e = <<>> OBVIOUS
  <2>2. e \in Seq(Runs) /\ DOMAIN e = {} BY <2>1
  <2>3. ReadAggregate(e) = NoStats BY <2>1, <2>2, AggregateIsFold, CountFolds, FoldFnEmpty
  <2>4. \A t : At(e, t) = {} /\ FailedAt(e, t) = {} BY <2>2 DEF At, FailedAt
  <2>5. Cardinality({}) = 0 BY FS_EmptySet
  <2>6. 0 \notin Stamps BY MetricsAssumption DEF Stamps
  <2>7. PICK zero \in [Stamps -> Nat] : \A t \in Stamps : zero[t] = 0
    <3>1. [t \in Stamps |-> 0] \in [Stamps -> Nat] OBVIOUS
    <3> QED BY <3>1
  <2>8. PerHour(e) = zero /\ FailedPerHour(e) = zero
    BY <2>4, <2>5, <2>7 DEF PerHour, FailedPerHour
  <2>9. \A t \in Stamps : zero[t] = IF t = 0 THEN 1 ELSE 0 BY <2>6, <2>7
  <2>10. SumOf(zero, Stamps) = 0 BY <2>6, <2>9, StampsFinite, SumOne
  <2> QED BY <2>1, <2>2, <2>3, <2>8, <2>10 DEF Totals, NoStats
<1>2. \A runs \in T, run \in Runs : Append(runs, run) \in T BY TotalsAppend, Longer
<1> HIDE DEF T
<1>3. T \in SUBSET Seq(Runs) BY DEF T
<1>4. Seq(Runs) \subseteq T BY <1>1, <1>2, <1>3, AllSequences
<1> QED BY <1>4 DEF T

LEMMA OverHoursIs ==
    ASSUME NEW f \in [Stamps -> Nat] PROVE OverHours(f) = SumOf(f, Stamps)
<1> DEFINE body(it, s) == IF s = {} THEN 0 ELSE f[AnyOf(s)] + it[Without(s)]
           Fits(it) == it = [s \in SUBSET Stamps |-> body(it, s)]
<1>1. OverHours(f) = (CHOOSE it : Fits(it))[Stamps]
  BY Zenon DEF OverHours, MapThenSumSet, MapThenFoldSet, AnyOf, Without
<1>2. PICK h \in Sums(Stamps) : SumsUp(h, f, Stamps) BY StampsFinite, SumExists
<1>3. h = [s \in SUBSET Stamps |-> h[s]] BY DEF Sums
<1>4. \A s \in SUBSET Stamps : h[s] = body(h, s) BY <1>2 DEF SumsUp
<1>5. Fits(h)
  <2> HIDE DEF body
  <2> QED BY <1>3, <1>4, Zenon
<1>6. PICK it : Fits(it) /\ OverHours(f) = it[Stamps]
  <2> HIDE DEF Fits
  <2> QED BY <1>1, <1>5
<1>7. \A s \in SUBSET Stamps : it[s] = body(it, s)
  <2> HIDE DEF body
  <2> QED BY <1>6, Zenon
<1>8. SumsUp(it, f, Stamps)
  <2>1. {} \in SUBSET Stamps OBVIOUS
  <2> QED BY <1>7, <2>1 DEF SumsUp
<1>9. it[Stamps] = h[Stamps] BY <1>2, <1>8, StampsFinite, SumUnique
<1> QED BY <1>2, <1>6, <1>9, StampsFinite, SumIs

HourOf(map, t) == IF t \in DOMAIN map THEN map[t] ELSE [runs |-> 0, errors |-> 0]

\* The heatmap has the runs and the error runs of each hour.
LEMMA HeatmapIs ==
    ASSUME NEW runs \in Seq(Runs), NEW errors \in [Stamps -> {0, 2}]
    PROVE  \A t \in Stamps :
             /\ HourOf(Heatmap(runs, errors, 1), t).runs = PerHour(runs)[t]
             /\ HourOf(Heatmap(runs, errors, 1), t).errors = FailedPerHour(runs)[t] + errors[t]
<1> DEFINE cell(t) == [runs |-> Cardinality(At(runs, t)),
                       errors |-> Cardinality(FailedAt(runs, t)) + errors[t]]
           D == {u \in Stamps : u >= 1 /\ (At(runs, u) # {} \/ errors[u] > 0)}
<1>1. Heatmap(runs, errors, 1) = [t \in D |-> cell(t)] BY Zenon DEF Heatmap, At, FailedAt
<1> TAKE t \in Stamps
<1>2. PICK map : map = Heatmap(runs, errors, 1) OBVIOUS
<1>3. t \notin D => At(runs, t) = {} /\ errors[t] = 0
  <2>1. t >= 1 BY MetricsAssumption DEF Stamps
  <2> QED BY <2>1
<1> HIDE DEF D
<1>4. /\ t \in DOMAIN map <=> t \in D
      /\ t \in D => map[t].runs = Cardinality(At(runs, t))
                    /\ map[t].errors = Cardinality(FailedAt(runs, t)) + errors[t]
  BY <1>1, <1>2
<1>5. At(runs, t) = {} => FailedAt(runs, t) = {} BY DEF FailedAt
<1>6. Cardinality({}) = 0 BY FS_EmptySet
<1>7. PerHour(runs)[t] = Cardinality(At(runs, t))
      /\ FailedPerHour(runs)[t] = Cardinality(FailedAt(runs, t))
  BY DEF PerHour, FailedPerHour
<1>8. PICK hour : hour = HourOf(map, t) OBVIOUS
<1>9. CASE t \in D
  <2>1. hour = map[t] BY <1>4, <1>8, <1>9 DEF HourOf
  <2> QED BY <1>2, <1>4, <1>7, <1>8, <1>9, <2>1
<1>10. CASE t \notin D
  <2>1. hour.runs = 0 /\ hour.errors = 0 BY <1>4, <1>8, <1>10 DEF HourOf
  <2>2. PerHour(runs)[t] = 0 /\ FailedPerHour(runs)[t] + errors[t] = 0
    <3>1. At(runs, t) = {} /\ FailedAt(runs, t) = {} /\ errors[t] = 0 BY <1>3, <1>5, <1>10
    <3>2. PerHour(runs)[t] = 0 BY <1>6, <1>7, <3>1, Zenon
    <3>3. FailedPerHour(runs)[t] = 0 BY <1>6, <1>7, <3>1, Zenon
    <3> QED BY <3>1, <3>2, <3>3
  <2> QED BY <1>2, <1>8, <2>1, <2>2
<1> QED BY <1>9, <1>10

\* The heatmap and the totals of any log agree.
LEMMA ViewsTell == ASSUME log \in Seq(Runs) PROVE ViewsAgree
<1> SUFFICES ASSUME NEW errors \in [Stamps -> {0, 2}]
             PROVE  /\ OverHours([t \in Stamps |-> HourOf(Heatmap(log, errors, 1), t).runs])
                         = ReadAggregate(log).runs
                    /\ OverHours([t \in Stamps |-> HourOf(Heatmap(log, errors, 1), t).errors])
                         = ReadAggregate(log).error + OverHours(errors)
  BY Zenon DEF ViewsAgree, HourOf
<1>1. PICK runs : runs = [t \in Stamps |-> HourOf(Heatmap(log, errors, 1), t).runs] OBVIOUS
<1>2. PICK both : both = [t \in Stamps |-> HourOf(Heatmap(log, errors, 1), t).errors] OBVIOUS
<1>3. PerHour(log) \in [Stamps -> Nat] /\ FailedPerHour(log) \in [Stamps -> Nat] BY HoursCount
<1>4. runs = PerHour(log)
  <2>1. \A t \in Stamps : runs[t] = PerHour(log)[t] BY <1>1, HeatmapIs
  <2> QED BY <1>1, <1>3, <2>1
<1>5. Together(both, FailedPerHour(log), errors, Stamps)
  <2>1. \A t \in Stamps : both[t] = FailedPerHour(log)[t] + errors[t] BY <1>2, HeatmapIs
  <2>2. errors \in [Stamps -> Nat] OBVIOUS
  <2>3. both \in [Stamps -> Nat] BY <1>2, <1>3, <2>1, <2>2
  <2> QED BY <1>3, <2>1, <2>2, <2>3 DEF Together
<1>6. Totals(log) BY AllTotals
<1>7. OverHours(runs) = ReadAggregate(log).runs BY <1>3, <1>4, <1>6, OverHoursIs DEF Totals
<1>8. OverHours(both) = SumOf(FailedPerHour(log), Stamps) + SumOf(errors, Stamps)
  <2>1. both \in [Stamps -> Nat] BY <1>5 DEF Together
  <2> QED BY <1>5, <2>1, OverHoursIs, StampsFinite, SumPlus
<1>9. errors \in [Stamps -> Nat] OBVIOUS
<1>10. OverHours(errors) = SumOf(errors, Stamps) BY <1>9, OverHoursIs
<1> QED BY <1>1, <1>2, <1>6, <1>7, <1>8, <1>10 DEF Totals

-----------------------------------------------------------------------------
\* agentMetricsStore.ts, "Cumulative fields are summed across runs; identity and
\* outcome fields come from the most recent run", and the totals and the heatmap
\* that the page shows next to them: of a log of any length, with any number of
\* terminals and whatever times the clock has given its runs, each view says
\* what the runs say, under every filter by time, and the views agree.
THEOREM ViewsTellTheLog == MetricsSpec => []MetricsSafe
<1>1. MetricsTypeOK => RowsCollapseRuns /\ ViewsAgree
  BY RowsCollapse, ViewsTell DEF MetricsTypeOK
<1> QED BY <1>1, MemoStaysCurrent, PTL DEF MetricsSafe
=============================================================================
