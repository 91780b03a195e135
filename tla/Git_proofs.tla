----------------------------- MODULE Git_proofs -----------------------------
(***************************************************************************)
(* Proofs about GitLifecycle, for any tentacles, revisions and requests,   *)
(* and about GithubSummary, for any number of commits and failures.        *)
(***************************************************************************)
EXTENDS GitLifecycle, GithubSummary, FiniteSetTheorems, SequenceTheorems, TLAPS

-----------------------------------------------------------------------------
(* The requests. *)

Slot == Request \cup {Done}
Rev == Revs \cup {Nothing}

LEMMA Bounds ==
  1 \in Revs /\ Nothing \in Rev /\ \A r \in Revs : r \in Nat /\ r \in Rev
  BY GitAssumption DEF Revs, Rev, Nothing

LEMMA UnderType ==
  ASSUME reqs \in Seq(Slot), NEW s \in Under
  PROVE  /\ s \in 1..Len(reqs) /\ reqs[s] \in Request
         /\ reqs[s].op \in Kinds \cup Mutations /\ reqs[s].t \in Tentacles
         /\ reqs[s].follow \in BOOLEAN /\ reqs[s].answer \in Rev
  <1>1. s \in 1..Len(reqs) /\ reqs[s] # Done BY DEF Under
  <1>2. reqs[s] \in Request BY <1>1 DEF Slot
  <1> QED BY <1>1, <1>2 DEF Request, Rev

LEMMA NewRequestType ==
  ASSUME NEW op \in Kinds \cup Mutations, NEW t \in Tentacles, NEW f \in BOOLEAN
  PROVE  /\ NewRequest(op, t, f) \in Request
         /\ NewRequest(op, t, f).op = op /\ NewRequest(op, t, f).phase = "sent"
         /\ NewRequest(op, t, f).t = t
  BY DEF NewRequest, Request

LEMMA AnsweredType ==
  ASSUME reqs \in Seq(Slot), NEW s \in Under, NEW p \in {"ok", "error"}, NEW a \in Rev,
         Answered(s, p, a)
  PROVE  /\ reqs' \in Seq(Slot) /\ Len(reqs') = Len(reqs)
         /\ \A i \in 1..Len(reqs) : i # s => reqs'[i] = reqs[i]
         /\ reqs'[s] \in Request /\ reqs'[s].op = reqs[s].op /\ reqs'[s].t = reqs[s].t
         /\ reqs'[s].phase = p /\ reqs'[s].answer = a
  <1>1. s \in 1..Len(reqs) /\ reqs[s] \in Request BY UnderType
  <1> DEFINE r == [reqs[s] EXCEPT !.phase = p, !.answer = a]
  <1>2. r \in Request /\ r.op = reqs[s].op /\ r.t = reqs[s].t /\ r.phase = p /\ r.answer = a
    BY <1>1 DEF Request, Rev
  <1>3. reqs' = [reqs EXCEPT ![s] = r] BY <1>1 DEF Answered
  <1> HIDE DEF r
  <1>4. r \in Slot BY <1>2 DEF Slot
  <1> QED BY <1>1, <1>2, <1>3, <1>4, ExceptSeq

LEMMA TwoMore ==
  ASSUME NEW S, NEW q \in Seq(S), NEW a \in S, NEW b \in S
  PROVE  /\ q \o <<a, b>> \in Seq(S) /\ Len(q \o <<a, b>>) = Len(q) + 2
         /\ \A i \in 1..Len(q) : (q \o <<a, b>>)[i] = q[i]
         /\ (q \o <<a, b>>)[Len(q) + 1] = a /\ (q \o <<a, b>>)[Len(q) + 2] = b
  <1>1. <<a, b>> \in Seq(S) /\ Len(<<a, b>>) = 2 OBVIOUS
  <1>2. Len(q) \in Nat OBVIOUS
  <1>3. /\ q \o <<a, b>> \in Seq(S) /\ Len(q \o <<a, b>>) = Len(q) + 2
        /\ \A i \in 1..Len(q) + 2 :
             (q \o <<a, b>>)[i] = IF i <= Len(q) THEN q[i] ELSE <<a, b>>[i - Len(q)]
    BY <1>1, ConcatProperties
  <1>4. \A i \in 1..Len(q) : (q \o <<a, b>>)[i] = q[i] BY <1>2, <1>3
  <1>5. (q \o <<a, b>>)[Len(q) + 1] = <<a, b>>[1] BY <1>2, <1>3
  <1>6. (q \o <<a, b>>)[Len(q) + 2] = <<a, b>>[2] BY <1>2, <1>3
  <1> QED BY <1>3, <1>4, <1>5, <1>6

LEMMA FetchSteps ==
  ASSUME GitTypeOK, NEW t \in Tentacles, NEW d, Fetch(t, d)
  PROVE  /\ reqs' \in Seq(Slot) /\ Len(reqs') = Len(reqs) + 2
         /\ \A i \in 1..Len(reqs) : reqs'[i] = reqs[i]
         /\ \A i \in {Len(reqs) + 1, Len(reqs) + 2} :
              /\ reqs'[i] \in Request /\ reqs'[i].op \in Kinds
              /\ reqs'[i].phase = "sent" /\ reqs'[i].t = t
         /\ reqs'[Len(reqs) + 1].op # reqs'[Len(reqs) + 2].op
         /\ overlapped' \subseteq Tentacles
  <1> DEFINE a == NewRequest("status", t, FALSE)
             b == NewRequest("pr", t, FALSE)
  <1>1. /\ a \in Request /\ a.op \in Kinds /\ a.phase = "sent" /\ a.t = t
        /\ b \in Request /\ b.op \in Kinds /\ b.phase = "sent" /\ b.t = t
        /\ a.op # b.op
    BY DEF NewRequest, Request, Kinds, Mutations
  <1>2. reqs \in Seq(Slot) BY DEF GitTypeOK, Slot
  <1>3. reqs' = reqs \o <<a, b>> BY DEF Fetch
  <1>4. overlapped' \subseteq Tentacles BY DEF Fetch, GitTypeOK
  <1> HIDE DEF a, b
  <1>5. a \in Slot /\ b \in Slot BY <1>1 DEF Slot
  <1> QED BY <1>1, <1>2, <1>3, <1>4, <1>5, TwoMore

LEMMA MutateSteps ==
  ASSUME GitTypeOK, NEW op \in Mutations, NEW f \in BOOLEAN, Mutate(op, f)
  PROVE  /\ reqs' \in Seq(Slot) /\ Len(reqs') = Len(reqs) + 1
         /\ \A i \in 1..Len(reqs) : reqs'[i] = reqs[i]
         /\ reqs'[Len(reqs) + 1] \in Request /\ reqs'[Len(reqs) + 1].op = op
         /\ reqs'[Len(reqs) + 1].phase = "sent" /\ reqs'[Len(reqs) + 1].t = dialog.open
  <1>1. dialog.open \in Tentacles BY DEF Mutate, DialogReady, GitTypeOK
  <1> DEFINE new == NewRequest(op, dialog.open, f)
  <1>2. new \in Request /\ new.op = op /\ new.phase = "sent" /\ new.t = dialog.open
    BY <1>1, NewRequestType
  <1>3. reqs \in Seq(Slot) BY DEF GitTypeOK, Slot
  <1>4. reqs' = Append(reqs, new) BY DEF Mutate
  <1> HIDE DEF new
  <1>5. new \in Slot BY <1>2 DEF Slot
  <1> QED BY <1>2, <1>3, <1>4, <1>5, AppendProperties

\* An answer that arrived leaves the slot empty, or with the push that follows.
LEMMA ReceivedSteps ==
  ASSUME GitTypeOK, NEW s \in 1..MaxReqs, ReceiveRead(s) \/ ReceiveMutation(s)
  PROVE  /\ s \in Under
         /\ reqs' \in Seq(Slot) /\ Len(reqs') = Len(reqs)
         /\ \A i \in 1..Len(reqs) : i # s => reqs'[i] = reqs[i]
         /\ \/ reqs'[s] = Done
            \/ /\ ReceiveMutation(s) /\ reqs'[s] \in Request /\ reqs'[s].op = "push"
               /\ reqs'[s].phase = "sent" /\ reqs'[s].t = reqs[s].t
  <1>1. reqs \in Seq(Slot) BY DEF GitTypeOK, Slot
  <1>2. s \in Under BY DEF ReceiveRead, ReceiveMutation, Arrived
  <1>3. s \in 1..Len(reqs) /\ reqs[s].t \in Tentacles BY <1>1, <1>2, UnderType
  <1>4. Done \in Slot BY DEF Slot
  <1>5. CASE reqs' = [reqs EXCEPT ![s] = Done] BY <1>1, <1>2, <1>3, <1>4, <1>5, ExceptSeq
  <1>6. CASE ReceiveMutation(s) /\ reqs' = [reqs EXCEPT ![s] = NewRequest("push", reqs[s].t, FALSE)]
    <2> DEFINE new == NewRequest("push", reqs[s].t, FALSE)
    <2>1. new \in Request /\ new.op = "push" /\ new.phase = "sent" /\ new.t = reqs[s].t
      BY <1>3, NewRequestType DEF Mutations
    <2> HIDE DEF new
    <2>2. new \in Slot BY <2>1 DEF Slot
    <2>3. reqs' = [reqs EXCEPT ![s] = new] BY <1>6 DEF new
    <2>4. /\ reqs' \in Seq(Slot) /\ Len(reqs') = Len(reqs) /\ reqs'[s] = new
          /\ \A i \in 1..Len(reqs) : i # s => reqs'[i] = reqs[i]
      BY <1>1, <1>3, <2>2, <2>3, ExceptSeq
    <2>5. ReceiveMutation(s) BY <1>6
    <2> QED BY <1>2, <2>1, <2>4, <2>5
  <1> QED BY <1>5, <1>6 DEF ReceiveRead, ReceiveMutation

-----------------------------------------------------------------------------
(* Type correctness. *)

LEMMA InitType ==
  ASSUME GitInit
  PROVE  GitTypeOK
  <1>1. [t \in Tentacles |-> 1] \in [Tentacles -> Revs] BY Bounds
  <1>2. dialog \in [shown : Shown, loading : [Kinds -> SUBSET Tentacles],
                    open : Tentacles \cup {NoTentacle}, mutating : BOOLEAN]
    BY Bounds DEF GitInit, Shown, Rev
  <1>3. readCache \in Shown BY DEF GitInit, Shown
  <1>4. reqs \in Seq(Request \cup {Done}) BY DEF GitInit
  <1> QED BY <1>1, <1>2, <1>3, <1>4 DEF GitInit, GitTypeOK

LEMMA InvalidateType ==
  ASSUME GitTypeOK, NEW t \in Tentacles, InvalidateTentacle(t)
  PROVE  /\ readCache' \in Shown
         /\ \A k \in Kinds : readCache'[k][t] = Nothing
         /\ \A k \in Kinds, u \in Tentacles \ {t} : readCache'[k][u] = readCache[k][u]
  BY DEF InvalidateTentacle, GitTypeOK, Shown

LEMMA GitChangesType ==
  ASSUME GitTypeOK, NEW t \in Tentacles, GitChanges(t)
  PROVE  /\ repo' \in [Tentacles -> Revs] /\ mutated' \in [Tentacles -> Revs]
         /\ repo'[t] = repo[t] + 1 /\ mutated'[t] = repo[t] + 1 /\ repo[t] + 1 \in Revs
         /\ \A u \in Tentacles \ {t} : repo'[u] = repo[u] /\ mutated'[u] = mutated[u]
  <1>1. repo[t] \in Revs /\ repo[t] < MaxRev BY DEF GitChanges, GitTypeOK
  <1>2. repo[t] + 1 \in Revs BY <1>1, GitAssumption DEF Revs
  <1> QED BY <1>2 DEF GitChanges, GitTypeOK

LEMMA ShownAfterType ==
  ASSUME GitTypeOK, NEW r \in Request, NEW u \in BOOLEAN
  PROVE  ShownAfter(r, u) \in Shown
  BY DEF ShownAfter, GitTypeOK, Shown, Request, Kinds

\* An answer that is good brings a revision.
OkAnswers == \A s \in Under : reqs[s].phase = "ok" => reqs[s].answer \in Revs

LEMMA NextType ==
  ASSUME GitTypeOK, OkAnswers, [GitNext]_gitVars
  PROVE  GitTypeOK'
  <1>0. reqs \in Seq(Slot) BY DEF GitTypeOK, Slot
  <1>1. ASSUME NEW s \in 1..MaxReqs, ServeRead(s)
        PROVE  GitTypeOK'
    <2>1. s \in Under BY <1>1 DEF ServeRead, Sent
    <2>2. reqs[s].op \in Kinds /\ reqs[s].t \in Tentacles
      BY <1>0, <1>1, <2>1, UnderType DEF ServeRead, Sent
    <2> PICK value \in ({readCache[reqs[s].op][reqs[s].t]} \ {Nothing}) \cup {repo[reqs[s].t]} :
          /\ Answered(s, "ok", value)
          /\ readCache' = [readCache EXCEPT ![reqs[s].op][reqs[s].t] = value]
      BY <1>1 DEF ServeRead
    <2>3. value \in Rev BY <2>2 DEF GitTypeOK, Shown, Rev
    <2>4. readCache' \in Shown BY <2>2, <2>3 DEF GitTypeOK, Shown, Rev
    <2>5. reqs' \in Seq(Slot) BY <1>0, <2>1, <2>3, AnsweredType
    <2> QED BY <1>1, <2>4, <2>5 DEF ServeRead, GitTypeOK, Slot
  <1>2. ASSUME NEW s \in 1..MaxReqs, ServeMutation(s)
        PROVE  GitTypeOK'
    <2>1. s \in Under BY <1>2 DEF ServeMutation, Sent
    <2>2. reqs[s].t \in Tentacles BY <1>0, <2>1, UnderType
    <2>3. /\ repo' \in [Tentacles -> Revs] /\ mutated' \in [Tentacles -> Revs]
          /\ repo[reqs[s].t] + 1 \in Revs
      BY <1>2, <2>2, GitChangesType DEF ServeMutation
    <2>4. readCache' \in Shown BY <1>2, <2>2, InvalidateType DEF ServeMutation
    <2>5. Answered(s, "ok", repo[reqs[s].t] + 1) /\ repo[reqs[s].t] + 1 \in Rev
      BY <1>2, <2>3, Bounds DEF ServeMutation
    <2>6. reqs' \in Seq(Slot) BY <1>0, <2>1, <2>5, AnsweredType
    <2> QED BY <1>2, <2>3, <2>4, <2>6 DEF ServeMutation, GitTypeOK, Slot
  <1>3. ASSUME NEW t \in Tentacles, CreatePullRequest(t)
        PROVE  GitTypeOK'
    BY <1>3, GitChangesType, InvalidateType DEF CreatePullRequest, GitTypeOK
  <1>4. ASSUME NEW s \in 1..MaxReqs, Refuse(s)
        PROVE  GitTypeOK'
    <2>1. s \in Under BY <1>4 DEF Refuse, Sent
    <2>2. reqs[s].t \in Tentacles BY <1>0, <2>1, UnderType
    <2>3. reqs' \in Seq(Slot) BY <1>0, <1>4, <2>1, AnsweredType, Bounds DEF Refuse
    <2>4. repo' \in [Tentacles -> Revs]
      <3>1. CASE UNCHANGED repo BY <3>1 DEF GitTypeOK
      <3>2. CASE repo[reqs[s].t] < MaxRev /\ repo' = [repo EXCEPT ![reqs[s].t] = @ + 1]
        <4>1. repo[reqs[s].t] + 1 \in Revs BY <2>2, <3>2, GitAssumption DEF GitTypeOK, Revs
        <4> QED BY <2>2, <3>2, <4>1 DEF GitTypeOK
      <3> QED BY <1>4, <3>1, <3>2 DEF Refuse
    <2> QED BY <1>4, <2>3, <2>4 DEF Refuse, GitTypeOK, Slot
  <1>5. ASSUME NEW t \in Tentacles, OthersChange(t)
        PROVE  GitTypeOK'
    <2>1. repo' \in [Tentacles -> Revs]
      BY <1>5, GitAssumption DEF OthersChange, GitTypeOK, Revs
    <2> QED BY <1>5, <2>1 DEF OthersChange, GitTypeOK
  <1>6. ASSUME NEW t \in Tentacles, NEW d, Fetch(t, d),
               d \in [shown : Shown, loading : [Kinds -> SUBSET Tentacles],
                      open : Tentacles \cup {NoTentacle}, mutating : BOOLEAN],
               present' \subseteq Tentacles, UNCHANGED <<repo, readCache, mutated, acked>>
        PROVE  GitTypeOK'
    <2>1. dialog' \in [shown : Shown, loading : [Kinds -> SUBSET Tentacles],
                       open : Tentacles \cup {NoTentacle}, mutating : BOOLEAN]
      <3>1. dialog' = [d EXCEPT !.loading = [k \in Kinds |-> d.loading[k] \cup {t}]]
        BY <1>6 DEF Fetch
      <3>2. [k \in Kinds |-> d.loading[k] \cup {t}] \in [Kinds -> SUBSET Tentacles] BY <1>6
      <3> QED BY <1>6, <3>1, <3>2
    <2> QED BY <1>6, <2>1, FetchSteps DEF GitTypeOK, Slot
  <1>7. ASSUME NEW t \in Tentacles, Appear(t)
        PROVE  GitTypeOK'
    BY <1>6, <1>7 DEF Appear, GitTypeOK
  <1>8. ASSUME NEW t \in Tentacles, OpenAgentGitActions(t)
        PROVE  GitTypeOK'
    <2>1. present' \subseteq Tentacles BY <1>8 DEF OpenAgentGitActions, GitTypeOK
    <2>2. [dialog EXCEPT !.open = t] \in
             [shown : Shown, loading : [Kinds -> SUBSET Tentacles],
              open : Tentacles \cup {NoTentacle}, mutating : BOOLEAN]
      BY DEF GitTypeOK
    <2> QED BY <1>6, <1>8, <2>1, <2>2 DEF OpenAgentGitActions
  <1>9. ASSUME NEW t \in Tentacles, Disappear(t)
        PROVE  GitTypeOK'
    <2>1. [k \in Kinds |-> [dialog.shown[k] EXCEPT ![t] = Nothing]] \in Shown
      BY DEF GitTypeOK, Shown
    <2>2. [k \in Kinds |-> dialog.loading[k] \ {t}] \in [Kinds -> SUBSET Tentacles] BY DEF GitTypeOK
    <2>3. dialog' = [dialog EXCEPT
                       !.shown = [k \in Kinds |-> [dialog.shown[k] EXCEPT ![t] = Nothing]],
                       !.loading = [k \in Kinds |-> dialog.loading[k] \ {t}],
                       !.open = IF dialog.open = t THEN NoTentacle ELSE dialog.open]
      BY <1>9 DEF Disappear
    <2>4. dialog' \in [shown : Shown, loading : [Kinds -> SUBSET Tentacles],
                       open : Tentacles \cup {NoTentacle}, mutating : BOOLEAN]
      BY <2>1, <2>2, <2>3 DEF GitTypeOK
    <2> QED BY <1>9, <2>4 DEF Disappear, GitTypeOK
  <1>10. CASE CloseAgentGitActions
    BY <1>10 DEF CloseAgentGitActions, GitTypeOK
  <1>11. ASSUME NEW op \in Mutations, NEW f \in BOOLEAN, Mutate(op, f)
         PROVE  GitTypeOK'
    <2>1. reqs' \in Seq(Slot) BY <1>11, MutateSteps
    <2> QED BY <1>11, <2>1 DEF Mutate, GitTypeOK, Slot
  <1>12. ASSUME NEW s \in 1..MaxReqs, ReceiveRead(s)
         PROVE  GitTypeOK'
    <2>1. s \in Under /\ reqs' \in Seq(Slot) BY <1>12, ReceivedSteps
    <2>2. reqs[s] \in Request /\ reqs[s].op \in Kinds
      BY <1>0, <1>12, <2>1, UnderType DEF ReceiveRead, Arrived
    <2> PICK u \in Understood(reqs[s]) :
          dialog' = [dialog EXCEPT !.loading[reqs[s].op] = @ \ {reqs[s].t},
                                   !.shown = ShownAfter(reqs[s], u)]
      BY <1>12 DEF ReceiveRead
    <2>3. u \in BOOLEAN BY DEF Understood
    <2>4. ShownAfter(reqs[s], u) \in Shown BY <2>2, <2>3, ShownAfterType
    <2>5. dialog' \in [shown : Shown, loading : [Kinds -> SUBSET Tentacles],
                       open : Tentacles \cup {NoTentacle}, mutating : BOOLEAN]
      BY <2>2, <2>4 DEF GitTypeOK
    <2> QED BY <1>12, <2>1, <2>5 DEF ReceiveRead, GitTypeOK, Slot
  <1>13. ASSUME NEW s \in 1..MaxReqs, ReceiveMutation(s)
         PROVE  GitTypeOK'
    <2> DEFINE goesOn == Arrived(s, {"commit"}) /\ reqs[s].follow /\ reqs[s].phase = "ok"
    <2>1. s \in Under /\ reqs' \in Seq(Slot) BY <1>13, ReceivedSteps
    <2>2. reqs[s] \in Request /\ reqs[s].t \in Tentacles /\ reqs[s].answer \in Rev
      BY <1>0, <2>1, UnderType
    <2> PICK u \in Understood(reqs[s]) :
          dialog' = [dialog EXCEPT !.mutating = goesOn, !.shown = ShownAfter(reqs[s], u)]
      BY <1>13 DEF ReceiveMutation
    <2>3. u \in BOOLEAN BY DEF Understood
    <2>4. ShownAfter(reqs[s], u) \in Shown BY <2>2, <2>3, ShownAfterType
    <2>5. goesOn \in BOOLEAN BY DEF Arrived
    <2>6. acked' \in [Tentacles -> Revs]
      <3>1. CASE reqs[s].phase = "ok"
        <4>1. reqs[s].answer \in Revs BY <2>1, <3>1 DEF OkAnswers
        <4> QED BY <1>13, <2>2, <4>1 DEF ReceiveMutation, GitTypeOK
      <3>2. CASE reqs[s].phase # "ok" BY <1>13, <3>2 DEF ReceiveMutation, GitTypeOK
      <3> QED BY <3>1, <3>2
    <2> HIDE DEF goesOn
    <2>7. dialog' \in [shown : Shown, loading : [Kinds -> SUBSET Tentacles],
                       open : Tentacles \cup {NoTentacle}, mutating : BOOLEAN]
      BY <2>4, <2>5 DEF GitTypeOK
    <2> QED BY <1>13, <2>1, <2>6, <2>7 DEF ReceiveMutation, GitTypeOK, Slot
  <1>14. CASE UNCHANGED gitVars BY <1>14 DEF gitVars, GitTypeOK
  <1> QED
    BY <1>1, <1>2, <1>3, <1>4, <1>5, <1>7, <1>8, <1>9, <1>10, <1>11, <1>12, <1>13, <1>14 DEF GitNext

-----------------------------------------------------------------------------
(* What one step does to the requests. *)

\* One is answered, one is received, a mutation is sent, or other changes leave
\* all that are there and add reads alone.
AnswerStep(s) ==
    /\ s \in Under /\ Len(reqs') = Len(reqs)
    /\ \A i \in 1..Len(reqs) : i # s => reqs'[i] = reqs[i]
    /\ reqs'[s] \in Request /\ reqs'[s].op = reqs[s].op
    /\ reqs'[s].phase = "ok" => reqs'[s].answer \in Revs

FetchStep ==
    /\ Len(reqs') \in Nat /\ Len(reqs') >= Len(reqs)
    /\ \A i \in 1..Len(reqs) : reqs'[i] = reqs[i]
    /\ \A i \in 1..Len(reqs') : i > Len(reqs) =>
         reqs'[i] \in Request /\ reqs'[i].op \in Kinds /\ reqs'[i].phase = "sent"

LEMMA ServeSteps ==
  ASSUME GitTypeOK, NEW s \in 1..MaxReqs, ServeRead(s) \/ ServeMutation(s) \/ Refuse(s)
  PROVE  AnswerStep(s) /\ UNCHANGED dialog
  <1>0. reqs \in Seq(Slot) BY DEF GitTypeOK, Slot
  <1>1. s \in Under BY DEF ServeRead, ServeMutation, Refuse, Sent
  <1>2. CASE ServeRead(s)
    <2>1. reqs[s].op \in Kinds /\ reqs[s].t \in Tentacles
      BY <1>0, <1>1, <1>2, UnderType DEF ServeRead, Sent
    <2> PICK value \in ({readCache[reqs[s].op][reqs[s].t]} \ {Nothing}) \cup {repo[reqs[s].t]} :
          Answered(s, "ok", value)
      BY <1>2 DEF ServeRead
    <2>2. value \in Revs BY <2>1 DEF GitTypeOK, Shown
    <2>3. value \in Rev BY <2>2 DEF Rev
    <2> QED BY <1>0, <1>1, <1>2, <2>2, <2>3, AnsweredType DEF AnswerStep, ServeRead
  <1>3. CASE ServeMutation(s)
    <2>1. reqs[s].t \in Tentacles BY <1>0, <1>1, UnderType
    <2>2. repo[reqs[s].t] + 1 \in Revs BY <1>3, <2>1, GitChangesType DEF ServeMutation
    <2>3. Answered(s, "ok", repo[reqs[s].t] + 1) /\ repo[reqs[s].t] + 1 \in Rev
      BY <1>3, <2>2 DEF ServeMutation, Rev
    <2> QED BY <1>0, <1>1, <1>3, <2>2, <2>3, AnsweredType DEF AnswerStep, ServeMutation
  <1>4. CASE Refuse(s)
    <2>1. Answered(s, "error", Nothing) BY <1>4 DEF Refuse
    <2> QED BY <1>0, <1>1, <1>4, <2>1, AnsweredType, Bounds DEF AnswerStep, Refuse
  <1> QED BY <1>2, <1>3, <1>4

LEMMA OtherSteps ==
  ASSUME GitTypeOK, NEW t \in Tentacles,
         \/ CreatePullRequest(t) \/ OthersChange(t) \/ Appear(t) \/ Disappear(t)
         \/ OpenAgentGitActions(t) \/ CloseAgentGitActions \/ UNCHANGED gitVars
  PROVE  FetchStep /\ dialog'.mutating = dialog.mutating
  <1>0. Len(reqs) \in Nat BY DEF GitTypeOK
  <1>1. CASE UNCHANGED reqs /\ dialog'.mutating = dialog.mutating BY <1>0, <1>1 DEF FetchStep
  <1>2. ASSUME NEW d, Fetch(t, d), d \in {dialog, [dialog EXCEPT !.open = t]}
        PROVE  FetchStep /\ dialog'.mutating = dialog.mutating
    <2>1. dialog'.mutating = dialog.mutating BY <1>2 DEF Fetch, GitTypeOK
    <2>2. /\ Len(reqs') = Len(reqs) + 2
          /\ \A i \in 1..Len(reqs) : reqs'[i] = reqs[i]
          /\ \A i \in {Len(reqs) + 1, Len(reqs) + 2} :
               reqs'[i] \in Request /\ reqs'[i].op \in Kinds /\ reqs'[i].phase = "sent"
      BY <1>2, FetchSteps
    <2>3. \A i \in 1..Len(reqs') : i > Len(reqs) => i \in {Len(reqs) + 1, Len(reqs) + 2}
      BY <1>0, <2>2
    <2> QED BY <1>0, <2>1, <2>2, <2>3 DEF FetchStep
  <1>3. CASE Appear(t) \/ OpenAgentGitActions(t)
    BY <1>2, <1>3 DEF Appear, OpenAgentGitActions
  <1>4. CASE Disappear(t) \/ CloseAgentGitActions
    BY <1>1, <1>4 DEF Disappear, CloseAgentGitActions, GitTypeOK
  <1>5. CASE CreatePullRequest(t) \/ OthersChange(t) \/ UNCHANGED gitVars
    BY <1>1, <1>5 DEF CreatePullRequest, OthersChange, gitVars
  <1> QED BY <1>3, <1>4, <1>5

LEMMA RequestIsUnder ==
  ASSUME NEW r \in Request
  PROVE  r # Done
  BY DEF Request, Done

LEMMA NextAnswers ==
  ASSUME GitTypeOK, OkAnswers, [GitNext]_gitVars
  PROVE  OkAnswers'
  <1>0. reqs \in Seq(Slot) /\ reqs' \in Seq(Slot)
    BY NextType DEF GitTypeOK, Slot
  <1>1. Under = {i \in 1..Len(reqs) : reqs[i] # Done}
            /\ Under' = {i \in 1..Len(reqs') : reqs'[i] # Done}
    BY <1>0 DEF Under
  <1>2. ASSUME NEW s \in 1..MaxReqs, AnswerStep(s)
        PROVE  OkAnswers'
    BY <1>1, <1>2 DEF AnswerStep, OkAnswers
  <1>3. CASE FetchStep
    BY <1>0, <1>1, <1>3 DEF FetchStep, OkAnswers
  <1>4. ASSUME NEW s \in 1..MaxReqs, ReceiveRead(s) \/ ReceiveMutation(s)
        PROVE  OkAnswers'
    BY <1>1, <1>4, ReceivedSteps DEF OkAnswers
  <1>5. ASSUME NEW op \in Mutations, NEW f \in BOOLEAN, Mutate(op, f)
        PROVE  OkAnswers'
    BY <1>0, <1>1, <1>5, MutateSteps DEF OkAnswers
  <1>6. CASE UNCHANGED gitVars BY <1>6 DEF gitVars, OkAnswers, Under
  <1>7. CASE CloseAgentGitActions BY <1>7 DEF CloseAgentGitActions, OkAnswers, Under
  <1> QED BY <1>2, <1>3, <1>4, <1>5, <1>6, <1>7, ServeSteps, OtherSteps DEF GitNext

\* Every request, dialog and cache keeps its shape, in whatever order requests
\* are served and answers arrive, for any tentacles and bounds.
THEOREM TypeCorrect == GitSpec => []GitTypeOK
  <1>1. GitInit => GitTypeOK /\ OkAnswers
    <2> SUFFICES ASSUME GitInit PROVE GitTypeOK /\ OkAnswers OBVIOUS
    <2>1. Under = {} BY DEF GitInit, Under
    <2> QED BY <2>1, InitType DEF OkAnswers
  <1>2. GitTypeOK /\ OkAnswers /\ [GitNext]_gitVars => (GitTypeOK /\ OkAnswers)'
    BY NextType, NextAnswers
  <1> QED BY <1>1, <1>2, PTL DEF GitSpec

-----------------------------------------------------------------------------
(* The read cache. *)

\* No mutation is ahead of its repository: why what is read anew is new enough.
CacheInv ==
    /\ CacheFollowsMutations
    /\ \A t \in Tentacles : mutated[t] <= repo[t]

LEMMA NextCache ==
  ASSUME GitTypeOK, CacheInv, [GitNext]_gitVars
  PROVE  CacheInv'
  <1>0. reqs \in Seq(Slot) BY DEF GitTypeOK, Slot
  <1>1. ASSUME NEW s \in 1..MaxReqs, ServeRead(s)
        PROVE  CacheInv'
    <2>1. s \in Under BY <1>1 DEF ServeRead, Sent
    <2>2. reqs[s].op \in Kinds /\ reqs[s].t \in Tentacles
      BY <1>0, <1>1, <2>1, UnderType DEF ServeRead, Sent
    <2> PICK value \in ({readCache[reqs[s].op][reqs[s].t]} \ {Nothing}) \cup {repo[reqs[s].t]} :
          readCache' = [readCache EXCEPT ![reqs[s].op][reqs[s].t] = value]
      BY <1>1 DEF ServeRead
    <2>3. value >= mutated[reqs[s].t] BY <2>2 DEF CacheInv, CacheFollowsMutations
    <2>4. UNCHANGED <<repo, mutated>> BY <1>1 DEF ServeRead
    <2> QED BY <2>2, <2>3, <2>4 DEF CacheInv, CacheFollowsMutations, GitTypeOK, Shown
  <1>2. ASSUME NEW t \in Tentacles, GitChanges(t), InvalidateTentacle(t)
        PROVE  CacheInv'
    <2>1. ASSUME NEW u \in Tentacles
          PROVE  mutated'[u] <= repo'[u]
      <3>1. CASE u = t
        <4>1. mutated'[u] = repo[t] + 1 /\ repo'[u] = repo[t] + 1
          BY <1>2, <3>1 DEF GitChanges, GitTypeOK
        <4>2. repo[t] + 1 \in Nat BY Bounds DEF GitTypeOK
        <4> QED BY <4>1, <4>2
      <3>2. CASE u # t
        <4>1. mutated'[u] = mutated[u] /\ repo'[u] = repo[u]
          BY <1>2, <3>2 DEF GitChanges, GitTypeOK
        <4> QED BY <4>1 DEF CacheInv
      <3> QED BY <3>1, <3>2
    <2>2. ASSUME NEW k \in Kinds, NEW u \in Tentacles, readCache'[k][u] # Nothing
          PROVE  readCache'[k][u] >= mutated'[u]
      <3>1. u # t BY <1>2, <2>2, InvalidateType
      <3> QED
        BY <1>2, <2>2, <3>1, InvalidateType, GitChangesType DEF CacheInv, CacheFollowsMutations
    <2> QED BY <2>1, <2>2 DEF CacheInv, CacheFollowsMutations
  <1>3. ASSUME NEW s \in 1..MaxReqs, ServeMutation(s)
        PROVE  CacheInv'
    <2>1. s \in Under BY <1>3 DEF ServeMutation, Sent
    <2>2. reqs[s].t \in Tentacles BY <1>0, <2>1, UnderType
    <2> QED BY <1>2, <1>3, <2>2 DEF ServeMutation
  <1>4. ASSUME NEW t \in Tentacles, CreatePullRequest(t)
        PROVE  CacheInv'
    BY <1>2, <1>4 DEF CreatePullRequest
  <1>5. ASSUME NEW t \in Tentacles, repo' = repo \/ repo' = [repo EXCEPT ![t] = @ + 1],
               UNCHANGED <<readCache, mutated>>
        PROVE  CacheInv'
    <2>1. \A u \in Tentacles : repo[u] \in Nat /\ mutated[u] \in Nat
      BY Bounds DEF GitTypeOK
    <2>2. \A u \in Tentacles : repo'[u] \in {repo[u], repo[u] + 1} BY <1>5 DEF GitTypeOK
    <2> QED BY <1>5, <2>1, <2>2 DEF CacheInv, CacheFollowsMutations
  <1>6. ASSUME NEW s \in 1..MaxReqs, Refuse(s)
        PROVE  CacheInv'
    <2>1. s \in Under BY <1>6 DEF Refuse, Sent
    <2>2. reqs[s].t \in Tentacles BY <1>0, <2>1, UnderType
    <2> QED BY <1>5, <1>6, <2>2 DEF Refuse
  <1>7. ASSUME NEW t \in Tentacles, OthersChange(t)
        PROVE  CacheInv'
    BY <1>5, <1>7 DEF OthersChange
  <1>8. CASE UNCHANGED <<repo, readCache, mutated>>
    BY <1>8 DEF CacheInv, CacheFollowsMutations
  <1> QED
    BY <1>1, <1>3, <1>4, <1>6, <1>7, <1>8
    DEF GitNext, Appear, Disappear, OpenAgentGitActions, CloseAgentGitActions, Mutate,
        ReceiveRead, ReceiveMutation, gitVars

\* What the API serves from its read cache is never older than a mutation it
\* ran and reported, whoever else changes the repository in between.
THEOREM CacheIsNeverStale == GitSpec => []CacheFollowsMutations
  <1>1. GitInit => CacheInv BY DEF GitInit, CacheInv, CacheFollowsMutations
  <1>2. GitTypeOK /\ CacheInv /\ [GitNext]_gitVars => CacheInv' BY NextCache
  <1>3. CacheInv => CacheFollowsMutations BY DEF CacheInv
  <1> QED BY <1>1, <1>2, <1>3, TypeCorrect, PTL DEF GitSpec

-----------------------------------------------------------------------------
(* One mutation at a time. *)

MutationsUnder == {s \in Under : reqs[s].op \in Mutations}

\* OneMutation without its cardinality.
MutationInv ==
    /\ \A r, s \in MutationsUnder : r = s
    /\ dialog.mutating <=> MutationsUnder # {}

LEMMA NextMutation ==
  ASSUME GitTypeOK, OkAnswers, MutationInv, [GitNext]_gitVars
  PROVE  MutationInv'
  <1>0. reqs \in Seq(Slot) /\ reqs' \in Seq(Slot) BY NextType DEF GitTypeOK, Slot
  <1>1. /\ MutationsUnder = {i \in 1..Len(reqs) : reqs[i] # Done /\ reqs[i].op \in Mutations}
        /\ MutationsUnder' = {i \in 1..Len(reqs') : reqs'[i] # Done /\ reqs'[i].op \in Mutations}
    BY <1>0 DEF Under, MutationsUnder
  <1>2. Kinds \cap Mutations = {} BY DEF Kinds, Mutations
  <1>3. dialog.mutating \in BOOLEAN BY DEF GitTypeOK
  <1>4. CASE MutationsUnder' = MutationsUnder /\ dialog'.mutating = dialog.mutating
    BY <1>4 DEF MutationInv
  <1>5. ASSUME NEW s \in 1..MaxReqs, AnswerStep(s), UNCHANGED dialog
        PROVE  MutationInv'
    <2>1. s \in 1..Len(reqs) /\ reqs[s] # Done BY <1>0, <1>5, UnderType DEF AnswerStep, Under
    <2>2. reqs'[s] # Done BY <1>5, RequestIsUnder DEF AnswerStep
    <2>3. MutationsUnder' = MutationsUnder BY <1>1, <1>5, <2>1, <2>2 DEF AnswerStep
    <2> QED BY <1>4, <1>5, <2>3
  <1>6. CASE FetchStep /\ dialog'.mutating = dialog.mutating
    <2>1. 1..Len(reqs) \subseteq 1..Len(reqs') BY <1>0, <1>6 DEF FetchStep
    <2>2. \A i \in 1..Len(reqs') : i > Len(reqs) => reqs'[i].op \notin Mutations
      BY <1>2, <1>6 DEF FetchStep
    <2>3. \A i \in 1..Len(reqs') : i > Len(reqs) \/ i \in 1..Len(reqs) BY <1>0
    <2>4. MutationsUnder' = MutationsUnder BY <1>1, <1>6, <2>1, <2>2, <2>3 DEF FetchStep
    <2> QED BY <1>4, <1>6, <2>4
  <1>7. ASSUME NEW op \in Mutations, NEW f \in BOOLEAN, Mutate(op, f)
        PROVE  MutationInv'
    <2>1. MutationsUnder = {} BY <1>7 DEF Mutate, DialogReady, MutationInv
    <2>2. dialog'.mutating = TRUE BY <1>7 DEF Mutate, GitTypeOK
    <2>3. /\ Len(reqs') = Len(reqs) + 1 /\ Len(reqs) \in Nat
          /\ \A i \in 1..Len(reqs) : reqs'[i] = reqs[i]
          /\ reqs'[Len(reqs) + 1] # Done /\ reqs'[Len(reqs) + 1].op \in Mutations
      BY <1>0, <1>7, MutateSteps, RequestIsUnder
    <2>4. MutationsUnder' = {Len(reqs) + 1}
      <3>1. 1..Len(reqs') = 1..Len(reqs) \cup {Len(reqs) + 1} BY <2>3
      <3> QED BY <1>1, <2>1, <2>3, <3>1
    <2> QED BY <2>2, <2>4 DEF MutationInv
  <1>8. ASSUME NEW s \in 1..MaxReqs, ReceiveRead(s)
        PROVE  MutationInv'
    <2>1. reqs[s].op \notin Mutations BY <1>2, <1>8 DEF ReceiveRead, Arrived
    <2>2. dialog'.mutating = dialog.mutating
      <3> PICK u \in Understood(reqs[s]) :
            dialog' = [dialog EXCEPT !.loading[reqs[s].op] = @ \ {reqs[s].t},
                                     !.shown = ShownAfter(reqs[s], u)]
        BY <1>8 DEF ReceiveRead
      <3> QED BY DEF GitTypeOK
    <2>3. reqs'[s] = Done
      <3>1. s \in 1..Len(reqs) BY <1>0, <1>8 DEF ReceiveRead, Arrived, Under
      <3>2. reqs' = [reqs EXCEPT ![s] = Done] BY <1>8 DEF ReceiveRead
      <3> QED BY <1>0, <3>1, <3>2
    <2>4. Len(reqs') = Len(reqs) /\ \A i \in 1..Len(reqs) : i # s => reqs'[i] = reqs[i]
      BY <1>8, ReceivedSteps
    <2>5. MutationsUnder' = MutationsUnder BY <1>1, <2>1, <2>3, <2>4
    <2> QED BY <1>4, <2>2, <2>5
  <1>9. ASSUME NEW s \in 1..MaxReqs, ReceiveMutation(s)
        PROVE  MutationInv'
    <2> DEFINE goesOn == Arrived(s, {"commit"}) /\ reqs[s].follow /\ reqs[s].phase = "ok"
    <2>1. s \in MutationsUnder BY <1>9 DEF ReceiveMutation, Arrived, MutationsUnder
    <2>2. MutationsUnder = {s} BY <2>1 DEF MutationInv
    <2>3. Len(reqs') = Len(reqs) /\ \A i \in 1..Len(reqs) : i # s => reqs'[i] = reqs[i]
      BY <1>9, ReceivedSteps
    <2>4. MutationsUnder' \subseteq {s} BY <1>1, <2>2, <2>3
    <2>5. dialog'.mutating = goesOn
      <3> PICK u \in Understood(reqs[s]) :
            dialog' = [dialog EXCEPT !.mutating = goesOn, !.shown = ShownAfter(reqs[s], u)]
        BY <1>9 DEF ReceiveMutation
      <3> HIDE DEF goesOn
      <3> QED BY DEF GitTypeOK
    <2>6. s \in 1..Len(reqs) /\ reqs[s].t \in Tentacles BY <1>0, <2>1, UnderType DEF MutationsUnder
    <2>7. CASE goesOn
      <3>1. reqs' = [reqs EXCEPT ![s] = NewRequest("push", reqs[s].t, FALSE)]
        BY <1>9, <2>7 DEF ReceiveMutation
      <3>2. reqs'[s] = NewRequest("push", reqs[s].t, FALSE)
        <4> DEFINE next == NewRequest("push", reqs[s].t, FALSE)
        <4>1. reqs' = [reqs EXCEPT ![s] = next] BY <3>1
        <4> HIDE DEF next
        <4>2. reqs'[s] = next BY <1>0, <2>6, <4>1
        <4> QED BY <4>2 DEF next
      <3>3. reqs'[s] # Done /\ reqs'[s].op = "push" BY <3>2 DEF NewRequest, Done
      <3>4. s \in MutationsUnder' BY <1>1, <2>3, <2>6, <3>3 DEF Mutations
      <3> QED BY <2>4, <2>5, <2>7, <3>4 DEF MutationInv
    <2>8. CASE ~goesOn
      <3>1. reqs' = [reqs EXCEPT ![s] = Done] BY <1>9, <2>8 DEF ReceiveMutation
      <3>2. reqs'[s] = Done BY <1>0, <2>6, <3>1
      <3>3. MutationsUnder' = {} BY <1>1, <2>4, <3>2
      <3> QED BY <2>5, <2>8, <3>3 DEF MutationInv
    <2> QED BY <2>7, <2>8
  <1>10. CASE CloseAgentGitActions
    <2>1. UNCHANGED reqs /\ dialog'.mutating = dialog.mutating
      BY <1>10 DEF CloseAgentGitActions, GitTypeOK
    <2> QED BY <1>1, <1>4, <2>1
  <1>11. CASE UNCHANGED gitVars BY <1>1, <1>4, <1>11 DEF gitVars
  <1> QED BY <1>5, <1>6, <1>7, <1>8, <1>9, <1>10, <1>11, ServeSteps, OtherSteps DEF GitNext

\* A git mutation is never started beside another one, and the dialog that is
\* disabled for it is released when and only when it is over, whichever
\* tentacles were closed, opened or deleted meanwhile.
THEOREM MutationsOneByOne == GitSpec => []OneMutation
  <1>1. GitInit => GitTypeOK /\ OkAnswers /\ MutationInv
    <2> SUFFICES ASSUME GitInit PROVE GitTypeOK /\ OkAnswers /\ MutationInv OBVIOUS
    <2>1. Under = {} BY DEF GitInit, Under
    <2>2. MutationsUnder = {} /\ dialog.mutating = FALSE BY <2>1 DEF GitInit, MutationsUnder
    <2> QED BY <2>1, <2>2, InitType DEF OkAnswers, MutationInv
  <1>2. GitTypeOK /\ OkAnswers /\ MutationInv /\ [GitNext]_gitVars
            => (GitTypeOK /\ OkAnswers /\ MutationInv)'
    BY NextType, NextAnswers, NextMutation
  <1>3. MutationInv => OneMutation
    <2> SUFFICES ASSUME MutationInv PROVE OneMutation OBVIOUS
    <2>1. MutationsUnder = {} \/ \E s \in MutationsUnder : MutationsUnder = {s} BY DEF MutationInv
    <2>2. Cardinality(MutationsUnder) <= 1
      <3>1. CASE MutationsUnder = {} BY <3>1, FS_EmptySet
      <3>2. ASSUME NEW s \in MutationsUnder, MutationsUnder = {s}
            PROVE  Cardinality(MutationsUnder) <= 1
        BY <3>2, FS_Singleton
      <3> QED BY <2>1, <3>1, <3>2
    <2> QED BY <2>2 DEF MutationInv, OneMutation, MutationsUnder
  <1> QED BY <1>1, <1>2, <1>3, PTL DEF GitSpec

-----------------------------------------------------------------------------
(* What is shown follows what was acknowledged. *)

\* As long as no fetch of a tentacle overlaps another request of it, at most one
\* read of each kind is under way for it, none beside a mutation, and the dialog
\* knows of those reads.
Alone(t) ==
    /\ \A r, s \in UnderFor(t) : reqs[r].op \in Kinds /\ reqs[r].op = reqs[s].op => r = s
    /\ \A r, s \in UnderFor(t) : reqs[r].op \in Mutations => reqs[s].op \notin Kinds
    /\ t \in present => \A s \in UnderFor(t) :
         reqs[s].op \in Kinds => t \in dialog.loading[reqs[s].op]

UpToDate(t) ==
    /\ dialog.shown["status"][t] # Nothing => dialog.shown["status"][t] >= acked[t]
    /\ \A s \in UnderFor(t) :
         reqs[s].op = "status" /\ reqs[s].phase = "ok" => reqs[s].answer >= acked[t]

\* Nothing is acknowledged that the API has not done.
AckedBehind ==
    /\ \A t \in Tentacles : acked[t] <= mutated[t]
    /\ \A s \in Under : reqs[s].op \in Mutations /\ reqs[s].phase = "ok" =>
         reqs[s].answer <= mutated[reqs[s].t]

ShownInv ==
    /\ dialog.open \in present \cup {NoTentacle}
    /\ AckedBehind
    /\ \A t \in Tentacles \ overlapped : Alone(t) /\ UpToDate(t)

\* A step after which no more is under way for a tentacle than before, and which
\* forgets no loading of it, leaves it alone.
LEMMA AloneKept ==
  ASSUME NEW t, Alone(t),
         \A i \in UnderFor(t)' : /\ i \in UnderFor(t)
                                 /\ \/ reqs'[i].op = reqs[i].op
                                    \/ reqs'[i].op \in Mutations /\ reqs[i].op \in Mutations,
         t \in present' => t \in present,
         t \in present' => \A i \in UnderFor(t)' :
           reqs'[i].op \in Kinds /\ t \in dialog.loading[reqs'[i].op]
               => t \in dialog'.loading[reqs'[i].op]
  PROVE  Alone(t)'
  <1>0. Kinds \cap Mutations = {} BY DEF Kinds, Mutations
  <1>1. \A i \in UnderFor(t)' : reqs'[i].op \in Kinds
            => i \in UnderFor(t) /\ reqs'[i].op = reqs[i].op
    BY <1>0
  <1>2. \A i \in UnderFor(t)' : reqs'[i].op \in Mutations
            => i \in UnderFor(t) /\ reqs[i].op \in Mutations
    OBVIOUS
  <1>3. \A r, s \in UnderFor(t)' : reqs'[r].op \in Kinds /\ reqs'[r].op = reqs'[s].op => r = s
    BY <1>1 DEF Alone
  <1>4. \A r, s \in UnderFor(t)' : reqs'[r].op \in Mutations => reqs'[s].op \notin Kinds
    BY <1>1, <1>2 DEF Alone
  <1>5. t \in present' => \A s \in UnderFor(t)' : reqs'[s].op \in Kinds
            => t \in dialog'.loading[reqs'[s].op]
    BY <1>1 DEF Alone
  <1> QED BY <1>3, <1>4, <1>5 DEF Alone

LEMMA UpToDateKept ==
  ASSUME NEW t, UpToDate(t), acked'[t] = acked[t],
         dialog'.shown["status"][t] \in {Nothing, dialog.shown["status"][t]},
         \A i \in UnderFor(t)' : reqs'[i].op = "status" /\ reqs'[i].phase = "ok" =>
            \/ i \in UnderFor(t) /\ reqs'[i] = reqs[i]
            \/ reqs'[i].answer >= acked[t]
  PROVE  UpToDate(t)'
  BY DEF UpToDate

\* A step that changes nothing of what the invariant speaks of.
LEMMA RestKeeps ==
  ASSUME ShownInv, UNCHANGED <<present, dialog, reqs, acked, overlapped>>, GitTypeOK, GitTypeOK',
         \A t \in Tentacles : mutated[t] <= mutated'[t]
  PROVE  ShownInv'
  <1>0. \A t \in Tentacles : acked[t] \in Nat /\ mutated[t] \in Nat /\ mutated'[t] \in Nat
    BY Bounds DEF GitTypeOK
  <1>1. Under' = Under /\ \A t : UnderFor(t)' = UnderFor(t) BY DEF Under, UnderFor
  <1>2. ASSUME NEW t \in Tentacles \ overlapped' PROVE Alone(t)' /\ UpToDate(t)'
    BY <1>1, <1>2 DEF ShownInv, Alone, UpToDate
  <1>3. \A s \in Under : reqs[s].t \in Tentacles /\ reqs[s].answer \in Rev
    BY UnderType DEF GitTypeOK, Slot
  <1>4. \A s \in Under : reqs[s].answer \in Nat BY <1>3, Bounds DEF Rev, Nothing
  <1>5. AckedBehind' BY <1>0, <1>1, <1>3, <1>4 DEF ShownInv, AckedBehind
  <1> QED BY <1>2, <1>5 DEF ShownInv

LEMMA ServeShown ==
  ASSUME GitTypeOK, GitTypeOK', OkAnswers', CacheInv, ShownInv, NEW s \in 1..MaxReqs,
         ServeRead(s) \/ ServeMutation(s) \/ Refuse(s)
  PROVE  ShownInv'
  <1>0. reqs \in Seq(Slot) /\ reqs' \in Seq(Slot) BY DEF GitTypeOK, Slot
  <1>1. /\ s \in Under /\ s \in 1..Len(reqs) /\ reqs[s].t \in Tentacles
        /\ UNCHANGED <<present, dialog, acked, overlapped>>
    BY <1>0, UnderType DEF ServeRead, ServeMutation, Refuse, Sent
  <1>2. PICK p \in {"ok", "error"}, a \in Rev :
          /\ Answered(s, p, a)
          /\ p = "ok" /\ reqs[s].op \in Kinds => a >= mutated[reqs[s].t]
          /\ p = "ok" /\ reqs[s].op \in Mutations => a = mutated'[reqs[s].t]
    <2>1. CASE ServeRead(s)
      <3>1. reqs[s].op \in Kinds BY <2>1 DEF ServeRead, Sent
      <3>2. PICK value \in ({readCache[reqs[s].op][reqs[s].t]} \ {Nothing}) \cup {repo[reqs[s].t]} :
              Answered(s, "ok", value)
        BY <2>1 DEF ServeRead
      <3>3. value \in Rev BY <1>1, <3>1 DEF GitTypeOK, Shown, Rev
      <3>4. value >= mutated[reqs[s].t] BY <1>1, <3>1 DEF CacheInv, CacheFollowsMutations
      <3>5. reqs[s].op \notin Mutations BY <3>1 DEF Kinds, Mutations
      <3> QED BY <3>2, <3>3, <3>4, <3>5
    <2>2. CASE ServeMutation(s)
      <3>1. reqs[s].op \notin Kinds BY <2>2 DEF ServeMutation, Sent, Kinds, Mutations
      <3>2. mutated'[reqs[s].t] = repo[reqs[s].t] + 1 /\ repo[reqs[s].t] + 1 \in Rev
        BY <1>1, <2>2, GitChangesType, Bounds DEF ServeMutation
      <3>3. Answered(s, "ok", repo[reqs[s].t] + 1) BY <2>2 DEF ServeMutation
      <3> QED BY <3>1, <3>2, <3>3
    <2>3. CASE Refuse(s)
      <3>1. Answered(s, "error", Nothing) BY <2>3 DEF Refuse
      <3> QED BY <3>1, Bounds
    <2> QED BY <2>1, <2>2, <2>3
  <1>3. /\ Len(reqs') = Len(reqs) /\ \A i \in 1..Len(reqs) : i # s => reqs'[i] = reqs[i]
        /\ reqs'[s] \in Request /\ reqs'[s].op = reqs[s].op /\ reqs'[s].t = reqs[s].t
        /\ reqs'[s].phase = p /\ reqs'[s].answer = a
    BY <1>0, <1>1, <1>2, AnsweredType
  <1>4. reqs'[s] # Done /\ reqs[s] # Done BY <1>1, <1>3, RequestIsUnder DEF Under
  <1>5. Under' = Under /\ \A t : UnderFor(t)' = UnderFor(t)
    BY <1>0, <1>1, <1>3, <1>4 DEF Under, UnderFor
  <1>6. \A t \in Tentacles : acked[t] \in Nat /\ mutated[t] \in Nat /\ mutated'[t] \in Nat
    BY Bounds DEF GitTypeOK
  <1>7. \A t \in Tentacles : mutated[t] <= mutated'[t]
    <2>1. CASE ServeMutation(s)
      <3>1. /\ mutated'[reqs[s].t] = repo[reqs[s].t] + 1 /\ repo[reqs[s].t] \in Nat
            /\ \A t \in Tentacles \ {reqs[s].t} : mutated'[t] = mutated[t]
        BY <1>1, <2>1, GitChangesType, Bounds DEF ServeMutation, GitTypeOK
      <3>2. mutated[reqs[s].t] <= repo[reqs[s].t] BY <1>1 DEF CacheInv
      <3>3. mutated[reqs[s].t] <= mutated'[reqs[s].t] BY <1>1, <1>6, <3>1, <3>2
      <3> QED BY <1>6, <3>1, <3>3
    <2>2. CASE UNCHANGED mutated BY <1>6, <2>2
    <2> QED BY <2>1, <2>2 DEF ServeRead, ServeMutation, Refuse
  <1>8. ASSUME NEW t \in Tentacles \ overlapped'
        PROVE  Alone(t)' /\ UpToDate(t)'
    <2>1. Alone(t) /\ UpToDate(t) BY <1>1, <1>8 DEF ShownInv
    <2>0. \A i \in UnderFor(t)' : /\ i \in UnderFor(t) /\ i \in 1..Len(reqs)
                                  /\ reqs'[i].op = reqs[i].op
                                  /\ i # s => reqs'[i] = reqs[i]
      BY <1>0, <1>3, <1>5 DEF Under, UnderFor
    <2>2. Alone(t)' BY <1>1, <2>0, <2>1, AloneKept
    <2>3. s \in UnderFor(t) /\ reqs[s].op = "status" /\ p = "ok" => a >= acked[t]
      <3> SUFFICES ASSUME s \in UnderFor(t), reqs[s].op = "status", p = "ok" PROVE a >= acked[t]
        OBVIOUS
      <3>1. a >= mutated[t] /\ acked[t] <= mutated[t]
        BY <1>2 DEF UnderFor, Kinds, ShownInv, AckedBehind
      <3>2. a \in Nat BY Bounds DEF Rev, Nothing
      <3> QED BY <1>6, <3>1, <3>2
    <2>4. \A i \in UnderFor(t)' : reqs'[i].op = "status" /\ reqs'[i].phase = "ok" =>
            \/ i \in UnderFor(t) /\ reqs'[i] = reqs[i]
            \/ reqs'[i].answer >= acked[t]
      BY <1>3, <2>0, <2>3
    <2>5. UpToDate(t)' BY <1>1, <2>1, <2>4, UpToDateKept
    <2> QED BY <2>2, <2>5
  <1>9. AckedBehind'
    <2>1. \A t \in Tentacles : acked'[t] <= mutated'[t]
      BY <1>1, <1>6, <1>7 DEF ShownInv, AckedBehind
    <2>2. ASSUME NEW i \in Under', reqs'[i].op \in Mutations, reqs'[i].phase = "ok"
          PROVE  reqs'[i].answer <= mutated'[reqs'[i].t]
      <3>1. i \in Under BY <1>5
      <3>2. CASE i = s BY <1>1, <1>2, <1>3, <1>6, <2>2, <3>2
      <3>3. CASE i # s
        <4>1. reqs'[i] = reqs[i] /\ reqs[i].t \in Tentacles /\ reqs[i].answer \in Rev
          BY <1>0, <1>3, <3>1, <3>3, UnderType
        <4>2. reqs[i].answer <= mutated[reqs[i].t] BY <2>2, <3>1, <4>1 DEF ShownInv, AckedBehind
        <4>3. reqs[i].answer \in Nat BY <4>1, Bounds DEF Rev, Nothing
        <4> QED BY <1>6, <1>7, <4>1, <4>2, <4>3
      <3> QED BY <3>2, <3>3
    <2> QED BY <2>1, <2>2 DEF AckedBehind
  <1> QED BY <1>1, <1>8, <1>9 DEF ShownInv

LEMMA FetchShown ==
  ASSUME GitTypeOK, GitTypeOK', ShownInv, NEW t \in Tentacles, NEW d, Fetch(t, d),
         d = dialog \/ d = [dialog EXCEPT !.open = t],
         t \in present', present' \subseteq present \cup {t}, present \subseteq present',
         UNCHANGED <<mutated, acked>>
  PROVE  ShownInv'
  <1>0. reqs \in Seq(Slot) /\ reqs' \in Seq(Slot) /\ Len(reqs) \in Nat BY DEF GitTypeOK, Slot
  <1> DEFINE n == Len(reqs)
  <1>1. /\ Len(reqs') = n + 2 /\ \A i \in 1..n : reqs'[i] = reqs[i]
        /\ \A i \in {n + 1, n + 2} : /\ reqs'[i] \in Request /\ reqs'[i].op \in Kinds
                                     /\ reqs'[i].phase = "sent" /\ reqs'[i].t = t
        /\ reqs'[n + 1].op # reqs'[n + 2].op
    BY FetchSteps
  <1>2. /\ dialog'.shown = dialog.shown /\ dialog'.open \in {dialog.open, t}
        /\ dialog'.loading = [k \in Kinds |-> dialog.loading[k] \cup {t}]
    <2>1. dialog' = [d EXCEPT !.loading = [k \in Kinds |-> d.loading[k] \cup {t}]] BY DEF Fetch
    <2> QED BY <2>1 DEF GitTypeOK
  <1>3. /\ overlapped \subseteq overlapped'
        /\ t \notin overlapped' => UnderFor(t) = {}
    BY DEF Fetch
  <1>4. Under' = Under \cup {n + 1, n + 2}
    <2>1. 1..Len(reqs') = 1..n \cup {n + 1, n + 2} BY <1>0, <1>1
    <2>2. reqs'[n + 1] # Done /\ reqs'[n + 2] # Done BY <1>1, RequestIsUnder
    <2> QED BY <1>0, <1>1, <2>1, <2>2 DEF Under
  <1>5. \A i \in Under : i \in 1..n /\ i # n + 1 /\ i # n + 2 /\ reqs'[i] = reqs[i]
    BY <1>0, <1>1 DEF Under
  <1>6. \A u \in Tentacles : u # t => UnderFor(u)' = UnderFor(u)
    BY <1>1, <1>4, <1>5 DEF UnderFor
  <1>7. UnderFor(t) = {} => UnderFor(t)' = {n + 1, n + 2}
    BY <1>1, <1>4, <1>5 DEF UnderFor
  <1> HIDE DEF n
  <1>8. ASSUME NEW u \in Tentacles \ overlapped', u # t
        PROVE  Alone(u)' /\ UpToDate(u)'
    <2>1. Alone(u) /\ UpToDate(u) BY <1>3, <1>8 DEF ShownInv
    <2>2. \A i \in UnderFor(u)' : i \in UnderFor(u) /\ reqs'[i] = reqs[i]
      BY <1>5, <1>6, <1>8 DEF UnderFor
    <2>3. u \in present' => u \in present BY <1>8
    <2>4. \A k \in Kinds : u \in dialog.loading[k] => u \in dialog'.loading[k] BY <1>2
    <2>5. Alone(u)' BY <2>1, <2>2, <2>3, <2>4, AloneKept
    <2>6. UpToDate(u)' BY <1>2, <2>1, <2>2, UpToDateKept
    <2> QED BY <2>5, <2>6
  <1>9. ASSUME t \notin overlapped'
        PROVE  Alone(t)' /\ UpToDate(t)'
    <2>1. UnderFor(t)' = {n + 1, n + 2} BY <1>3, <1>7, <1>9
    <2>2. UpToDate(t) BY <1>3, <1>9 DEF ShownInv
    <2>3. \A k \in Kinds : t \in dialog'.loading[k] BY <1>2
    <2>4. Kinds \cap Mutations = {} BY DEF Kinds, Mutations
    <2>5. Alone(t)' BY <1>1, <2>1, <2>3, <2>4 DEF Alone
    <2>6. UpToDate(t)' BY <1>1, <1>2, <2>1, <2>2 DEF UpToDate
    <2> QED BY <2>5, <2>6
  <1>10. AckedBehind'
    <2>1. Kinds \cap Mutations = {} BY DEF Kinds, Mutations
    <2>2. \A i \in Under' : reqs'[i].op \in Mutations => i \in Under /\ reqs'[i] = reqs[i]
      BY <1>1, <1>4, <1>5, <2>1
    <2> QED BY <2>2 DEF ShownInv, AckedBehind
  <1>11. dialog'.open \in present' \cup {NoTentacle} BY <1>2 DEF ShownInv
  <1> QED BY <1>8, <1>9, <1>10, <1>11 DEF ShownInv

LEMMA DisappearShown ==
  ASSUME GitTypeOK, GitTypeOK', ShownInv, NEW t \in Tentacles, Disappear(t)
  PROVE  ShownInv'
  <1>1. /\ present' = present \ {t}
        /\ UNCHANGED <<reqs, mutated, acked, overlapped>>
    BY DEF Disappear
  <1>2. /\ \A u \in Tentacles : dialog'.shown["status"][u] \in {Nothing, dialog.shown["status"][u]}
        /\ \A u \in Tentacles \ {t}, k \in Kinds :
             u \in dialog.loading[k] => u \in dialog'.loading[k]
        /\ dialog'.open = IF dialog.open = t THEN NoTentacle ELSE dialog.open
    BY DEF Disappear, GitTypeOK, Shown, Kinds
  <1>3. Under' = Under /\ \A u : UnderFor(u)' = UnderFor(u) BY <1>1 DEF Under, UnderFor
  <1>4. ASSUME NEW u \in Tentacles \ overlapped'
        PROVE  Alone(u)' /\ UpToDate(u)'
    <2>1. Alone(u) /\ UpToDate(u) BY <1>1, <1>4 DEF ShownInv
    <2>2. Alone(u)' BY <1>1, <1>2, <1>3, <2>1, AloneKept
    <2>3. UpToDate(u)' BY <1>1, <1>2, <1>3, <2>1, UpToDateKept
    <2> QED BY <2>2, <2>3
  <1>5. AckedBehind' BY <1>1, <1>3 DEF ShownInv, AckedBehind
  <1>6. dialog'.open \in present' \cup {NoTentacle} BY <1>1, <1>2 DEF ShownInv
  <1> QED BY <1>4, <1>5, <1>6 DEF ShownInv

LEMMA CloseShown ==
  ASSUME GitTypeOK, ShownInv, CloseAgentGitActions
  PROVE  ShownInv'
  <1>1. UNCHANGED <<present, reqs, mutated, acked, overlapped>> BY DEF CloseAgentGitActions
  <1>2. /\ dialog'.open = NoTentacle
        /\ dialog'.shown = dialog.shown /\ dialog'.loading = dialog.loading
    BY DEF CloseAgentGitActions, GitTypeOK
  <1>3. Under' = Under /\ \A u : UnderFor(u)' = UnderFor(u) BY <1>1 DEF Under, UnderFor
  <1>4. ASSUME NEW u \in Tentacles \ overlapped'
        PROVE  Alone(u)' /\ UpToDate(u)'
    BY <1>1, <1>2, <1>3, <1>4, AloneKept, UpToDateKept DEF ShownInv
  <1>5. AckedBehind' BY <1>1, <1>3 DEF ShownInv, AckedBehind
  <1> QED BY <1>2, <1>4, <1>5 DEF ShownInv

LEMMA MutateShown ==
  ASSUME GitTypeOK, GitTypeOK', MutationInv, ShownInv,
         NEW op \in Mutations, NEW f \in BOOLEAN, Mutate(op, f)
  PROVE  ShownInv'
  <1>0. reqs \in Seq(Slot) /\ reqs' \in Seq(Slot) /\ Len(reqs) \in Nat BY DEF GitTypeOK, Slot
  <1> DEFINE n == Len(reqs)
  <1> PICK t \in Tentacles : t = dialog.open BY DEF Mutate, DialogReady, GitTypeOK
  <1>1. /\ Len(reqs') = n + 1 /\ \A i \in 1..n : reqs'[i] = reqs[i]
        /\ reqs'[n + 1] \in Request /\ reqs'[n + 1].op = op /\ reqs'[n + 1].phase = "sent"
        /\ reqs'[n + 1].t = t
    BY MutateSteps
  <1>2. /\ UNCHANGED <<present, mutated, acked, overlapped>>
        /\ dialog'.shown = dialog.shown /\ dialog'.open = dialog.open
        /\ dialog'.loading = dialog.loading
    BY DEF Mutate, GitTypeOK
  <1>3. t \in present /\ \A k \in Kinds : t \notin dialog.loading[k]
    BY DEF Mutate, DialogReady, ShownInv
  <1>4. \A i \in Under : reqs[i].op \in Kinds
    <2>1. MutationsUnder = {} BY DEF Mutate, DialogReady, MutationInv
    <2> QED BY <1>0, <2>1, UnderType DEF MutationsUnder
  <1>5. Under' = Under \cup {n + 1} /\ \A i \in Under : i \in 1..n /\ i # n + 1
            /\ reqs'[i] = reqs[i]
    <2>1. 1..Len(reqs') = 1..n \cup {n + 1} BY <1>0, <1>1
    <2>2. reqs'[n + 1] # Done BY <1>1, RequestIsUnder
    <2> QED BY <1>0, <1>1, <2>1, <2>2 DEF Under
  <1>6. \A u \in Tentacles : u # t => UnderFor(u)' = UnderFor(u) BY <1>1, <1>5 DEF UnderFor
  <1>7. UnderFor(t)' = UnderFor(t) \cup {n + 1} BY <1>1, <1>5 DEF UnderFor
  <1> HIDE DEF n
  <1>8. ASSUME NEW u \in Tentacles \ overlapped'
        PROVE  Alone(u)' /\ UpToDate(u)'
    <2>1. Alone(u) /\ UpToDate(u) BY <1>2, <1>8 DEF ShownInv
    <2>2. \A i \in UnderFor(u) : i \in Under /\ reqs'[i] = reqs[i] BY <1>5 DEF UnderFor
    <2>3. CASE u # t
      <3>1. \A i \in UnderFor(u)' : i \in UnderFor(u) /\ reqs'[i] = reqs[i]
        BY <1>6, <1>8, <2>2, <2>3
      <3>2. Alone(u)' BY <1>2, <2>1, <3>1, AloneKept
      <3>3. UpToDate(u)' BY <1>2, <2>1, <3>1, UpToDateKept
      <3> QED BY <3>2, <3>3
    <2>4. CASE u = t
      <3>1. UnderFor(t) = {} BY <1>3, <1>4, <2>1, <2>2, <2>4 DEF Alone
      <3>2. UnderFor(t)' = {n + 1} BY <1>7, <3>1
      <3>3. op \notin Kinds BY DEF Kinds, Mutations
      <3>4. Alone(u)' BY <1>1, <2>4, <3>2, <3>3 DEF Alone
      <3>5. UpToDate(u)' BY <1>1, <1>2, <2>1, <2>4, <3>2 DEF UpToDate
      <3> QED BY <3>4, <3>5
    <2> QED BY <2>3, <2>4
  <1>9. AckedBehind'
    <2>1. \A i \in Under' : reqs'[i].phase = "ok" => i \in Under /\ reqs'[i] = reqs[i]
      BY <1>1, <1>5
    <2> QED BY <1>2, <2>1 DEF ShownInv, AckedBehind
  <1> QED BY <1>2, <1>8, <1>9 DEF ShownInv

LEMMA ReceiveReadShown ==
  ASSUME GitTypeOK, GitTypeOK', ShownInv, NEW s \in 1..MaxReqs, ReceiveRead(s)
  PROVE  ShownInv'
  <1>0. reqs \in Seq(Slot) /\ reqs' \in Seq(Slot) BY DEF GitTypeOK, Slot
  <1>1. /\ s \in Under /\ s \in 1..Len(reqs) /\ reqs[s] \in Request
        /\ reqs[s].op \in Kinds /\ reqs[s].t \in Tentacles
    BY <1>0, UnderType DEF ReceiveRead, Arrived
  <1>2. UNCHANGED <<present, mutated, acked, overlapped>> BY DEF ReceiveRead
  <1>3. PICK u \in Understood(reqs[s]) :
          dialog' = [dialog EXCEPT !.loading[reqs[s].op] = @ \ {reqs[s].t},
                                   !.shown = ShownAfter(reqs[s], u)]
    BY DEF ReceiveRead
  <1>4. /\ dialog'.open = dialog.open /\ dialog'.shown = ShownAfter(reqs[s], u)
        /\ \A k \in Kinds, t \in Tentacles :
             k # reqs[s].op \/ t # reqs[s].t
               => (t \in dialog.loading[k] => t \in dialog'.loading[k])
    BY <1>1, <1>3 DEF GitTypeOK
  <1>5. reqs' = [reqs EXCEPT ![s] = Done] BY DEF ReceiveRead
  <1>6. /\ Len(reqs') = Len(reqs) /\ reqs'[s] = Done
        /\ \A i \in 1..Len(reqs) : i # s => reqs'[i] = reqs[i]
    BY <1>0, <1>1, <1>5
  <1>7. Under' = Under \ {s} /\ \A i \in Under' : reqs'[i] = reqs[i] BY <1>0, <1>6 DEF Under
  <1>8. \A t : UnderFor(t)' = UnderFor(t) \ {s} BY <1>7 DEF UnderFor
  <1>9. \A t \in Tentacles :
          \/ dialog'.shown["status"][t] = dialog.shown["status"][t]
          \/ /\ t = reqs[s].t /\ reqs[s].op = "status" /\ reqs[s].phase = "ok"
             /\ dialog'.shown["status"][t] = reqs[s].answer
    <2>1. CASE u /\ reqs[s].op = "status"
      <3>1. dialog'.shown = [dialog.shown EXCEPT !["status"][reqs[s].t] = reqs[s].answer]
        BY <1>4, <2>1 DEF ShownAfter
      <3>2. reqs[s].phase = "ok" BY <1>1, <2>1 DEF ReceiveRead, Arrived, Understood, Request
      <3> QED BY <1>1, <2>1, <3>1, <3>2 DEF GitTypeOK, Shown, Kinds
    <2>2. CASE ~(u /\ reqs[s].op = "status")
      <3>1. CASE ~u BY <1>4, <3>1 DEF ShownAfter
      <3>2. CASE u /\ reqs[s].op = "pr"
        BY <1>1, <1>4, <3>2 DEF ShownAfter, GitTypeOK, Shown, Kinds
      <3> QED BY <1>1, <2>2, <3>1, <3>2 DEF Kinds
    <2> QED BY <2>1, <2>2
  <1>10. ASSUME NEW t \in Tentacles \ overlapped'
         PROVE  Alone(t)' /\ UpToDate(t)'
    <2>1. Alone(t) /\ UpToDate(t) BY <1>2, <1>10 DEF ShownInv
    <2>2. \A i \in UnderFor(t)' : i \in UnderFor(t) /\ reqs'[i] = reqs[i] /\ i # s
      BY <1>7, <1>8 DEF UnderFor
    <2>3. \A i \in UnderFor(t)' : reqs'[i].op \in Kinds /\ t \in dialog.loading[reqs'[i].op]
                                  => t \in dialog'.loading[reqs'[i].op]
      <3> SUFFICES ASSUME NEW i \in UnderFor(t)', reqs[i].op \in Kinds,
              t \in dialog.loading[reqs[i].op]
                   PROVE  t \in dialog'.loading[reqs[i].op]
        BY <2>2
      <3>1. t # reqs[s].t \/ reqs[s].op # reqs[i].op
        BY <1>1, <2>1, <2>2 DEF Alone, UnderFor
      <3> QED BY <1>4, <1>10, <3>1
    <2>4. Alone(t)' BY <1>2, <2>1, <2>2, <2>3, AloneKept
    <2>5. dialog'.shown["status"][t] # Nothing => dialog'.shown["status"][t] >= acked[t]
      BY <1>1, <1>9, <1>10, <2>1 DEF UpToDate, UnderFor
    <2>6. UpToDate(t)' BY <1>2, <2>1, <2>2, <2>5 DEF UpToDate
    <2> QED BY <2>4, <2>6
  <1>11. AckedBehind' BY <1>2, <1>7 DEF ShownInv, AckedBehind
  <1> QED BY <1>2, <1>4, <1>10, <1>11 DEF ShownInv

LEMMA ReceiveMutationShown ==
  ASSUME GitTypeOK, GitTypeOK', MutationInv, ShownInv, NEW s \in 1..MaxReqs, ReceiveMutation(s)
  PROVE  ShownInv'
  <1>0. reqs \in Seq(Slot) /\ reqs' \in Seq(Slot) BY DEF GitTypeOK, Slot
  <1> DEFINE goesOn == Arrived(s, {"commit"}) /\ reqs[s].follow /\ reqs[s].phase = "ok"
  <1>1. /\ s \in Under /\ s \in 1..Len(reqs) /\ reqs[s] \in Request /\ reqs[s].answer \in Rev
        /\ reqs[s].op \in Mutations /\ reqs[s].op \notin Kinds /\ reqs[s].t \in Tentacles
    BY <1>0, UnderType DEF ReceiveMutation, Arrived, Kinds, Mutations
  <1>2. UNCHANGED <<present, mutated, overlapped>> BY DEF ReceiveMutation
  <1>3. PICK u \in Understood(reqs[s]) :
          dialog' = [dialog EXCEPT !.mutating = goesOn, !.shown = ShownAfter(reqs[s], u)]
    BY DEF ReceiveMutation
  <1> HIDE DEF goesOn
  <1>4. /\ dialog'.open = dialog.open /\ dialog'.shown = ShownAfter(reqs[s], u)
        /\ dialog'.loading = dialog.loading
    BY <1>3 DEF GitTypeOK
  <1>5. /\ Len(reqs') = Len(reqs) /\ \A i \in 1..Len(reqs) : i # s => reqs'[i] = reqs[i]
        /\ \/ reqs'[s] = Done
           \/ reqs'[s].op = "push" /\ reqs'[s].phase = "sent" /\ reqs'[s].t = reqs[s].t
    BY ReceivedSteps
  <1>6. \A i \in Under' : /\ i \in Under
                          /\ \/ i # s /\ reqs'[i] = reqs[i]
                             \/ /\ i = s /\ reqs'[i].t = reqs[i].t
                                /\ reqs'[i].op = "push" /\ reqs'[i].phase = "sent"
    BY <1>0, <1>1, <1>5 DEF Under
  <1>7. \A t, i : i \in UnderFor(t)' => i \in UnderFor(t) /\ i \in Under' BY <1>6 DEF UnderFor
  <1>8. \A t \in Tentacles :
          \/ acked'[t] = acked[t] /\ dialog'.shown["status"][t] = dialog.shown["status"][t]
          \/ /\ t = reqs[s].t /\ reqs[s].phase = "ok"
             /\ acked'[t] = reqs[s].answer /\ dialog'.shown["status"][t] = reqs[s].answer
    <2>1. CASE reqs[s].phase = "ok" /\ reqs[s].op # "merge"
      <3>1. acked' = [acked EXCEPT ![reqs[s].t] = reqs[s].answer] BY <2>1 DEF ReceiveMutation
      <3>2. reqs[s].op \notin {"pr", "merge"} BY <1>1, <2>1 DEF Kinds
      <3>3. u = TRUE BY <2>1, <3>2 DEF Understood
      <3>4. dialog'.shown = [dialog.shown EXCEPT !["status"][reqs[s].t] = reqs[s].answer]
        BY <1>4, <3>2, <3>3 DEF ShownAfter
      <3> QED BY <1>1, <2>1, <3>1, <3>4 DEF GitTypeOK, Shown, Kinds
    <2>2. CASE reqs[s].op = "merge"
      <3>1. acked' = acked BY <2>2 DEF ReceiveMutation
      <3>2. dialog'.shown["status"] = dialog.shown["status"]
        BY <1>4, <2>2 DEF ShownAfter, GitTypeOK, Shown, Kinds
      <3> QED BY <3>1, <3>2
    <2>3. CASE reqs[s].phase # "ok"
      <3>1. acked' = acked BY <2>3 DEF ReceiveMutation
      <3>2. reqs[s].phase = "error"
        BY <1>1, <2>3 DEF ReceiveMutation, Arrived, Request
      <3>3. dialog'.shown = dialog.shown BY <1>4, <3>2 DEF ShownAfter, Understood
      <3> QED BY <3>1, <3>3
    <2> QED BY <2>1, <2>2, <2>3
  <1>9. ASSUME NEW t \in Tentacles \ overlapped'
        PROVE  Alone(t)' /\ UpToDate(t)'
    <2>1. Alone(t) /\ UpToDate(t) BY <1>2, <1>9 DEF ShownInv
    <2>2. \A i \in UnderFor(t)' : /\ i \in UnderFor(t)
                                  /\ \/ reqs'[i].op = reqs[i].op
                                     \/ reqs'[i].op \in Mutations /\ reqs[i].op \in Mutations
      BY <1>1, <1>6, <1>7 DEF Mutations
    <2>3. Alone(t)' BY <1>2, <1>4, <2>1, <2>2, AloneKept
    <2>4. CASE acked'[t] = acked[t] /\ dialog'.shown["status"][t] = dialog.shown["status"][t]
      <3>1. \A i \in UnderFor(t)' : reqs'[i].op = "status" /\ reqs'[i].phase = "ok" =>
              i \in UnderFor(t) /\ reqs'[i] = reqs[i]
        BY <1>6, <1>7
      <3>2. UpToDate(t)' BY <2>1, <2>4, <3>1, UpToDateKept
      <3> QED BY <2>3, <3>2
    <2>5. CASE /\ t = reqs[s].t /\ reqs[s].phase = "ok"
               /\ acked'[t] = reqs[s].answer /\ dialog'.shown["status"][t] = reqs[s].answer
      <3>1. s \in UnderFor(t) BY <1>1, <2>5 DEF UnderFor
      <3>2. \A i \in UnderFor(t)' : reqs'[i].op # "status"
        BY <1>1, <1>6, <1>7, <2>1, <3>1 DEF Alone, Kinds
      <3>3. reqs[s].answer \in Nat BY <1>1, Bounds DEF Rev, Nothing
      <3>4. UpToDate(t)' BY <2>5, <3>2, <3>3 DEF UpToDate
      <3> QED BY <2>3, <3>4
    <2> QED BY <1>8, <1>9, <2>4, <2>5
  <1>10. AckedBehind'
    <2>1. \A i \in Under' : reqs'[i].phase = "ok" => i \in Under /\ reqs'[i] = reqs[i] BY <1>6
    <2>2. \A t \in Tentacles : acked'[t] <= mutated[t]
      BY <1>1, <1>8 DEF ShownInv, AckedBehind
    <2> QED BY <1>2, <2>1, <2>2 DEF ShownInv, AckedBehind
  <1> QED BY <1>2, <1>4, <1>9, <1>10 DEF ShownInv

LEMMA NextShown ==
  ASSUME GitTypeOK, GitTypeOK', OkAnswers', CacheInv, MutationInv, ShownInv, [GitNext]_gitVars
  PROVE  ShownInv'
  <1>0. \A t \in Tentacles : mutated[t] \in Nat /\ repo[t] \in Nat BY Bounds DEF GitTypeOK
  <1>1. ASSUME NEW s \in 1..MaxReqs, \/ ServeRead(s) \/ ServeMutation(s) \/ Refuse(s)
                                     \/ ReceiveRead(s) \/ ReceiveMutation(s)
        PROVE  ShownInv'
    BY <1>1, ServeShown, ReceiveReadShown, ReceiveMutationShown
  <1>2. ASSUME NEW t \in Tentacles, CreatePullRequest(t)
        PROVE  ShownInv'
    <2>1. \A u \in Tentacles : mutated'[u] = IF u = t THEN repo[t] + 1 ELSE mutated[u]
      BY <1>2, GitChangesType DEF CreatePullRequest
    <2>2. mutated[t] <= repo[t] BY DEF CacheInv
    <2>3. \A u \in Tentacles : mutated[u] <= mutated'[u] BY <1>0, <2>1, <2>2
    <2> QED BY <1>2, <2>3, RestKeeps DEF CreatePullRequest
  <1>3. ASSUME NEW t \in Tentacles, OthersChange(t)
        PROVE  ShownInv'
    BY <1>0, <1>3, RestKeeps DEF OthersChange
  <1>4. ASSUME NEW t \in Tentacles, Appear(t) \/ OpenAgentGitActions(t)
        PROVE  ShownInv'
    <2>1. CASE Appear(t) BY <2>1, FetchShown DEF Appear
    <2>2. CASE OpenAgentGitActions(t) BY <2>2, FetchShown DEF OpenAgentGitActions
    <2> QED BY <1>4, <2>1, <2>2
  <1>5. CASE UNCHANGED gitVars BY <1>0, <1>5, RestKeeps DEF gitVars
  <1> QED
    BY <1>1, <1>2, <1>3, <1>4, <1>5, DisappearShown, CloseShown, MutateShown DEF GitNext

\* The git dialog keeps its types, its caches follow the mutations, mutations run
\* one at a time, and what it shows of a tentacle whose fetches never overlapped
\* another request is not from before a mutation that the user was told of.
THEOREM DialogIsSafe == GitSpec => []GitSafe
  <1> DEFINE GitInv == GitTypeOK /\ OkAnswers /\ CacheInv /\ MutationInv /\ ShownInv
  <1>1. GitInit => GitInv
    <2> SUFFICES ASSUME GitInit PROVE GitInv OBVIOUS
    <2>1. Under = {} /\ \A t : UnderFor(t) = {} BY DEF GitInit, Under, UnderFor
    <2>2. MutationsUnder = {} /\ dialog.mutating = FALSE BY <2>1 DEF GitInit, MutationsUnder
    <2>3. \A t \in Tentacles : dialog.shown["status"][t] \in {Nothing, 1} BY DEF GitInit, Kinds
    <2>4. \A t \in Tentacles : Alone(t) /\ UpToDate(t)
      <3>1. \A t \in Tentacles : Alone(t) BY <2>1 DEF Alone
      <3>2. \A t \in Tentacles : acked[t] = 1 BY DEF GitInit
      <3>3. \A t \in Tentacles : UpToDate(t) BY <2>1, <2>3, <3>2 DEF UpToDate
      <3> QED BY <3>1, <3>3
    <2>5. ShownInv BY <2>1, <2>4 DEF GitInit, ShownInv, AckedBehind
    <2>6. CacheInv BY DEF GitInit, CacheInv, CacheFollowsMutations
    <2> QED BY <2>1, <2>2, <2>5, <2>6, InitType DEF OkAnswers, MutationInv
  <1>2. GitInv /\ [GitNext]_gitVars => GitInv'
    BY NextType, NextAnswers, NextCache, NextMutation, NextShown
  <1>3. GitInv => GitTypeOK /\ ShownFollowsMutations
    BY DEF ShownInv, UpToDate, ShownFollowsMutations, GitTypeOK
  <1> HIDE DEF GitInv
  <1>4. GitTypeOK /\ CacheFollowsMutations /\ OneMutation /\ ShownFollowsMutations => GitSafe
    BY DEF GitSafe
  <1> QED BY <1>1, <1>2, <1>3, <1>4, CacheIsNeverStale, MutationsOneByOne, PTL DEF GitSpec

-----------------------------------------------------------------------------
(* GithubSummary: one collection at a time, and a page whose history does  *)
(* not go back.                                                            *)

-----------------------------------------------------------------------------
(* The sequence of the collections has one element at most. *)

LEMMA RemoveOnly ==
  ASSUME NEW r
  PROVE  GithubSeqs!RemoveAt(<<r>>, 1) = <<>>
  BY DEF GithubSeqs!RemoveAt

\* The inductive form of OneRefresh, with the types.
OneInv ==
    /\ GithubTypeOK
    /\ refreshes = <<>> \/ \E r \in Collection : refreshes = <<r>>
    /\ inFlight <=> refreshes # <<>>
    /\ poll.request.phase = "awaiting" => inFlight

LEMMA OnlyCollection ==
  ASSUME OneInv, NEW i \in DOMAIN refreshes
  PROVE  i = 1 /\ \E r \in Collection : refreshes = <<r>> /\ refreshes[i] = r /\ inFlight
  <1>1. refreshes # <<>> OBVIOUS
  <1>2. PICK r \in Collection : refreshes = <<r>> BY <1>1 DEF OneInv
  <1>3. DOMAIN refreshes = {1} /\ refreshes[1] = r BY <1>2
  <1> QED BY <1>1, <1>2, <1>3 DEF OneInv

LEMMA Values ==
  /\ 0 \in Commits /\ \A n \in 1..MaxCommits : n \in Commits
  /\ \A n \in Commits : n \in Nat
  /\ FailedSummary \in RepoSummary /\ NoRequest \in PageRequest
  /\ Started \in Collection
  /\ \A s \in RepoSummary \cup {NoRepoSummary} : AnsweredWith(s) \in PageRequest
  BY GithubAssumption
  DEF Commits, FailedSummary, RepoSummary, NoRequest, PageRequest, Started, Collection,
      AnsweredWith, Unread, NoRepoSummary

-----------------------------------------------------------------------------
(* One collection at a time. *)

\* What the page does to its request keeps the types, and awaits nothing anew.
LEMMA SendType ==
  ASSUME NEW p \in Polling
  PROVE  /\ Send(p) \in Polling /\ Send(p).request.phase = "sent"
         /\ Send(p).data = p.data /\ Send(p).request.answer = NoRepoSummary
  BY Values DEF Send, Polling, PageRequest, NoRequest

LEMMA FinallyType ==
  ASSUME NEW p \in Polling, Finally(p)
  PROVE  /\ poll' \in Polling /\ poll'.request.phase # "awaiting"
         /\ poll'.data = p.data /\ poll'.request.answer = NoRepoSummary
  <1> DEFINE q == [p EXCEPT !.queued = FALSE]
  <1>1. q \in Polling /\ q.data = p.data BY DEF Polling
  <1>2. CASE p.queued /\ p.enabled
    <2>1. poll' = Send(q) BY <1>2 DEF Finally
    <2> QED BY <1>1, <2>1, SendType
  <1>3. CASE ~(p.queued /\ p.enabled)
    BY <1>3, Values DEF Finally, Polling, NoRequest
  <1> QED BY <1>2, <1>3

\* The page's own steps: it sends, waits for nothing that does not run, or forgets.
LEMMA PageSteps ==
  ASSUME GithubTypeOK,
         Enable \/ Disable \/ Tick \/ Refresh \/ ReceiveSummary \/ RequestFails
  PROVE  /\ UNCHANGED <<head, cached, refreshes, inFlight>>
         /\ poll' \in Polling
         /\ poll'.request.phase = "awaiting" => poll.request.phase = "awaiting"
         /\ poll'.request.answer \in {poll.request.answer, NoRepoSummary}
         /\ \/ poll'.data = poll.data
            \/ poll'.data = poll.request.answer /\ poll'.request.answer = NoRepoSummary
  <1>0. poll \in Polling BY DEF GithubTypeOK
  <1>1. CASE Enable
    <2> DEFINE p == [poll EXCEPT !.enabled = TRUE]
    <2>1. p \in Polling /\ p.data = poll.data /\ p.request = poll.request BY <1>0 DEF Polling
    <2>2. poll' = p \/ poll' = Send(p) BY <1>1 DEF Enable
    <2> HIDE DEF p
    <2> QED BY <1>1, <2>1, <2>2, SendType DEF Enable
  <1>2. CASE Disable BY <1>0, <1>2 DEF Disable, Polling
  <1>3. CASE Tick BY <1>0, <1>3, SendType DEF Tick
  <1>4. CASE Refresh
    <2>1. CASE poll' = [poll EXCEPT !.queued = TRUE] BY <1>0, <1>4, <2>1 DEF Refresh, Polling
    <2>2. CASE poll' = Send(poll) BY <1>0, <1>4, <2>2, SendType DEF Refresh
    <2> QED BY <1>4, <2>1, <2>2 DEF Refresh
  <1>5. CASE ReceiveSummary
    <2> DEFINE p == IF poll.enabled THEN [poll EXCEPT !.data = poll.request.answer] ELSE poll
    <2>1. p \in Polling /\ p.data \in {poll.data, poll.request.answer}
      BY <1>0 DEF Polling, PageRequest
    <2>2. Finally(p) BY <1>5 DEF ReceiveSummary
    <2> HIDE DEF p
    <2> QED BY <1>5, <2>1, <2>2, FinallyType DEF ReceiveSummary
  <1>6. CASE RequestFails BY <1>0, <1>6, FinallyType DEF RequestFails
  <1> QED BY <1>1, <1>2, <1>3, <1>4, <1>5, <1>6

\* A collection that settles is gone, and nobody awaits it any more.
LEMMA SettleSteps ==
  ASSUME OneInv, NEW i \in DOMAIN refreshes, NEW s \in RepoSummary, Settle(i, s)
  PROVE  /\ head' = head /\ refreshes' = <<>> /\ inFlight' = FALSE
         /\ cached' = [snapshot |-> s, fresh |-> TRUE]
         /\ poll' \in Polling /\ poll'.data = poll.data
         /\ poll'.request.phase # "awaiting"
         /\ poll'.request.answer \in {poll.request.answer, s}
  <1>1. PICK r \in Collection : i = 1 /\ refreshes = <<r>> BY OnlyCollection
  <1>2. refreshes' = <<>> BY <1>1, RemoveOnly DEF Settle
  <1>3. poll \in Polling BY DEF OneInv, GithubTypeOK
  <1>4. CASE poll.request.phase = "awaiting"
    <2>1. AnsweredWith(s) \in PageRequest BY Values
    <2>2. poll' = [poll EXCEPT !.request = AnsweredWith(s)] BY <1>4 DEF Settle
    <2>3. AnsweredWith(s).phase = "answered" /\ AnsweredWith(s).answer = s BY DEF AnsweredWith
    <2> QED BY <1>2, <1>3, <2>1, <2>2, <2>3 DEF Settle, Polling
  <1>5. CASE poll.request.phase # "awaiting" BY <1>2, <1>3, <1>5 DEF Settle
  <1> QED BY <1>4, <1>5

\* A collection that settles well brings what it has read.
LEMMA CollectedSteps ==
  ASSUME OneInv, NEW i \in 1..2, Collected(i) \/ CollectionFails(i)
  PROVE  \E s \in RepoSummary :
           /\ i \in DOMAIN refreshes /\ Settle(i, s)
           /\ s.status = "ok" => s.log = refreshes[i].log /\ s.log # Unread
  <1>1. CASE Collected(i)
    <2>1. PICK r \in Collection : refreshes[i] = r BY <1>1, OnlyCollection DEF Collected
    <2> DEFINE s == [status |-> "ok", log |-> refreshes[i].log, stats |-> refreshes[i].stats]
    <2>2. s \in RepoSummary BY <2>1 DEF Collection, RepoSummary
    <2> QED BY <1>1, <2>2 DEF Collected
  <1>2. CASE CollectionFails(i) BY <1>2, Values DEF CollectionFails, FailedSummary
  <1> QED BY <1>1, <1>2

\* A step of a collection that goes on leaves it the only one.
LEMMA ReadingSteps ==
  ASSUME OneInv, NEW i \in 1..2,
         ReadRepository(i) \/ \E what \in {"log", "stats"} : ReadHistory(i, what)
  PROVE  /\ UNCHANGED <<head, cached, inFlight, poll>>
         /\ inFlight
         /\ \E r \in Collection, q \in Collection :
              /\ refreshes = <<r>> /\ refreshes' = <<q>>
              /\ q.log = r.log \/ (r.log = Unread /\ q.log = head)
  <1>1. i \in DOMAIN refreshes BY DEF ReadRepository, ReadHistory
  <1>2. PICK r \in Collection : i = 1 /\ refreshes = <<r>> /\ refreshes[i] = r /\ inFlight
    BY <1>1, OnlyCollection
  <1>3. head \in Commits BY Values DEF OneInv, GithubTypeOK
  <1>4. CASE ReadRepository(i)
    <2> DEFINE q == [r EXCEPT !.step = "reading"]
    <2>1. q \in Collection /\ q.log = r.log BY <1>2 DEF Collection
    <2>2. refreshes' = <<q>> BY <1>2, <1>4 DEF ReadRepository
    <2> QED BY <1>2, <1>4, <2>1, <2>2 DEF ReadRepository
  <1>5. ASSUME NEW what \in {"log", "stats"}, ReadHistory(i, what)
        PROVE  /\ UNCHANGED <<head, cached, inFlight, poll>>
               /\ \E q \in Collection :
                    refreshes' = <<q>> /\ (q.log = r.log \/ (r.log = Unread /\ q.log = head))
    <2>1. UNCHANGED <<head, cached, inFlight, poll>> BY <1>5 DEF ReadHistory
    <2>2. CASE what = "log"
      <3> DEFINE q == [r EXCEPT !.log = head]
      <3>1. q \in Collection /\ q.log = head /\ r.log = Unread
        BY <1>2, <1>3, <1>5, <2>2 DEF ReadHistory, Collection
      <3>2. refreshes' = <<q>> BY <1>2, <1>5, <2>2 DEF ReadHistory
      <3> QED BY <2>1, <3>1, <3>2
    <2>3. CASE what = "stats"
      <3> DEFINE q == [r EXCEPT !.stats = head]
      <3>1. q \in Collection /\ q.log = r.log BY <1>2, <1>3 DEF Collection
      <3>2. refreshes' = <<q>> BY <1>2, <1>5, <2>3 DEF ReadHistory
      <3> QED BY <2>1, <3>1, <3>2
    <2> QED BY <2>2, <2>3
  <1> QED BY <1>2, <1>4, <1>5

LEMMA InitOne == GithubInit => OneInv
  <1> SUFFICES ASSUME GithubInit PROVE OneInv OBVIOUS
  <1>1. cached \in [snapshot : RepoSummary \cup {NoRepoSummary}, fresh : BOOLEAN]
    BY DEF GithubInit, NoCache
  <1>2. poll \in Polling /\ poll.request.phase = "none"
    <2>1. NoRequest \in PageRequest /\ NoRequest.phase = "none" BY Values DEF NoRequest
    <2> QED BY <2>1 DEF GithubInit, Polling
  <1>3. head \in 1..MaxCommits BY GithubAssumption DEF GithubInit
  <1>4. refreshes = <<>> /\ refreshes \in Seq(Collection) /\ inFlight = FALSE BY DEF GithubInit
  <1> QED BY <1>1, <1>2, <1>3, <1>4 DEF OneInv, GithubTypeOK

LEMMA NextOne ==
  ASSUME OneInv, [GithubNext]_githubVars
  PROVE  OneInv'
  <1>1. GithubTypeOK /\ head \in Nat /\ MaxCommits \in Nat
    BY GithubAssumption DEF OneInv, GithubTypeOK
  <1>2. CASE Commit BY <1>1, <1>2 DEF Commit, OneInv, GithubTypeOK
  <1>3. CASE Expire BY <1>1, <1>3 DEF Expire, OneInv, GithubTypeOK
  <1>4. CASE ServeSummary
    <2>1. poll \in Polling /\ cached.snapshot \in RepoSummary \cup {NoRepoSummary}
      BY <1>1 DEF GithubTypeOK
    <2>2. poll' \in Polling /\ (poll'.request.phase = "awaiting" => cached = NoCache)
      <3>1. CASE cached = NoCache BY <1>4, <2>1, <3>1 DEF ServeSummary, Polling, PageRequest
      <3>2. CASE cached # NoCache
        BY <1>4, <2>1, <3>2, Values DEF ServeSummary, Polling, AnsweredWith
      <3> QED BY <3>1, <3>2
    <2>3. CASE UNCHANGED <<refreshes, inFlight>>
      <3>1. inFlight \/ cached.fresh BY <1>4, <2>3 DEF ServeSummary, RunGithubRefresh, OneInv
      <3>2. cached = NoCache => ~cached.fresh BY DEF NoCache
      <3> QED BY <1>1, <1>4, <2>2, <2>3, <3>1, <3>2 DEF ServeSummary, OneInv, GithubTypeOK
    <2>4. CASE ~inFlight /\ refreshes' = Append(refreshes, Started) /\ inFlight' = TRUE
      <3>1. refreshes = <<>> BY <2>4 DEF OneInv
      <3>2. refreshes' = <<Started>> BY <2>4, <3>1
      <3> QED BY <1>1, <1>4, <2>2, <2>4, <3>2, Values DEF ServeSummary, OneInv, GithubTypeOK
    <2> QED BY <1>4, <2>3, <2>4 DEF ServeSummary, RunGithubRefresh
  <1>5. CASE \E i \in 1..2 : ReadRepository(i)
            \/ \E what \in {"log", "stats"} : ReadHistory(i, what)
    <2>1. PICK q \in Collection : /\ UNCHANGED <<head, cached, inFlight, poll>> /\ inFlight
                                  /\ refreshes' = <<q>>
      BY <1>5, ReadingSteps
    <2> QED BY <1>1, <2>1 DEF OneInv, GithubTypeOK
  <1>6. CASE \E i \in 1..2 : Collected(i) \/ CollectionFails(i)
    <2>1. PICK i \in 1..2, s \in RepoSummary : i \in DOMAIN refreshes /\ Settle(i, s)
      BY <1>6, CollectedSteps
    <2>2. /\ head' = head /\ refreshes' = <<>> /\ inFlight' = FALSE
          /\ cached' = [snapshot |-> s, fresh |-> TRUE]
          /\ poll' \in Polling /\ poll'.request.phase # "awaiting"
      BY <2>1, SettleSteps
    <2>3. cached' \in [snapshot : RepoSummary \cup {NoRepoSummary}, fresh : BOOLEAN] BY <2>2
    <2>4. refreshes' \in Seq(Collection) /\ inFlight' \in BOOLEAN
      <3>1. <<>> \in Seq(Collection) OBVIOUS
      <3>2. refreshes' = <<>> /\ inFlight' = FALSE BY <2>2
      <3> QED BY <3>1, <3>2, Zenon
    <2>5. GithubTypeOK' BY <1>1, <2>2, <2>3, <2>4 DEF GithubTypeOK
    <2> QED BY <2>2, <2>5 DEF OneInv
  <1>7. CASE Enable \/ Disable \/ Tick \/ Refresh \/ ReceiveSummary \/ RequestFails
    BY <1>1, <1>7, PageSteps DEF OneInv, GithubTypeOK
  <1>8. CASE UNCHANGED githubVars BY <1>8 DEF githubVars, OneInv, GithubTypeOK
  <1> QED BY <1>2, <1>3, <1>4, <1>5, <1>6, <1>7, <1>8 DEF GithubNext, Collect

LEMMA AlwaysOne == GithubSpec => []OneInv
  <1>1. OneInv /\ [GithubNext]_githubVars => OneInv' BY NextOne
  <1> QED BY InitOne, <1>1, PTL DEF GithubSpec

\* runGithubRefresh: one collection runs at a time, exactly while the flight is
\* set, and nobody awaits a refresh that does not run, however many requests,
\* expiries and failures come.
THEOREM OneRefreshAtATime == GithubSpec => []OneRefresh
  <1>1. ASSUME OneInv PROVE OneRefresh
    <2>1. CASE refreshes = <<>> BY <1>1, <2>1 DEF OneInv, OneRefresh
    <2>2. CASE \E r \in Collection : refreshes = <<r>>
      <3>1. PICK r \in Collection : refreshes = <<r>> BY <2>2
      <3>2. Len(refreshes) = 1 BY <3>1
      <3> QED BY <1>1, <3>2 DEF OneInv, OneRefresh
    <2> QED BY <1>1, <2>1, <2>2 DEF OneInv
  <1> QED BY AlwaysOne, <1>1, PTL

-----------------------------------------------------------------------------
(* What is known of the history only grows on its way to the page. *)

AtMost(s, n) == s.status = "ok" => s.log <= n
Behind(s, r) == s.status = "ok" /\ r.status = "ok" => s.log <= r.log

PageShows == poll.data
Answer == poll.request.answer

\* The page is behind its answer, the answer behind the cache, and all of them
\* behind the collection that runs as soon as it has read the log.
SummaryInv ==
    /\ Behind(PageShows, Answer) /\ Behind(PageShows, cached.snapshot)
    /\ Behind(Answer, cached.snapshot)
    /\ AtMost(PageShows, head) /\ AtMost(Answer, head) /\ AtMost(cached.snapshot, head)
    /\ \A i \in DOMAIN refreshes : refreshes[i].log # Unread =>
         /\ refreshes[i].log <= head
         /\ AtMost(PageShows, refreshes[i].log) /\ AtMost(Answer, refreshes[i].log)
         /\ AtMost(cached.snapshot, refreshes[i].log)

LEMMA LogTypes ==
  ASSUME GithubTypeOK
  PROVE  /\ head \in Nat
         /\ PageShows \in RepoSummary \cup {NoRepoSummary}
         /\ Answer \in RepoSummary \cup {NoRepoSummary}
         /\ cached.snapshot \in RepoSummary \cup {NoRepoSummary}
         /\ \A s \in RepoSummary \cup {NoRepoSummary} : s.log \in Nat
         /\ \A i \in DOMAIN refreshes : refreshes[i].log \in Nat
  <1>1. head \in Nat BY GithubAssumption DEF GithubTypeOK
  <1>2. poll \in Polling BY DEF GithubTypeOK
  <1>3. PageShows \in RepoSummary \cup {NoRepoSummary}
            /\ Answer \in RepoSummary \cup {NoRepoSummary}
    BY <1>2 DEF Polling, PageRequest, PageShows, Answer
  <1>4. cached.snapshot \in RepoSummary \cup {NoRepoSummary} BY DEF GithubTypeOK
  <1>5. \A s \in RepoSummary \cup {NoRepoSummary} : s.log \in Nat
    BY Values DEF RepoSummary, NoRepoSummary
  <1>6. ASSUME NEW i \in DOMAIN refreshes PROVE refreshes[i].log \in Nat
    <2>1. refreshes[i] \in Collection BY <1>6 DEF GithubTypeOK
    <2> QED BY <2>1, Values DEF Collection
  <1> QED BY <1>1, <1>3, <1>4, <1>5, <1>6

LEMMA NoSnapshotBehind ==
  /\ \A n : AtMost(NoRepoSummary, n)
  /\ \A s : Behind(s, NoRepoSummary) /\ Behind(NoRepoSummary, s)
  BY DEF AtMost, Behind, NoRepoSummary

LEMMA InitSummary == GithubInit => SummaryInv
  BY NoSnapshotBehind DEF GithubInit, NoCache, NoRequest, SummaryInv, PageShows, Answer

LEMMA NextSummary ==
  ASSUME OneInv, SummaryInv, [GithubNext]_githubVars
  PROVE  SummaryInv' /\ Behind(PageShows, PageShows')
  <1>0. GithubTypeOK BY DEF OneInv
  <1> DEFINE Value == RepoSummary \cup {NoRepoSummary}
  <1>T. /\ head \in Nat /\ PageShows \in Value /\ Answer \in Value /\ cached.snapshot \in Value
        /\ \A s \in Value : s.log \in Nat /\ Behind(s, s)
        /\ \A i \in DOMAIN refreshes : refreshes[i].log \in Nat
    BY <1>0, LogTypes DEF Behind
  <1> HIDE DEF Value
  <1>1. CASE Commit
    <2>1. head' = head + 1 /\ UNCHANGED <<cached, refreshes, PageShows, Answer>>
      BY <1>1 DEF Commit, PageShows, Answer
    <2> QED BY <1>T, <2>1 DEF SummaryInv, AtMost
  <1>2. CASE Expire
    <2>1. UNCHANGED <<head, cached.snapshot, refreshes, PageShows, Answer>>
      BY <1>0, <1>2 DEF Expire, GithubTypeOK, PageShows, Answer
    <2> QED BY <1>T, <2>1 DEF SummaryInv
  <1>3. CASE ServeSummary
    <2>1. UNCHANGED <<head, cached, PageShows>> /\ Answer' \in {Answer, cached.snapshot}
      <3>1. poll \in Polling BY <1>0 DEF GithubTypeOK
      <3> QED BY <1>3, <3>1 DEF ServeSummary, Polling, PageRequest, AnsweredWith, PageShows, Answer
    <2>2. \/ UNCHANGED refreshes
          \/ DOMAIN refreshes' = {1} /\ refreshes'[1].log = Unread
      <3>1. CASE ~inFlight /\ refreshes' = Append(refreshes, Started)
        <4>1. refreshes = <<>> BY <3>1 DEF OneInv
        <4>2. refreshes' = <<Started>> BY <3>1, <4>1
        <4> QED BY <4>2 DEF Started
      <3>2. CASE UNCHANGED refreshes BY <3>2
      <3> QED BY <1>3, <3>1, <3>2 DEF ServeSummary, RunGithubRefresh
    <2> QED BY <1>T, <2>1, <2>2 DEF SummaryInv
  <1>4. CASE \E i \in 1..2 : ReadRepository(i)
            \/ \E what \in {"log", "stats"} : ReadHistory(i, what)
    <2>1. PICK r \in Collection, q \in Collection :
            /\ UNCHANGED <<head, cached, poll>>
            /\ refreshes = <<r>> /\ refreshes' = <<q>>
            /\ q.log = r.log \/ (r.log = Unread /\ q.log = head)
      BY <1>4, ReadingSteps
    <2>2. /\ DOMAIN refreshes = {1} /\ refreshes[1] = r
          /\ DOMAIN refreshes' = {1} /\ refreshes'[1] = q
      BY <2>1
    <2>3. UNCHANGED <<PageShows, Answer>> BY <2>1 DEF PageShows, Answer
    <2> QED BY <1>T, <2>1, <2>2, <2>3 DEF SummaryInv
  <1>5. CASE \E i \in 1..2 : Collected(i) \/ CollectionFails(i)
    <2>1. PICK i \in 1..2, s \in RepoSummary :
            /\ i \in DOMAIN refreshes /\ Settle(i, s)
            /\ s.status = "ok" => s.log = refreshes[i].log /\ s.log # Unread
      BY <1>5, CollectedSteps
    <2>2. /\ UNCHANGED <<head, PageShows>> /\ DOMAIN refreshes' = {}
          /\ cached'.snapshot = s /\ Answer' \in {Answer, s}
      <3>1. /\ head' = head /\ refreshes' = <<>> /\ cached' = [snapshot |-> s, fresh |-> TRUE]
            /\ poll'.data = poll.data /\ poll'.request.answer \in {poll.request.answer, s}
        BY <2>1, SettleSteps
      <3>2. DOMAIN refreshes' = {} BY <3>1
      <3> QED BY <3>1, <3>2 DEF PageShows, Answer
    <2>3. /\ AtMost(s, head) /\ Behind(PageShows, s) /\ Behind(Answer, s)
          /\ Behind(s, s)
      BY <1>T, <2>1 DEF SummaryInv, AtMost, Behind, Value
    <2> QED BY <1>T, <2>2, <2>3 DEF SummaryInv
  <1>6. CASE Enable \/ Disable \/ Tick \/ Refresh \/ ReceiveSummary \/ RequestFails
    <2>1. /\ UNCHANGED <<head, cached, refreshes>>
          /\ Answer' \in {Answer, NoRepoSummary}
          /\ PageShows' = PageShows \/ (PageShows' = Answer /\ Answer' = NoRepoSummary)
      BY <1>0, <1>6, PageSteps DEF PageShows, Answer
    <2> QED BY <1>T, <2>1, NoSnapshotBehind DEF SummaryInv
  <1>7. CASE UNCHANGED githubVars
    BY <1>T, <1>7 DEF githubVars, SummaryInv, PageShows, Answer
  <1> QED BY <1>1, <1>2, <1>3, <1>4, <1>5, <1>6, <1>7 DEF GithubNext, Collect

\* usePollingData over readGithubRepoSummaryCached: from one step to the next,
\* what the page shows of the history never goes back, whatever is served stale,
\* collected in the background, refused or fetched again.
THEOREM ShownMovesForward == GithubSpec => [][ShownNeverGoesBack]_githubVars
  <1>1. OneInv /\ SummaryInv /\ [GithubNext]_githubVars => SummaryInv' BY NextSummary
  <1>2. ASSUME OneInv, SummaryInv, [GithubNext]_githubVars PROVE ShownNeverGoesBack
    <2>1. Behind(PageShows, PageShows') BY <1>2, NextSummary
    <2>2. OneInv' BY <1>2, NextOne
    <2>3. poll.data.log \in Nat BY <1>2, LogTypes DEF OneInv, PageShows
    <2>4. poll'.data \in RepoSummary \cup {NoRepoSummary}
      BY <2>2 DEF OneInv, GithubTypeOK, Polling
    <2>5. poll'.data.log \in Nat BY <2>4, Values DEF RepoSummary, NoRepoSummary
    <2> QED BY <2>1, <2>3, <2>5 DEF Behind, PageShows, ShownNeverGoesBack
  <1> QED BY AlwaysOne, InitSummary, <1>1, <1>2, PTL DEF GithubSpec

-----------------------------------------------------------------------------
(* A forced refresh is not forgotten. *)

LEMMA PhaseTells ==
  ASSUME NEW r, r.phase # "none"
  PROVE  r # NoRequest
  BY DEF NoRequest

LEMMA FinallyAsks ==
  ASSUME NEW p \in Polling, Finally(p)
  PROVE  ~poll'.queued
  <1> DEFINE q == [p EXCEPT !.queued = FALSE]
  <1>1. q \in Polling /\ ~q.queued BY DEF Polling
  <1>2. CASE p.queued /\ p.enabled
    <2>1. poll' = Send(q) BY <1>2 DEF Finally
    <2> HIDE DEF q
    <2> QED BY <1>1, <2>1 DEF Send, Polling
  <1>3. CASE ~(p.queued /\ p.enabled) BY <1>3 DEF Finally, Polling
  <1> QED BY <1>2, <1>3

LEMMA NextQueued ==
  ASSUME OneInv, QueuedRefreshFollows, [GithubNext]_githubVars
  PROVE  QueuedRefreshFollows'
  <1>0. poll \in Polling BY DEF OneInv, GithubTypeOK
  <1> USE DEF QueuedRefreshFollows, Busy
  <1>1. CASE UNCHANGED poll BY <1>1
  <1>2. CASE ServeSummary
    <2>1. poll'.request.phase \in {"awaiting", "answered"}
      BY <1>0, <1>2 DEF ServeSummary, Polling, PageRequest, AnsweredWith
    <2> QED BY <2>1, PhaseTells
  <1>3. ASSUME NEW i, NEW s, Settle(i, s)
        PROVE  QueuedRefreshFollows'
    <2>1. CASE poll.request.phase = "awaiting"
      <3>1. poll'.request.phase = "answered" BY <1>0, <1>3, <2>1 DEF Settle, Polling, AnsweredWith
      <3> QED BY <3>1, PhaseTells
    <2>2. CASE poll.request.phase # "awaiting" BY <1>1, <1>3, <2>2 DEF Settle
    <2> QED BY <2>1, <2>2
  <1>4. ASSUME NEW p \in Polling, poll' = Send(p)
        PROVE  QueuedRefreshFollows'
    BY <1>4, SendType, PhaseTells
  <1>5. CASE Enable
    <2> DEFINE p == [poll EXCEPT !.enabled = TRUE]
    <2>1. p \in Polling /\ p.queued = poll.queued /\ p.request = poll.request BY <1>0 DEF Polling
    <2>2. (Busy /\ poll' = p) \/ poll' = Send(p) BY <1>5 DEF Enable
    <2> HIDE DEF p
    <2> QED BY <1>4, <2>1, <2>2
  <1>6. CASE Disable
    <2>1. poll'.queued = poll.queued /\ poll'.request = poll.request
      BY <1>0, <1>6 DEF Disable, Polling
    <2> QED BY <2>1
  <1>7. CASE Tick BY <1>0, <1>4, <1>7 DEF Tick
  <1>8. CASE Refresh
    <2>1. CASE Busy /\ poll' = [poll EXCEPT !.queued = TRUE] BY <1>0, <2>1 DEF Polling
    <2>2. CASE poll' = Send(poll) BY <1>0, <1>4, <2>2
    <2> QED BY <1>8, <2>1, <2>2 DEF Refresh
  <1>9. CASE ReceiveSummary
    <2> DEFINE p == IF poll.enabled THEN [poll EXCEPT !.data = poll.request.answer] ELSE poll
    <2>1. p \in Polling /\ Finally(p) BY <1>0, <1>9 DEF ReceiveSummary, Polling, PageRequest
    <2> HIDE DEF p
    <2> QED BY <2>1, FinallyAsks
  <1>10. CASE RequestFails BY <1>0, <1>10, FinallyAsks DEF RequestFails
  <1> QED
    BY <1>1, <1>2, <1>3, <1>5, <1>6, <1>7, <1>8, <1>9, <1>10
    DEF GithubNext, Collect, Commit, ReadRepository, ReadHistory, Collected, CollectionFails,
        Expire, githubVars

\* The repository summary keeps its types, collects one at a time, and forgets
\* no refresh that the user asked for while a fetch was under way.
THEOREM SummaryIsSafe == GithubSpec => []GithubSafe
  <1>1. GithubInit => QueuedRefreshFollows BY DEF GithubInit, QueuedRefreshFollows
  <1>2. OneInv /\ QueuedRefreshFollows /\ [GithubNext]_githubVars => QueuedRefreshFollows'
    BY NextQueued
  <1>3. GithubTypeOK /\ OneRefresh /\ QueuedRefreshFollows => GithubSafe BY DEF GithubSafe
  <1>4. OneInv => GithubTypeOK BY DEF OneInv
  <1> QED BY AlwaysOne, OneRefreshAtATime, <1>1, <1>2, <1>3, <1>4, PTL DEF GithubSpec
=============================================================================
