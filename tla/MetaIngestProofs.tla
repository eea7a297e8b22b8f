-------------------------- MODULE MetaIngestProofs --------------------------
(***************************************************************************)
(* Proofs about MetaIngest for any number of messages, ids, webhook calls  *)
(* and restarts, whatever the bound on the clock.                          *)
(*                                                                         *)
(* AtMostOnce is not inductive: nothing in it says why two processes       *)
(* cannot both be about to save.  The strengthening does.  A process       *)
(* between claim and save owns a claim that is not stale (Owned), no two   *)
(* own the same one (Exclusive), and the answer "not stored yet" it got    *)
(* stays true until it saves (Fresh).                                      *)
(***************************************************************************)
EXTENDS MetaIngest, TLAPS

USE IngestAssumption

LEMMA InitType == Init => TypeOK
BY DEF Init, TypeOK, Procs, Paths, PCs, Never

\* A process only ever moves to a step of the program.
LEMMA StepType ==
    ASSUME TypeOK, NEW p \in Procs, Step(p)
    PROVE  TypeOK'
<1> USE DEF TypeOK, GoTo, Granted, Rest, PCs, Holding, Procs, envVars, storeVars, pollVars
<1>1. CASE ClaimInsert(p)
  BY <1>1 DEF ClaimInsert
<1>2. CASE ClaimDuplicateKey(p)
  BY <1>2 DEF ClaimDuplicateKey
<1>3. CASE ClaimTakeOver(p)
  BY <1>3 DEF ClaimTakeOver
<1>4. CASE ClaimRefused(p)
  BY <1>4 DEF ClaimRefused
<1>5. CASE ClaimUnavailable(p)
  BY <1>5 DEF ClaimUnavailable
<1>6. CASE releaseMetaEvent(p)
  BY <1>6 DEF releaseMetaEvent
<1>7. CASE ReleaseUnavailable(p)
  BY <1>7 DEF ReleaseUnavailable
<1>8. CASE Check(p)
  BY <1>8 DEF Check
<1>9. CASE TwinCheck(p)
  BY <1>9 DEF TwinCheck
<1>10. CASE Save(p)
  <2>1. PathOf(p) \in Paths
    BY DEF PathOf, Paths
  <2>2. copies' \in [Ids -> [Paths -> Nat]]
    BY <1>10, <2>1 DEF Save
  <2> QED BY <1>10, <2>2 DEF Save
<1>11. CASE Count(p)
  BY <1>11 DEF Count
<1>12. CASE Announce(p)
  BY <1>12 DEF Announce
<1> QED BY <1>1, <1>2, <1>3, <1>4, <1>5, <1>6, <1>7, <1>8, <1>9, <1>10, <1>11, <1>12 DEF Step

LEMMA WebhookType ==
    ASSUME TypeOK, NEW w \in Workers, Webhook(w)
    PROVE  TypeOK'
<1> USE DEF TypeOK, GoTo, PCs, Holding, Procs, envVars, storeVars, pollVars
<1>1. ASSUME NEW id \in WebhookIds, WebhookArrives(w, id)
      PROVE  TypeOK'
  BY <1>1 DEF WebhookArrives
<1>2. CASE CheckThrows(w)
  BY <1>2 DEF CheckThrows
<1>3. CASE Resolve(w)
  BY <1>3 DEF Resolve
<1>4. CASE HandlerThrows(w)
  BY <1>4 DEF HandlerThrows
<1> QED BY <1>1, <1>2, <1>3, <1>4 DEF Webhook

LEMMA PollType ==
    ASSUME TypeOK, Poll
    PROVE  TypeOK'
<1> USE DEF TypeOK, GoTo, PCs, Holding, Procs, envVars, storeVars, pollVars
<1>1. CASE PollStart
  BY <1>1 DEF PollStart
<1>2. CASE PollList
  BY <1>2 DEF PollList
<1>3. CASE PollDetail
  BY <1>3 DEF PollDetail
<1>4. CASE PollEnd
  BY <1>4 DEF PollEnd
<1>5. ASSUME NEW t \in Threads, PollThread(t)
      PROVE  TypeOK'
  BY <1>5 DEF PollThread
<1>6. ASSUME NEW id \in GraphIds, PollNext(id)
      PROVE  TypeOK'
  BY <1>6 DEF PollNext
<1>10. ASSUME NEW t \in Threads, PollThreadError(t)
      PROVE  TypeOK'
  BY <1>10 DEF PollThreadError
<1>7. CASE PollDetailError
  BY <1>7 DEF PollDetailError
<1>8. CASE PollAbort
  BY <1>8 DEF PollAbort
<1>9. CASE PollThrows
  BY <1>9 DEF PollThrows
<1> QED BY <1>1, <1>2, <1>3, <1>4, <1>5, <1>6, <1>7, <1>8, <1>9, <1>10 DEF Poll

LEMMA NextType == TypeOK /\ [Next]_vars => TypeOK'
<1> SUFFICES ASSUME TypeOK, [Next]_vars PROVE TypeOK'
  OBVIOUS
<1>1. CASE Tick
  BY <1>1 DEF Tick, TypeOK, storeVars, pollVars
<1>2. CASE Crash
  BY <1>2 DEF Crash, TypeOK, storeVars, PCs
<1>3. ASSUME NEW m \in Msgs, CustomerSends(m) PROVE TypeOK'
  BY <1>3 DEF CustomerSends, TypeOK, storeVars, pollVars
<1>4. ASSUME NEW p \in Procs, Step(p) PROVE TypeOK'
  BY <1>4, StepType
<1>5. ASSUME NEW w \in Workers, Webhook(w) PROVE TypeOK'
  BY <1>5, WebhookType
<1>6. CASE Poll
  BY <1>6, PollType
<1>7. CASE UNCHANGED vars
  BY <1>7 DEF vars, TypeOK
<1> QED BY <1>1, <1>2, <1>3, <1>4, <1>5, <1>6, <1>7 DEF Next

\* Every variable keeps its type in every behaviour of the ingestion.
THEOREM TypeInvariant == Spec => []TypeOK
BY InitType, NextType, PTL DEF Spec

-----------------------------------------------------------------------------
(* At most once, as long as handlers are prompt and claims can be taken. *)

\* A process at work owns a claim nobody may take over yet.
Owned ==
    \A p \in Procs : pc[p] \in Holding =>
        claims[job[p]] # Never /\ now - claims[job[p]] <= Stale

\* Two processes at work are at work on different ids.
Exclusive ==
    \A p, q \in Procs :
        (pc[p] \in Holding /\ pc[q] \in Holding /\ job[p] = job[q]) => p = q

\* Between its existence check and its save, a process is right about the id.
Fresh ==
    \A p \in Procs : pc[p] \in {"resolve", "twin", "save"} => Total(job[p]) = 0

\* What a process has saved and not yet counted or announced, nobody else did.
Unannounced ==
    \A p \in Procs :
        /\ pc[p] = "count" => Total(job[p]) = 1 /\ counted[job[p]] = 0
        /\ pc[p] = "announce" => counted[job[p]] = 1 /\ announced[job[p]] = 0

IInv == TypeOK /\ Owned /\ Exclusive /\ Fresh /\ Unannounced /\ AtMostOnce /\ AnnouncedOnce

LEMMA InitInv == Init => IInv
BY InitType DEF Init, IInv, Owned, Exclusive, Fresh, Unannounced, AtMostOnce, AnnouncedOnce,
                Total, Holding, Paths

\* Leaving, or going on among the steps that hold a claim, keeps the owners.
LEMMA OwnersKept ==
    ASSUME IInv, NEW p \in Procs, pc[p] \in Holding,
           NEW step, step \in Holding \cup {Rest(p)},
           pc' = [pc EXCEPT ![p] = step], UNCHANGED <<now, claims, job>>
    PROVE  Owned' /\ Exclusive'
<1>1. pc \in [Procs -> PCs]
  BY DEF IInv, TypeOK
<1>2. \A q \in Procs : pc'[q] \in Holding => pc[q] \in Holding
  BY <1>1 DEF Rest, Holding
<1>3. Owned'
  BY <1>2 DEF IInv, Owned
<1>4. Exclusive'
  BY <1>2 DEF IInv, Exclusive
<1> QED BY <1>3, <1>4

LEMMA CheckInv ==
    ASSUME IInv, NEW p \in Procs, Check(p)
    PROVE  IInv'
<1>1. pc \in [Procs -> PCs] /\ job \in [Procs -> Ids] /\ pc[p] = "check"
  BY DEF IInv, TypeOK, Check
<1>2. UNCHANGED <<now, claims, job, copies, counted, announced>>
  BY DEF Check, envVars, storeVars
<1>3. PICK step \in {"twin", "resolve", Rest(p)} :
          /\ pc' = [pc EXCEPT ![p] = step]
          /\ step # Rest(p) => ~Exists(job[p])
  BY DEF Check, GoTo
<1>4. step # Rest(p) => Total(job[p]) = 0
  <2>1. Total(job[p]) \in Nat
    BY <1>1 DEF Total, IInv, TypeOK, Paths
  <2> QED BY <2>1, <1>3 DEF Exists
<1>5. TypeOK'
  BY StepType DEF Step, IInv
<1>6. Owned' /\ Exclusive'
  BY <1>1, <1>2, <1>3, OwnersKept DEF Holding
<1>7. Fresh'
  BY <1>1, <1>2, <1>3, <1>4 DEF Fresh, IInv, Total, Rest
<1>8. Unannounced'
  BY <1>1, <1>2, <1>3 DEF Unannounced, IInv, Total, Rest
<1>9. AtMostOnce' /\ AnnouncedOnce'
  BY <1>2 DEF AtMostOnce, AnnouncedOnce, IInv, Total
<1> QED BY <1>5, <1>6, <1>7, <1>8, <1>9 DEF IInv

LEMMA TwinInv ==
    ASSUME IInv, NEW p \in Procs, TwinCheck(p)
    PROVE  IInv'
<1>1. pc \in [Procs -> PCs] /\ job \in [Procs -> Ids] /\ pc[p] = "twin"
  BY DEF IInv, TypeOK, TwinCheck
<1>2. UNCHANGED <<now, claims, job, copies, counted, announced>>
  BY DEF TwinCheck, envVars, storeVars
<1>3. PICK step \in {"save", Rest(p)} : pc' = [pc EXCEPT ![p] = step]
  BY DEF TwinCheck, GoTo
<1>4. TypeOK'
  BY StepType DEF Step, IInv
<1>5. Owned' /\ Exclusive'
  BY <1>1, <1>2, <1>3, OwnersKept DEF Holding
<1>6. Fresh'
  BY <1>1, <1>2, <1>3 DEF Fresh, IInv, Total, Rest
<1>7. Unannounced'
  BY <1>1, <1>2, <1>3 DEF Unannounced, IInv, Total, Rest
<1>8. AtMostOnce' /\ AnnouncedOnce'
  BY <1>2 DEF AtMostOnce, AnnouncedOnce, IInv, Total
<1> QED BY <1>4, <1>5, <1>6, <1>7, <1>8 DEF IInv

\* What Save does to the totals.
LEMMA SaveTotals ==
    ASSUME IInv, NEW p \in Procs, Save(p)
    PROVE  /\ job[p] \in Ids /\ Total(job[p]) = 0 /\ Total(job[p])' = 1
           /\ \A id \in Ids : id # job[p] => Total(id)' = Total(id)
<1>1. job[p] \in Ids /\ PathOf(p) \in Paths /\ copies \in [Ids -> [Paths -> Nat]]
  BY DEF IInv, TypeOK, PathOf, Paths
<1>2. copies' = [copies EXCEPT ![job[p]][PathOf(p)] = copies[job[p]][PathOf(p)] + 1]
  BY DEF Save
<1>3. Total(job[p]) = 0
  BY DEF Save, IInv, Fresh
<1>4. \A id \in Ids : id # job[p] => Total(id)' = Total(id)
  BY <1>1, <1>2 DEF Total
<1>5. UNCHANGED job
  BY DEF Save
<1>6. Total(job[p])' = 1
  <2>1. CASE PathOf(p) = "webhook"
    BY <2>1, <1>1, <1>2, <1>3, <1>5 DEF Total, Paths
  <2>2. CASE PathOf(p) = "polling"
    BY <2>2, <1>1, <1>2, <1>3, <1>5 DEF Total, Paths
  <2> QED BY <2>1, <2>2, <1>1 DEF Paths
<1> QED BY <1>1, <1>3, <1>4, <1>6

LEMMA SaveInv ==
    ASSUME IInv, NEW p \in Procs, Save(p)
    PROVE  IInv'
<1>1. pc \in [Procs -> PCs] /\ job \in [Procs -> Ids] /\ pc[p] = "save"
  BY DEF IInv, TypeOK, Save
<1>2. UNCHANGED <<now, claims, job, counted, announced>> /\ pc' = [pc EXCEPT ![p] = "count"]
  BY DEF Save, envVars, GoTo
<1>3. /\ Total(job[p]) = 0 /\ Total(job[p])' = 1
      /\ \A id \in Ids : id # job[p] => Total(id)' = Total(id)
  BY SaveTotals
<1>4. \A q \in Procs : q # p /\ pc[q] \in Holding => job[q] # job[p]
  BY <1>1 DEF IInv, Exclusive, Holding
<1>5. counted[job[p]] = 0 /\ announced[job[p]] = 0
  BY <1>1, <1>3 DEF IInv, AnnouncedOnce, TypeOK
<1>6. TypeOK'
  BY StepType DEF Step, IInv
<1>7. Owned' /\ Exclusive'
  BY <1>1, <1>2, OwnersKept DEF Holding
<1>8. Fresh'
  <2> SUFFICES ASSUME NEW q \in Procs, pc'[q] \in {"resolve", "twin", "save"}
               PROVE  Total(job[q])' = 0
    BY DEF Fresh
  <2>1. q # p /\ pc[q] \in Holding /\ Total(job[q]) = 0
    BY <1>1, <1>2 DEF Fresh, IInv, Holding
  <2>2. Total(job[q])' = Total(job[q])
    BY <2>1, <1>1, <1>2, <1>3, <1>4 DEF Total
  <2> QED BY <2>1, <2>2
<1>9. Unannounced'
  <2> SUFFICES ASSUME NEW q \in Procs
               PROVE  /\ pc'[q] = "count" => Total(job[q])' = 1 /\ counted'[job'[q]] = 0
                      /\ pc'[q] = "announce" => counted'[job'[q]] = 1 /\ announced'[job'[q]] = 0
    BY DEF Unannounced
  <2>1. CASE q = p
    BY <2>1, <1>1, <1>2, <1>3, <1>5
  <2>2. CASE q # p /\ pc[q] \in {"count", "announce"}
    <3>1. Total(job[q])' = Total(job[q])
      BY <2>2, <1>1, <1>2, <1>3, <1>4 DEF Total, Holding
    <3> QED BY <3>1, <2>2, <1>1, <1>2 DEF Unannounced, IInv
  <2>3. CASE q # p /\ pc[q] \notin {"count", "announce"}
    BY <2>3, <1>1, <1>2
  <2> QED BY <2>1, <2>2, <2>3
<1>10. AtMostOnce'
  <2>1. \A id \in Ids : Total(id)' = IF id = job[p] THEN 1 ELSE Total(id)
    BY <1>2, <1>3 DEF Total
  <2> QED BY <2>1 DEF AtMostOnce, IInv
<1>11. AnnouncedOnce'
  <2> SUFFICES ASSUME NEW id \in Ids
               PROVE  announced'[id] <= counted'[id] /\ counted'[id] <= Total(id)' /\ announced'[id] <= 1
    BY DEF AnnouncedOnce
  <2>1. CASE id = job[p]
    BY <2>1, <1>2, <1>3, <1>5
  <2>2. CASE id # job[p]
    BY <2>2, <1>2, <1>3 DEF AnnouncedOnce, IInv
  <2> QED BY <2>1, <2>2
<1> QED BY <1>6, <1>7, <1>8, <1>9, <1>10, <1>11 DEF IInv

LEMMA StepInv ==
    ASSUME IInv, ~ClaimOutage, NEW p \in Procs, Step(p)
    PROVE  IInv'
<1> USE DEF IInv, TypeOK, Owned, Exclusive, Fresh, Unannounced, AtMostOnce, AnnouncedOnce,
            GoTo, Granted, Rest, Holding, envVars, storeVars, pollVars, Total, Never
<1>0. TypeOK'
  BY StepType
<1>1. CASE ClaimInsert(p)
  BY <1>0, <1>1 DEF ClaimInsert
<1>2. CASE ClaimDuplicateKey(p)
  BY <1>0, <1>2 DEF ClaimDuplicateKey
<1>3. CASE ClaimTakeOver(p)
  BY <1>0, <1>3 DEF ClaimTakeOver, IsStale
<1>4. CASE ClaimRefused(p)
  BY <1>0, <1>4 DEF ClaimRefused, IsStale
<1>5. CASE ClaimUnavailable(p)
  BY <1>0, <1>5 DEF ClaimUnavailable
<1>6. CASE releaseMetaEvent(p)
  BY <1>0, <1>6 DEF releaseMetaEvent
<1>7. CASE ReleaseUnavailable(p)
  BY <1>0, <1>7 DEF ReleaseUnavailable
<1>8. CASE Check(p)
  BY <1>8, CheckInv
<1>9. CASE TwinCheck(p)
  BY <1>9, TwinInv
<1>10. CASE Save(p)
  BY <1>10, SaveInv
<1>11. CASE Count(p)
  BY <1>0, <1>11 DEF Count
<1>12. CASE Announce(p)
  BY <1>0, <1>12 DEF Announce
<1> QED BY <1>1, <1>2, <1>3, <1>4, <1>5, <1>6, <1>7, <1>8, <1>9, <1>10, <1>11, <1>12 DEF Step

LEMMA WebhookInv ==
    ASSUME IInv, NEW w \in Workers, Webhook(w)
    PROVE  IInv'
<1> USE DEF IInv, TypeOK, Owned, Exclusive, Fresh, Unannounced, AtMostOnce, AnnouncedOnce,
            GoTo, Holding, Procs, envVars, storeVars, pollVars, Total
<1>0. TypeOK'
  BY WebhookType
<1>1. ASSUME NEW id \in WebhookIds, WebhookArrives(w, id)
      PROVE  IInv'
  BY <1>0, <1>1 DEF WebhookArrives
<1>2. CASE CheckThrows(w)
  BY <1>0, <1>2 DEF CheckThrows
<1>3. CASE Resolve(w)
  BY <1>0, <1>3 DEF Resolve
<1>4. CASE HandlerThrows(w)
  BY <1>0, <1>4 DEF HandlerThrows
<1> QED BY <1>1, <1>2, <1>3, <1>4 DEF Webhook

LEMMA PollInv ==
    ASSUME IInv, Poll
    PROVE  IInv'
<1> USE DEF IInv, TypeOK, Owned, Exclusive, Fresh, Unannounced, AtMostOnce, AnnouncedOnce,
            GoTo, Holding, Procs, envVars, storeVars, pollVars, Total
<1>0. TypeOK'
  BY PollType
<1>1. CASE PollStart
  BY <1>0, <1>1 DEF PollStart
<1>2. CASE PollList
  BY <1>0, <1>2 DEF PollList
<1>3. CASE PollDetail
  BY <1>0, <1>3 DEF PollDetail
<1>4. CASE PollEnd
  BY <1>0, <1>4 DEF PollEnd
<1>5. ASSUME NEW t \in Threads, PollThread(t)
      PROVE  IInv'
  BY <1>0, <1>5 DEF PollThread
<1>6. ASSUME NEW id \in GraphIds, PollNext(id)
      PROVE  IInv'
  BY <1>0, <1>6 DEF PollNext
<1>10. ASSUME NEW t \in Threads, PollThreadError(t)
      PROVE  IInv'
  BY <1>0, <1>10 DEF PollThreadError
<1>7. CASE PollDetailError
  BY <1>0, <1>7 DEF PollDetailError
<1>8. CASE PollAbort
  BY <1>0, <1>8 DEF PollAbort
<1>9. CASE PollThrows
  BY <1>0, <1>9 DEF PollThrows
<1> QED BY <1>1, <1>2, <1>3, <1>4, <1>5, <1>6, <1>7, <1>8, <1>9, <1>10 DEF Poll

LEMMA NextInv ==
    ASSUME Prompt, ~ClaimOutage, IInv, [Next]_vars
    PROVE  IInv'
<1>0. TypeOK'
  BY NextType DEF IInv
<1>1. CASE Tick
  BY <1>0, <1>1 DEF Tick, InTime, IInv, TypeOK, Owned, Exclusive, Fresh, Unannounced,
                    AtMostOnce, AnnouncedOnce, Total, storeVars, pollVars
<1>2. CASE Crash
  BY <1>0, <1>2 DEF Crash, IInv, TypeOK, Owned, Exclusive, Fresh, Unannounced,
                    AtMostOnce, AnnouncedOnce, Total, Holding, storeVars
<1>3. ASSUME NEW m \in Msgs, CustomerSends(m) PROVE IInv'
  BY <1>0, <1>3 DEF CustomerSends, IInv, Owned, Exclusive, Fresh, Unannounced,
                    AtMostOnce, AnnouncedOnce, Total, storeVars, pollVars
<1>4. ASSUME NEW p \in Procs, Step(p) PROVE IInv'
  BY <1>4, StepInv
<1>5. ASSUME NEW w \in Workers, Webhook(w) PROVE IInv'
  BY <1>5, WebhookInv
<1>6. CASE Poll
  BY <1>6, PollInv
<1>7. CASE UNCHANGED vars
  BY <1>0, <1>7 DEF vars, IInv, Owned, Exclusive, Fresh, Unannounced,
                    AtMostOnce, AnnouncedOnce, Total
<1> QED BY <1>1, <1>2, <1>3, <1>4, <1>5, <1>6, <1>7 DEF Next

LEMMA Invariance ==
    ASSUME Prompt, ~ClaimOutage
    PROVE  Spec => []IInv
BY InitInv, NextInv, PTL DEF Spec

\* An id is stored at most once: claimMetaEvent, the existence check after it and
\* the release on failure together, for any number of concurrent deliveries.
THEOREM StoredAtMostOnce ==
    ASSUME Prompt, ~ClaimOutage
    PROVE  Spec => []AtMostOnce
<1>1. IInv => AtMostOnce
  BY DEF IInv
<1> QED BY Invariance, <1>1, PTL

\* The automations hear of an id at most once, and of stored ids only.
THEOREM AnnouncedAtMostOnce ==
    ASSUME Prompt, ~ClaimOutage
    PROVE  Spec => []AnnouncedOnce
<1>1. IInv => AnnouncedOnce
  BY DEF IInv
<1> QED BY Invariance, <1>1, PTL

-----------------------------------------------------------------------------
(* MetaIngest implements Inbox. *)

totals == [id \in Ids |-> Total(id)]

LEMMA SaveStores ==
    ASSUME IInv, NEW p \in Procs, Save(p)
    PROVE  ExactlyOnce!Next
<1> USE DEF IInv, TypeOK
<1>1. job[p] \in Ids /\ Total(job[p]) = 0
  BY SaveTotals
<1>2. Total(job[p])' = 1
  BY SaveTotals
<1>3. \A id \in Ids : id # job[p] => Total(id)' = Total(id)
  BY SaveTotals
<1>4. totals' = [totals EXCEPT ![job[p]] = 1]
  <2>1. UNCHANGED job
    BY DEF Save
  <2>2. \A id \in Ids : Total(id)' = IF id = job[p] THEN 1 ELSE Total(id)
    BY <2>1, <1>2, <1>3 DEF Total
  <2> QED BY <1>1, <2>2 DEF totals
<1>5. UNCHANGED announced
  BY DEF Save
<1> QED BY <1>1, <1>4, <1>5 DEF ExactlyOnce!Next, ExactlyOnce!Store, totals

LEMMA AnnounceHears ==
    ASSUME IInv, NEW p \in Procs, Announce(p)
    PROVE  ExactlyOnce!Next
<1> USE DEF IInv, TypeOK
<1>1. job[p] \in Ids /\ Total(job[p]) = 1 /\ announced[job[p]] = 0
  BY DEF Announce, Unannounced, AtMostOnce, AnnouncedOnce, Total, Paths
<1>2. announced' = [announced EXCEPT ![job[p]] = 1]
  BY <1>1 DEF Announce
<1>3. UNCHANGED totals
  BY DEF Announce, totals, Total
<1> QED BY <1>1, <1>2, <1>3 DEF ExactlyOnce!Next, ExactlyOnce!Hear, totals

\* Every other step leaves the stored and the announced messages alone.
LEMMA OtherStutters ==
    ASSUME IInv, [Next]_vars, \A p \in Procs : ~Save(p) /\ ~Announce(p)
    PROVE  UNCHANGED <<totals, announced>>
<1>1. UNCHANGED <<copies, announced>>
  BY DEF Next, Step, Webhook, Poll, vars, storeVars, Tick, Crash, CustomerSends,
         ClaimInsert, ClaimDuplicateKey, ClaimTakeOver, ClaimRefused, ClaimUnavailable,
         releaseMetaEvent, ReleaseUnavailable, Check, TwinCheck, Count,
         WebhookArrives, CheckThrows, Resolve, HandlerThrows,
         PollStart, PollList, PollDetail, PollEnd, PollThread, PollNext,
         PollThreadError, PollDetailError, PollAbort, PollThrows
<1> QED BY <1>1 DEF totals, Total

\* The ingestion implements the abstract inbox: what claims, retries, restarts
\* and polling do to the store is what Inbox allows.
THEOREM ImplementsInbox ==
    ASSUME Prompt, ~ClaimOutage
    PROVE  Spec => InboxSpec
<1>1. Init => ExactlyOnce!Init
  BY DEF Init, ExactlyOnce!Init, Total, Paths
<1>2. IInv /\ [Next]_vars => [ExactlyOnce!Next]_<<totals, announced>>
  <2> SUFFICES ASSUME IInv, [Next]_vars
               PROVE  [ExactlyOnce!Next]_<<totals, announced>>
    OBVIOUS
  <2>1. ASSUME NEW p \in Procs, Save(p) PROVE ExactlyOnce!Next
    BY <2>1, SaveStores
  <2>2. ASSUME NEW p \in Procs, Announce(p) PROVE ExactlyOnce!Next
    BY <2>2, AnnounceHears
  <2>3. CASE \A p \in Procs : ~Save(p) /\ ~Announce(p)
    BY <2>3, OtherStutters
  <2> QED BY <2>1, <2>2, <2>3
<1> QED BY <1>1, <1>2, Invariance, PTL DEF Spec, InboxSpec, ExactlyOnce!Spec, totals
-----------------------------------------------------------------------------
(* Nothing falls out of the window of polling.                              *)
(*                                                                          *)
(* NothingLeftBehind holds because a pass refuses to look at a message only *)
(* while a claim on it is fresh, and no claim on a message that is not      *)
(* stored is older than the webhook's latest arrival.  Two minutes of slack *)
(* therefore have to outlast the delay of a webhook and the 90 s of a       *)
(* claim: WebhookDelay + Stale <= Slack.  Restarts and failing passes are   *)
(* excluded: a pass that dies keeps its claim, and the passes that follow   *)
(* refuse the message while their window moves on.                          *)

AtWork(p) == pc[p] \notin {"idle", "list", "scan"}

\* A message Meta has, and we do not.
Waiting(id) == sentAt[Body[id]] # Never /\ ~StoredMessage(Body[id])

\* The latest a webhook for the id arrives.
Latest(id) == sentAt[Body[id]] + WebhookDelay

PollerHolds(id) == pc[Poller] \in Holding /\ job[Poller] = id

NothingFromTheFuture ==
    startedAt <= now /\ lastPoll <= now /\ \A m \in Msgs : sentAt[m] <= now

\* Nobody claims, handles or lists what was not sent.
OnlySent ==
    /\ \A id \in Ids : claims[id] # Never => sentAt[Body[id]] # Never
    /\ \A p \in Procs : AtWork(p) => sentAt[Body[job[p]]] # Never
    /\ \A id \in todo : sentAt[Body[id]] # Never

\* A pass without faults gives no claim back, and has stored what it counts.
PollerSteps ==
    /\ pc[Poller] \notin {"release", "resolve"}
    /\ pc[Poller] \in {"count", "announce"} => Exists(job[Poller])
    /\ \A w \in Workers : pc[w] \notin {"list", "scan", "detail"}

\* A webhook comes to its claim before any time passes.
ClaimsEarly ==
    \A w \in Workers : pc[w] \in {"claim", "takeover"} => now <= Latest(job[w])

\* On a message that waits, and that the pass does not hold, a claim is old,
\* and no webhook outlives it.
ClaimsAreOld ==
    \A id \in Ids : (Waiting(id) /\ claims[id] # Never /\ ~PollerHolds(id)) =>
        /\ claims[id] <= Latest(id)
        /\ \A w \in Workers : (pc[w] \in Holding /\ job[w] = id) => now <= Latest(id) + Stale

\* A claim given back while the pass asks whether it is stale was given back early.
GivenBackEarly ==
    (pc[Poller] = "takeover" /\ Waiting(job[Poller]) /\ claims[job[Poller]] = Never)
        => now <= Latest(job[Poller]) + Stale

\* The pass in progress still comes to every message that waits and would fall
\* out of the next window.
StillToCome ==
    pc[Poller] \notin {"idle", "list"} => \A id \in GraphIds : Waiting(id) =>
        \/ startedAt <= sentAt[Body[id]] + Slack
        \/ Thread[Body[id]] \in threads
        \/ id \in todo
        \/ AtWork(Poller) /\ job[Poller] = id

\* No message that waits is older than the window.
InWindow == \A id \in GraphIds : Waiting(id) => lastPoll <= sentAt[Body[id]] + Slack

WindowInv ==
    /\ TypeOK /\ NothingFromTheFuture /\ OnlySent /\ PollerSteps /\ ClaimsEarly
    /\ ClaimsAreOld /\ GivenBackEarly /\ StillToCome /\ InWindow
    /\ crashes = 0

WindowAssumption ==
    /\ Prompt /\ ~PollFaults /\ MaxCrashes = 0
    /\ WebhookDelay + Stale <= Slack
    /\ \A pair \in Alike : pair[1] = pair[2]

LEMMA InitWindow == Init => WindowInv
<1> SUFFICES ASSUME Init PROVE WindowInv
  OBVIOUS
<1>1. TypeOK
  BY InitType
<1>2. \A id \in Ids : Body[id] \in Msgs
  OBVIOUS
<1> QED BY <1>1, <1>2 DEF Init, WindowInv, NothingFromTheFuture, OnlySent, PollerSteps,
        ClaimsEarly, ClaimsAreOld, GivenBackEarly, StillToCome, InWindow, Waiting, AtWork,
        Procs, Never, TypeOK

\* What is stored stays stored.
LEMMA StoredStays ==
    ASSUME TypeOK, [Next]_vars
    PROVE  /\ \A id \in Ids : Exists(id) => Exists(id)'
           /\ \A m \in Msgs : StoredMessage(m) => StoredMessage(m)'
<1>1. \A id \in Ids : Exists(id) => Exists(id)'
  <2>1. CASE UNCHANGED copies
    BY <2>1 DEF Exists, Total
  <2>2. ASSUME NEW p \in Procs, Save(p)
        PROVE  \A id \in Ids : Exists(id) => Exists(id)'
    <3>1. PathOf(p) \in Paths /\ job[p] \in Ids
      BY DEF PathOf, Paths, TypeOK
    <3>2. copies' = [copies EXCEPT ![job[p]][PathOf(p)] = copies[job[p]][PathOf(p)] + 1]
      BY <2>2 DEF Save
    <3>3. \A id \in Ids, path \in Paths :
              copies[id][path] \in Nat /\ copies'[id][path] \in Nat
              /\ copies'[id][path] >= copies[id][path]
      BY <3>1, <3>2 DEF TypeOK
    <3> QED BY <3>3 DEF Exists, Total, Paths
  <2>3. CASE \A p \in Procs : ~Save(p)
    <3>1. UNCHANGED copies
      BY <2>3 DEF Next, Step, Webhook, Poll, vars, storeVars, Tick, Crash, CustomerSends,
         ClaimInsert, ClaimDuplicateKey, ClaimTakeOver, ClaimRefused, ClaimUnavailable,
         releaseMetaEvent, ReleaseUnavailable, Check, TwinCheck, Count, Announce,
         WebhookArrives, CheckThrows, Resolve, HandlerThrows,
         PollStart, PollList, PollDetail, PollEnd, PollThread, PollNext,
         PollThreadError, PollDetailError, PollAbort, PollThrows
    <3> QED BY <3>1, <2>1
  <2> QED BY <2>1, <2>2, <2>3
<1> QED BY <1>1 DEF StoredMessage

\* A message that waits after a step of the server waited before it.
LEMMA WaitedBefore ==
    ASSUME TypeOK, [Next]_vars, UNCHANGED sentAt
    PROVE  \A id \in Ids : Waiting(id)' => Waiting(id)
<1>1. \A id \in Ids : Body[id] \in Msgs
  OBVIOUS
<1> QED BY <1>1, StoredStays DEF Waiting

\* The pass lets go of a message only when it is stored, or early.
LEMMA PassDone ==
    ASSUME WindowInv, WindowAssumption, [Next]_vars, UNCHANGED <<sentAt, now, startedAt, threads, todo, job>>,
           AtWork(Poller),
           Waiting(job[Poller])' => now <= Latest(job[Poller]) + Stale \/ AtWork(Poller)'
    PROVE  StillToCome'
<1>1. \A id \in Ids : Waiting(id)' => Waiting(id)
  BY WaitedBefore DEF WindowInv
<1>2. job \in [Procs -> Ids] /\ Poller \in Procs /\ now \in Nat /\ startedAt \in Nat
  BY DEF WindowInv, TypeOK, Procs
<1>3. \A id \in GraphIds : Waiting(id) => sentAt[Body[id]] \in Nat
  BY DEF WindowInv, TypeOK, Waiting
<1>4. SUFFICES ASSUME NEW id \in GraphIds, Waiting(id)'
               PROVE  \/ startedAt <= sentAt[Body[id]] + Slack
                      \/ Thread[Body[id]] \in threads
                      \/ id \in todo
                      \/ AtWork(Poller)' /\ job'[Poller] = id
  BY DEF StillToCome
<1>5. CASE job[Poller] = id
  <2>1. id \in Ids /\ Waiting(id) /\ sentAt[Body[id]] \in Nat
    BY <1>1, <1>3, <1>4
  <2>2. CASE now <= Latest(id) + Stale
    <3>1. WebhookDelay \in Nat /\ Stale \in Nat /\ Slack \in Nat /\ WebhookDelay + Stale <= Slack
      BY DEF WindowAssumption
    <3>2. now <= sentAt[Body[id]] + WebhookDelay + Stale
      BY <2>2 DEF Latest
    <3>3. startedAt <= now
      BY DEF WindowInv, NothingFromTheFuture
    <3> QED BY <1>2, <2>1, <3>1, <3>2, <3>3
  <2>3. CASE AtWork(Poller)'
    BY <1>5, <2>3
  <2> QED BY <1>1, <1>4, <1>5, <2>1, <2>2, <2>3
<1>6. CASE job[Poller] # id
  BY <1>1, <1>4, <1>6 DEF WindowInv, StillToCome, AtWork
<1> QED BY <1>5, <1>6

LEMMA StepWindow ==
    ASSUME WindowInv, WindowAssumption, NEW p \in Procs, Step(p)
    PROVE  WindowInv'
<1> USE DEF WindowInv, NothingFromTheFuture, OnlySent, PollerSteps, ClaimsEarly,
            ClaimsAreOld, GivenBackEarly, StillToCome, InWindow
<1> USE DEF AtWork, PollerHolds, Latest, GoTo, Granted, Rest, Holding, Procs, envVars, storeVars,
            pollVars, Never, TypeOK
<1>0. TypeOK'
  BY StepType
<1>a. UNCHANGED <<sentAt, now, startedAt, lastPoll, threads, todo, crashes, job>>
  BY DEF Step, ClaimInsert, ClaimDuplicateKey, ClaimTakeOver, ClaimRefused, ClaimUnavailable,
         releaseMetaEvent, ReleaseUnavailable, Check, TwinCheck, Save, Count, Announce
<1>b. /\ \A id \in Ids : Waiting(id)' => Waiting(id)
      /\ \A id \in Ids : Exists(id) => Exists(id)'
  BY <1>a, WaitedBefore, StoredStays DEF Next
<1>c. \A id \in Ids : Body[id] \in Msgs /\ (Waiting(id) => sentAt[Body[id]] # Never)
  BY DEF Waiting
<1>d. \A id \in Ids : (Exists(id) => ~Waiting(id)) /\ (Exists(id)' => ~Waiting(id)')
  BY DEF Waiting, StoredMessage
<1>e. job[Poller] \in Ids /\ Poller \notin Workers
  OBVIOUS
<1>1. CASE ClaimInsert(p)
  BY <1>0, <1>a, <1>b, <1>c, <1>1 DEF ClaimInsert
<1>2. CASE ClaimDuplicateKey(p)
  BY <1>0, <1>a, <1>b, <1>c, <1>2 DEF ClaimDuplicateKey
<1>3. CASE ClaimTakeOver(p)
  BY <1>0, <1>a, <1>b, <1>c, <1>3 DEF ClaimTakeOver, IsStale
<1>4. CASE ClaimRefused(p)
  <2>1. CASE p # Poller
    BY <1>0, <1>a, <1>b, <1>c, <1>4, <2>1 DEF ClaimRefused, IsStale
  <2>2. CASE p = Poller
    <3>1. Waiting(job[Poller])' => now <= Latest(job[Poller]) + Stale \/ AtWork(Poller)'
      BY <1>0, <1>a, <1>b, <1>c, <1>4, <2>2 DEF ClaimRefused, IsStale
    <3>2. StillToCome'
      BY <1>a, <1>4, <2>2, <3>1, PassDone DEF ClaimRefused, Next
    <3> QED BY <1>0, <1>a, <1>b, <1>c, <1>4, <2>2, <3>2 DEF ClaimRefused, IsStale
  <2> QED BY <2>1, <2>2
<1>5. CASE ClaimUnavailable(p)
  BY <1>0, <1>a, <1>b, <1>c, <1>5 DEF ClaimUnavailable
<1>6. CASE releaseMetaEvent(p)
  BY <1>0, <1>a, <1>b, <1>c, <1>6 DEF releaseMetaEvent
<1>7. CASE ReleaseUnavailable(p)
  BY <1>0, <1>a, <1>b, <1>c, <1>7 DEF ReleaseUnavailable
<1>8. CASE Check(p)
  <2>1. CASE p # Poller
    BY <1>0, <1>a, <1>b, <1>c, <1>8, <2>1 DEF Check
  <2>2. CASE p = Poller
    <3>1. Waiting(job[Poller])' => now <= Latest(job[Poller]) + Stale \/ AtWork(Poller)'
      BY <1>0, <1>a, <1>b, <1>c, <1>d, <1>e, <1>8, <2>2 DEF Check
    <3>2. StillToCome'
      BY <1>a, <1>8, <2>2, <3>1, PassDone DEF Check, Next
    <3>3. Waiting(job[p])' => AtWork(p)'
      BY <1>a, <1>b, <1>d, <1>e, <1>8, <2>2 DEF Check
    <3> QED BY <1>0, <1>a, <1>b, <1>c, <1>d, <1>8, <2>2, <3>2, <3>3 DEF Check
  <2> QED BY <2>1, <2>2
<1>9. CASE TwinCheck(p)
  <2>1. CASE p # Poller
    BY <1>0, <1>a, <1>b, <1>c, <1>9, <2>1 DEF TwinCheck
  <2>2. CASE p = Poller
    <3>0. hasTwinInbound(job[Poller], "webhook") => ~Waiting(job[Poller])
      BY <1>b DEF hasTwinInbound, WindowAssumption, Waiting, StoredMessage, Exists, Total, Paths
    <3>1. Waiting(job[Poller])' => now <= Latest(job[Poller]) + Stale \/ AtWork(Poller)'
      BY <1>0, <1>a, <1>b, <1>c, <1>e, <1>9, <2>2, <3>0 DEF TwinCheck
    <3>2. StillToCome'
      BY <1>a, <1>9, <2>2, <3>1, PassDone DEF TwinCheck, Next
    <3>3. Waiting(job[p])' => AtWork(p)'
      BY <1>a, <1>b, <1>d, <1>e, <1>9, <2>2, <3>0 DEF TwinCheck
    <3> QED BY <1>0, <1>a, <1>b, <1>c, <1>d, <1>9, <2>2, <3>2, <3>3 DEF TwinCheck
  <2> QED BY <2>1, <2>2
<1>10. CASE Save(p)
  <2>1. CASE p # Poller
    BY <1>0, <1>a, <1>b, <1>c, <1>10, <2>1 DEF Save
  <2>2. CASE p = Poller
    <3>1. Waiting(job[Poller])' => now <= Latest(job[Poller]) + Stale \/ AtWork(Poller)'
      BY <1>0, <1>a, <1>b, <1>c, <1>10, <2>2 DEF Save
    <3>2. StillToCome'
      BY <1>a, <1>10, <2>2, <3>1, PassDone DEF Save, Next
    <3>3. Exists(job[Poller])'
      <4>1. copies' = [copies EXCEPT ![job[p]]["polling"] = copies[job[p]]["polling"] + 1]
        BY <1>10, <2>2 DEF Save, PathOf
      <4> QED BY <1>a, <1>e, <2>2, <4>1 DEF Exists, Total, Paths
    <3> QED BY <1>0, <1>a, <1>b, <1>c, <1>10, <2>2, <3>2, <3>3 DEF Save
  <2> QED BY <2>1, <2>2
<1>11. CASE Count(p)
  BY <1>0, <1>a, <1>b, <1>c, <1>11 DEF Count
<1>12. CASE Announce(p)
  <2>1. CASE p # Poller
    BY <1>0, <1>a, <1>b, <1>c, <1>12, <2>1 DEF Announce
  <2>2. CASE p = Poller
    <3>1. Waiting(job[Poller])' => now <= Latest(job[Poller]) + Stale \/ AtWork(Poller)'
      BY <1>0, <1>a, <1>b, <1>c, <1>d, <1>e, <1>12, <2>2 DEF Announce
    <3>2. StillToCome'
      BY <1>a, <1>12, <2>2, <3>1, PassDone DEF Announce, Next
    <3>3. Waiting(job[p])' => AtWork(p)'
      BY <1>a, <1>b, <1>d, <1>e, <1>12, <2>2 DEF Announce
    <3> QED BY <1>0, <1>a, <1>b, <1>c, <1>d, <1>12, <2>2, <3>2, <3>3 DEF Announce
  <2> QED BY <2>1, <2>2
<1> QED BY <1>1, <1>2, <1>3, <1>4, <1>5, <1>6, <1>7, <1>8, <1>9, <1>10, <1>11, <1>12 DEF Step

LEMMA WebhookWindow ==
    ASSUME WindowInv, WindowAssumption, NEW w \in Workers, Webhook(w)
    PROVE  WindowInv'
<1> USE DEF WindowInv, NothingFromTheFuture, OnlySent, PollerSteps, ClaimsEarly,
            ClaimsAreOld, GivenBackEarly, StillToCome, InWindow
<1> USE DEF AtWork, PollerHolds, Latest, GoTo, Holding, Procs, envVars, storeVars,
            pollVars, Never, TypeOK
<1>0. TypeOK'
  BY WebhookType
<1>a. UNCHANGED <<sentAt, now, startedAt, lastPoll, threads, todo, crashes, copies, claims>>
  BY DEF Webhook, WebhookArrives, CheckThrows, Resolve, HandlerThrows
<1>b. /\ \A id \in Ids : Waiting(id)' => Waiting(id)
      /\ \A id \in Ids : Exists(id) => Exists(id)'
  BY <1>a, WaitedBefore, StoredStays DEF Next
<1>c. \A id \in Ids : Body[id] \in Msgs /\ (Waiting(id) => sentAt[Body[id]] # Never)
  BY DEF Waiting
<1>d. Poller # w
  OBVIOUS
<1>1. ASSUME NEW id \in WebhookIds, WebhookArrives(w, id)
      PROVE  WindowInv'
  BY <1>0, <1>a, <1>b, <1>c, <1>d, <1>1 DEF WebhookArrives
<1>2. CASE CheckThrows(w)
  BY <1>0, <1>a, <1>b, <1>c, <1>d, <1>2 DEF CheckThrows
<1>3. CASE Resolve(w)
  BY <1>0, <1>a, <1>b, <1>c, <1>d, <1>3 DEF Resolve
<1>4. CASE HandlerThrows(w)
  BY <1>0, <1>a, <1>b, <1>c, <1>d, <1>4 DEF HandlerThrows
<1> QED BY <1>1, <1>2, <1>3, <1>4 DEF Webhook

\* What waits is in a thread the window still covers.
LEMMA WaitsInMoved ==
    ASSUME WindowInv, NEW id \in GraphIds, Waiting(id)
    PROVE  /\ Body[id] \in SentIn(Thread[Body[id]])
           /\ Thread[Body[id]] \in Threads /\ Moved(Thread[Body[id]])
<1>1. Body[id] \in Msgs /\ sentAt[Body[id]] \in Nat /\ Thread[Body[id]] \in Threads
  BY DEF WindowInv, TypeOK, Waiting
<1>2. lastPoll <= sentAt[Body[id]] + Slack
  BY DEF WindowInv, InWindow
<1>3. sentAt[Body[id]] >= Since
  BY <1>1, <1>2 DEF Since, WindowInv, TypeOK
<1>4. Body[id] \in SentIn(Thread[Body[id]])
  BY <1>1 DEF SentIn, Never
<1> QED BY <1>1, <1>3, <1>4 DEF Moved

LEMMA PollWindow ==
    ASSUME WindowInv, WindowAssumption, Poll
    PROVE  WindowInv'
<1> USE DEF WindowInv, NothingFromTheFuture, OnlySent, PollerSteps, ClaimsEarly,
            ClaimsAreOld, GivenBackEarly, StillToCome, InWindow
<1> USE DEF AtWork, PollerHolds, Latest, GoTo, Holding, Procs, envVars, storeVars,
            pollVars, Never, TypeOK
<1>0. TypeOK'
  BY PollType
<1>a. UNCHANGED <<sentAt, now, crashes, copies, claims>>
  BY DEF Poll, PollStart, PollList, PollDetail, PollEnd, PollThread, PollNext,
         PollThreadError, PollDetailError, PollAbort, PollThrows
<1>b. /\ \A id \in Ids : Waiting(id)' => Waiting(id)
      /\ \A id \in Ids : Exists(id) => Exists(id)'
  BY <1>a, WaitedBefore, StoredStays DEF Next
<1>c. \A id \in Ids : Body[id] \in Msgs /\ (Waiting(id) => sentAt[Body[id]] # Never)
  BY DEF Waiting
<1>d. \A id \in Ids : Exists(id) => ~Waiting(id)
  BY DEF Waiting, StoredMessage
<1>e. /\ \A id \in GraphIds : Waiting(id) =>
           /\ Body[id] \in SentIn(Thread[Body[id]])
           /\ Thread[Body[id]] \in Threads /\ Moved(Thread[Body[id]])
      /\ GraphIds \subseteq Ids
      /\ \A w \in Workers : w # Poller
  BY WaitsInMoved
<1>1. CASE PollStart
  BY <1>0, <1>a, <1>b, <1>c, <1>e, <1>1 DEF PollStart
<1>2. CASE PollList
  BY <1>0, <1>a, <1>b, <1>c, <1>e, <1>2 DEF PollList
<1>3. CASE PollDetail
  BY <1>0, <1>a, <1>b, <1>c, <1>e, <1>3 DEF PollDetail
<1>4. CASE PollEnd
  BY <1>0, <1>a, <1>b, <1>c, <1>e, <1>4 DEF PollEnd
<1>5. ASSUME NEW t \in Threads, PollThread(t)
      PROVE  WindowInv'
  <2>1. todo' = {id \in GraphIds : Body[id] \in SentIn(t)} /\ threads' = threads \ {t}
    BY <1>5 DEF PollThread
  <2>2. \A id \in todo' : sentAt[Body[id]] # Never
    BY <2>1 DEF SentIn
  <2>3. StillToCome'
    BY <1>a, <1>b, <1>e, <1>5, <2>1 DEF PollThread
  <2> QED BY <1>0, <1>a, <1>b, <1>c, <1>e, <1>5, <2>2, <2>3 DEF PollThread
<1>6. ASSUME NEW id \in GraphIds, PollNext(id)
      PROVE  WindowInv'
  <2>1. CASE Exists(id)
    BY <1>0, <1>a, <1>b, <1>c, <1>d, <1>e, <1>6, <2>1 DEF PollNext
  <2>2. CASE ~Exists(id)
    <3>1. /\ job' = [job EXCEPT ![Poller] = id] /\ pc' = [pc EXCEPT ![Poller] = "claim"]
          /\ todo' = todo \ {id} /\ pc[Poller] = "scan" /\ id \in todo
          /\ UNCHANGED <<lastPoll, startedAt, threads>>
      BY <1>6, <2>2 DEF PollNext
    <3>2. job'[Poller] = id /\ pc'[Poller] = "claim"
      BY <3>1
    <3>3. \A q \in Procs : q # Poller => job'[q] = job[q] /\ pc'[q] = pc[q]
      BY <3>1
    <3>4. NothingFromTheFuture' /\ InWindow'
      BY <1>0, <1>a, <1>b, <1>e, <3>1
    <3>5. OnlySent'
      BY <1>a, <1>c, <1>e, <3>1, <3>2, <3>3
    <3>6. PollerSteps' /\ ClaimsEarly' /\ GivenBackEarly'
      BY <1>a, <1>e, <3>2, <3>3
    <3>7. ClaimsAreOld'
      BY <1>a, <1>b, <1>e, <3>1, <3>2, <3>3
    <3>8. StillToCome'
      BY <1>a, <1>b, <3>1, <3>2
    <3> QED BY <1>0, <1>a, <3>4, <3>5, <3>6, <3>7, <3>8
  <2> QED BY <2>1, <2>2
<1>7. CASE PollDetailError
  BY <1>7 DEF PollDetailError, WindowAssumption
<1>8. CASE PollAbort
  BY <1>8 DEF PollAbort, WindowAssumption
<1>9. CASE PollThrows
  BY <1>9 DEF PollThrows, WindowAssumption
<1>10. ASSUME NEW t \in Threads, PollThreadError(t)
      PROVE  WindowInv'
  BY <1>10 DEF PollThreadError, WindowAssumption
<1> QED BY <1>1, <1>2, <1>3, <1>4, <1>5, <1>6, <1>7, <1>8, <1>9, <1>10 DEF Poll

LEMMA TickWindow ==
    ASSUME WindowInv, WindowAssumption, Tick
    PROVE  WindowInv'
<1> USE DEF WindowInv, NothingFromTheFuture, OnlySent, PollerSteps, ClaimsEarly,
            ClaimsAreOld, GivenBackEarly, StillToCome, InWindow
<1> USE DEF AtWork, PollerHolds, Latest, Procs, storeVars, pollVars, Never, TypeOK
<1>0. TypeOK'
  BY NextType DEF Next
<1>a. /\ UNCHANGED <<sentAt, claims, pc, job, crashes, lastPoll, startedAt, threads, todo>>
      /\ now' = now + 1 /\ \A p \in Procs : InTime(p)
  BY DEF Tick, WindowAssumption
<1>b. \A id \in Ids : Waiting(id)' <=> Waiting(id)
  BY <1>a DEF Tick, Waiting, StoredMessage, Exists, Total
<1>c. \A id \in Ids : Body[id] \in Msgs /\ (Waiting(id) => sentAt[Body[id]] # Never)
  BY DEF Waiting
<1>1. PollerSteps'
  BY <1>a DEF Tick, Exists, Total
<1>2. ClaimsEarly' /\ GivenBackEarly'
  BY <1>a, <1>b DEF InTime
<1>3. ClaimsAreOld'
  <2> SUFFICES ASSUME NEW id \in Ids, Waiting(id), claims[id] # Never, ~PollerHolds(id),
                      NEW w \in Workers, pc[w] \in Holding, job[w] = id
               PROVE  now + 1 <= Latest(id) + Stale
    BY <1>a, <1>b
  <2>1. now + 1 - claims[id] <= Stale /\ claims[id] <= Latest(id)
    BY <1>a DEF InTime
  <2>2. claims[id] \in Nat /\ Latest(id) \in Nat /\ now \in Nat /\ Stale \in Nat
    BY <1>c
  <2>3. \A a, b, c, n \in Nat : n + 1 - a <= b /\ a <= c => n + 1 <= c + b
    OBVIOUS
  <2> QED BY <2>1, <2>2, <2>3
<1>4. NothingFromTheFuture'
  BY <1>a
<1>5. OnlySent' /\ StillToCome' /\ InWindow'
  BY <1>a, <1>b
<1> QED BY <1>0, <1>a, <1>1, <1>2, <1>3, <1>4, <1>5

\* A message that is just sent is in everybody's future.
LEMMA SendWindow ==
    ASSUME WindowInv, WindowAssumption, NEW m \in Msgs, CustomerSends(m)
    PROVE  WindowInv'
<1> USE DEF WindowInv, NothingFromTheFuture, OnlySent, PollerSteps, ClaimsEarly,
            ClaimsAreOld, GivenBackEarly, StillToCome, InWindow
<1> USE DEF AtWork, PollerHolds, Latest, Procs, storeVars, pollVars, Never, TypeOK
<1>0. TypeOK'
  BY NextType DEF Next
<1>a. /\ UNCHANGED <<now, claims, pc, job, crashes, lastPoll, startedAt, threads, todo>>
      /\ sentAt[m] = Never /\ sentAt' = [sentAt EXCEPT ![m] = now]
  BY DEF CustomerSends
<1>b. /\ \A id \in Ids : Body[id] # m => (Waiting(id)' <=> Waiting(id))
      /\ \A id \in Ids : Exists(id)' <=> Exists(id)
  BY <1>a DEF CustomerSends, Waiting, StoredMessage, Exists, Total
<1>c. \A id \in Ids : Body[id] \in Msgs /\ (Waiting(id) => sentAt[Body[id]] # Never)
  BY DEF Waiting
<1>d. /\ \A id \in Ids : Body[id] = m => claims[id] = Never /\ id \notin todo
      /\ \A p \in Procs : AtWork(p) => Body[job[p]] # m
  BY <1>a
<1>e. \A id \in Ids : Body[id] = m => sentAt'[Body[id]] = now
  BY <1>a
<1>f. \A id \in Ids : Body[id] # m => sentAt'[Body[id]] = sentAt[Body[id]]
  BY <1>a, <1>c
<1>1. NothingFromTheFuture' /\ OnlySent'
  BY <1>0, <1>a, <1>c
<1>2. PollerSteps'
  BY <1>a, <1>b
<1>3. ClaimsEarly' /\ GivenBackEarly'
  BY <1>a, <1>b, <1>d, <1>f
<1>4. ClaimsAreOld'
  BY <1>a, <1>b, <1>d, <1>f
<1>5. StillToCome' /\ InWindow'
  BY <1>0, <1>a, <1>b, <1>c, <1>e, <1>f
<1> QED BY <1>0, <1>a, <1>1, <1>2, <1>3, <1>4, <1>5

LEMMA NextWindow ==
    ASSUME WindowAssumption, WindowInv, [Next]_vars
    PROVE  WindowInv'
<1>1. CASE Crash
  BY <1>1 DEF Crash, WindowInv, WindowAssumption
<1>2. CASE UNCHANGED vars
  BY <1>2 DEF vars, WindowInv, TypeOK, NothingFromTheFuture, OnlySent, PollerSteps, ClaimsEarly,
              ClaimsAreOld, GivenBackEarly, StillToCome, InWindow, AtWork, PollerHolds, Latest,
              Waiting, StoredMessage, Exists, Total
<1> QED BY <1>1, <1>2, TickWindow, SendWindow, StepWindow, WebhookWindow, PollWindow DEF Next

\* No message that is not stored and not being worked on falls out of the window
\* polling looks at: igLastPoll - 2 min (facebook.service.ts:171) reaches behind
\* every claim a webhook may have left (staleMs, :1378), so polling alone finds it.
THEOREM NothingFallsOut ==
    ASSUME WindowAssumption
    PROVE  Spec => []NothingLeftBehind
<1>1. Spec => []WindowInv
  BY InitWindow, NextWindow, PTL DEF Spec
<1>2. WindowInv => NothingLeftBehind
  <2> SUFFICES ASSUME WindowInv, NEW id \in GraphIds,
                      sentAt[Body[id]] # Never, ~StoredMessage(Body[id])
               PROVE  Moved(Thread[Body[id]])
    BY DEF NothingLeftBehind
  <2> QED BY WaitsInMoved DEF Waiting
<1> QED BY <1>1, <1>2, PTL
=============================================================================
