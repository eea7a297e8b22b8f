----------------------------- MODULE MetaIngest -----------------------------
(***************************************************************************)
(* How a customer's Instagram direct message becomes a stored message:     *)
(* FacebookService.handleIncomingMessage (webhook), syncInstagramMessages  *)
(* (polling every 20 s), and the claims collection that keeps the two from *)
(* processing one message twice.                                           *)
(*                                                                         *)
(* A worker is one webhook call in progress, Poller the single polling     *)
(* pass (igPolling).  Every step is one awaited call, so that everything   *)
(* that can run between two awaits does.  Inbound messages only: echoes    *)
(* and the pairing of our own outbound messages are not modelled here.     *)
(*                                                                         *)
(* One unit of time is 30 s: Stale = 3 is staleMs, Slack = 4 the two       *)
(* minutes the polling window reaches behind the previous pass.            *)
(***************************************************************************)
EXTENDS Integers, FiniteSets

CONSTANTS
    Msgs,          \* what customers write
    Ids,           \* ids under which Meta reports them
    Body,          \* [Ids -> Msgs]: the message an id stands for
    WebhookIds,    \* ids the webhook uses
    GraphIds,      \* ids the Graph API lists
    Thread,        \* [Msgs -> Threads]
    Threads,       \* Graph conversations
    Alike,         \* pairs of messages with the same text within 3 s
    Workers,       \* webhook calls that may run at the same time
    Poller,        \* the polling pass
    Stale, Slack,  \* age at which a claim is taken over; look-back of a pass
    WebhookDelay,  \* latest a webhook arrives after the message was sent
    MaxTime,       \* bound of the clock
    LastSend,      \* bound of the time at which a message is sent
    MaxDeliveries, \* bound of the webhook calls Meta makes for one id
    MaxCrashes,    \* bound of the server restarts
    Prompt,        \* TRUE: no handler outlives Stale between claim and save
    ClaimOutage,   \* TRUE: the claims collection may be unreachable
    Faults,        \* TRUE: a webhook handler may throw
    PollFaults     \* TRUE: a Graph or database call of a pass may fail

ASSUME IngestAssumption ==
    /\ Ids # {}
    /\ Body \in [Ids -> Msgs]
    /\ WebhookIds \subseteq Ids /\ GraphIds \subseteq Ids
    /\ Thread \in [Msgs -> Threads]
    /\ Alike \subseteq Msgs \X Msgs
    /\ Poller \notin Workers
    /\ {Stale, Slack, WebhookDelay, MaxTime, LastSend, MaxDeliveries, MaxCrashes} \subseteq Nat
    /\ {Prompt, ClaimOutage, Faults, PollFaults} \subseteq BOOLEAN

VARIABLES
    now,         \* the clock
    sentAt,      \* [Msgs -> time sent, or Never]
    deliveries,  \* [WebhookIds -> webhook calls made so far]
    claims,      \* [Ids -> `at` of its claim, or Never]
    copies,      \* [Ids -> [path -> documents stored under the id by that path]]
    counted,     \* [Ids -> times the conversation was updated for it]
    announced,   \* [Ids -> MESSAGE_RECEIVED events emitted for it]
    pc, job,     \* per process: its next await and the id it works on
    lastPoll,    \* igLastPoll of the tenant; 0 after a restart
    startedAt,   \* when the pass in progress began
    threads,     \* threads the pass has still to open
    todo,        \* ids of the open thread the pass has still to look at
    crashes

vars == <<now, sentAt, deliveries, claims, copies, counted, announced, pc, job, lastPoll,
          startedAt, threads, todo, crashes>>

pollVars   == <<lastPoll, startedAt, threads, todo>>
storeVars  == <<copies, counted, announced>>
envVars    == <<now, sentAt, deliveries, crashes>>

Never == -1
Procs == Workers \cup {Poller}
Paths == {"webhook", "polling"}
PathOf(p) == IF p = Poller THEN "polling" ELSE "webhook"
\* Where a process goes when it is done with an id.
Rest(p) == IF p = Poller THEN "scan" ELSE "idle"

Total(id) == copies[id]["webhook"] + copies[id]["polling"]

\* messageModel.exists on tenantId and metadata.externalId.
Exists(id) == Total(id) > 0

\* hasTwinInbound: a message that reads the same, stored by the other path.
hasTwinInbound(id, storedBy) ==
    \E other \in Ids : /\ copies[other][storedBy] > 0
                       /\ <<Body[other], Body[id]>> \in Alike

\* The steps between obtaining the claim and leaving the handler.
Holding == {"detail", "check", "resolve", "twin", "save", "count", "announce", "release"}

Init ==
    /\ now = 0
    /\ sentAt = [m \in Msgs |-> Never]
    /\ deliveries = [id \in WebhookIds |-> 0]
    /\ claims = [id \in Ids |-> Never]
    /\ copies = [id \in Ids |-> [path \in Paths |-> 0]]
    /\ counted = [id \in Ids |-> 0]
    /\ announced = [id \in Ids |-> 0]
    /\ pc = [p \in Procs |-> "idle"]
    /\ job = [p \in Procs |-> CHOOSE id \in Ids : TRUE]
    /\ lastPoll = 0
    /\ startedAt = 0
    /\ threads = {}
    /\ todo = {}
    /\ crashes = 0

-----------------------------------------------------------------------------
(* Customers, Meta and time. *)

CustomerSends(m) ==
    /\ sentAt[m] = Never /\ now <= LastSend
    /\ sentAt' = [sentAt EXCEPT ![m] = now]
    /\ UNCHANGED <<now, deliveries, claims, storeVars, pc, job, pollVars, crashes>>

\* A prompt handler reaches its claim at once and never outlives it.
InTime(p) ==
    /\ pc[p] \notin {"claim", "takeover"}
    /\ (pc[p] \in Holding /\ claims[job[p]] # Never) => now + 1 - claims[job[p]] <= Stale

Tick ==
    /\ now < MaxTime
    /\ Prompt => \A p \in Procs : InTime(p)
    /\ now' = now + 1
    /\ UNCHANGED <<sentAt, deliveries, claims, storeVars, pc, job, pollVars, crashes>>

-----------------------------------------------------------------------------
(* The claim. *)

GoTo(p, step) == pc' = [pc EXCEPT ![p] = step]

\* A process that may handle the id: polling fetches the message first.
Granted(p) == GoTo(p, IF p = Poller THEN "detail" ELSE "check")

ClaimInsert(p) ==
    /\ pc[p] = "claim"
    /\ claims[job[p]] = Never
    /\ claims' = [claims EXCEPT ![job[p]] = now]
    /\ Granted(p)
    /\ UNCHANGED <<envVars, storeVars, job, pollVars>>

ClaimDuplicateKey(p) ==
    /\ pc[p] = "claim"
    /\ claims[job[p]] # Never
    /\ GoTo(p, "takeover")
    /\ UNCHANGED <<envVars, storeVars, claims, job, pollVars>>

\* Mutants of IsStale: the age is not compared; no claim is ever stale.
IsStaleAtOnce(id) == claims[id] # Never
IsStaleNever(id) == FALSE

IsStale(id) == claims[id] # Never /\ claims[id] < now - Stale

ClaimTakeOver(p) ==
    /\ pc[p] = "takeover"
    /\ IsStale(job[p])
    /\ claims' = [claims EXCEPT ![job[p]] = now]
    /\ Granted(p)
    /\ UNCHANGED <<envVars, storeVars, job, pollVars>>

ClaimRefused(p) ==
    /\ pc[p] = "takeover"
    /\ ~IsStale(job[p])
    /\ GoTo(p, Rest(p))
    /\ UNCHANGED <<envVars, storeVars, claims, job, pollVars>>

\* The claims collection cannot be reached: go on without a claim.
ClaimUnavailable(p) ==
    /\ ClaimOutage
    /\ pc[p] \in {"claim", "takeover"}
    /\ Granted(p)
    /\ UNCHANGED <<envVars, storeVars, claims, job, pollVars>>

\* deleteOne on the key, whoever the claim belongs to.
releaseMetaEvent(p) ==
    /\ pc[p] = "release"
    /\ claims' = [claims EXCEPT ![job[p]] = Never]
    /\ GoTo(p, Rest(p))
    /\ UNCHANGED <<envVars, storeVars, job, pollVars>>

\* The deletion fails: the claim stays until it goes stale.
ReleaseUnavailable(p) ==
    /\ ClaimOutage
    /\ pc[p] = "release"
    /\ GoTo(p, Rest(p))
    /\ UNCHANGED <<envVars, storeVars, claims, job, pollVars>>

-----------------------------------------------------------------------------
(* The webhook. *)

WebhookArrives(w, id) ==
    /\ pc[w] = "idle"
    /\ sentAt[Body[id]] # Never
    /\ now - sentAt[Body[id]] <= WebhookDelay
    /\ deliveries[id] < MaxDeliveries
    /\ deliveries' = [deliveries EXCEPT ![id] = @ + 1]
    /\ job' = [job EXCEPT ![w] = id]
    /\ GoTo(w, "claim")
    /\ UNCHANGED <<now, sentAt, crashes, storeVars, claims, pollVars>>

\* The existence check runs before the try block: its failure keeps the claim.
CheckThrows(w) ==
    /\ Faults
    /\ pc[w] = "check"
    /\ GoTo(w, "idle")
    /\ UNCHANGED <<envVars, storeVars, claims, job, pollVars>>

\* getOrCreateContact and getOrCreateConversation.
Resolve(w) ==
    /\ pc[w] = "resolve"
    /\ GoTo(w, "twin")
    /\ UNCHANGED <<envVars, storeVars, claims, job, pollVars>>

\* processIncomingMessage throws: the catch block gives the claim back.
HandlerThrows(w) ==
    /\ Faults
    /\ pc[w] \in {"resolve", "twin", "save", "count"}
    /\ GoTo(w, "release")
    /\ UNCHANGED <<envVars, storeVars, claims, job, pollVars>>

-----------------------------------------------------------------------------
(* Steps both paths take. *)

\* Mutant of Check: having the claim is taken for proof that nothing is stored.
CheckTrustsClaim(p) ==
    /\ pc[p] = "check"
    /\ GoTo(p, IF p = Poller THEN "twin" ELSE "resolve")
    /\ UNCHANGED <<envVars, storeVars, claims, job, pollVars>>

Check(p) ==
    /\ pc[p] = "check"
    /\ GoTo(p, IF Exists(job[p]) THEN Rest(p)
               ELSE IF p = Poller THEN "twin" ELSE "resolve")
    /\ UNCHANGED <<envVars, storeVars, claims, job, pollVars>>

TwinCheck(p) ==
    LET other == IF p = Poller THEN "webhook" ELSE "polling"
    IN  /\ pc[p] = "twin"
        /\ GoTo(p, IF hasTwinInbound(job[p], other) THEN Rest(p) ELSE "save")
        /\ UNCHANGED <<envVars, storeVars, claims, job, pollVars>>

Save(p) ==
    /\ pc[p] = "save"
    /\ copies' = [copies EXCEPT ![job[p]][PathOf(p)] = @ + 1]
    /\ GoTo(p, "count")
    /\ UNCHANGED <<envVars, counted, announced, claims, job, pollVars>>

\* lastMessage, status and unreadCount of the conversation.
Count(p) ==
    /\ pc[p] = "count"
    /\ counted' = [counted EXCEPT ![job[p]] = @ + 1]
    /\ GoTo(p, "announce")
    /\ UNCHANGED <<envVars, copies, announced, claims, job, pollVars>>

\* The automation event and the sockets.
Announce(p) ==
    /\ pc[p] = "announce"
    /\ announced' = [announced EXCEPT ![job[p]] = @ + 1]
    /\ GoTo(p, Rest(p))
    /\ UNCHANGED <<envVars, copies, counted, claims, job, pollVars>>

-----------------------------------------------------------------------------
(* The polling pass: autoSyncInstagram and syncInstagramMessages. *)

\* Mutant of Since: the window starts where the last pass started.
SinceNoSlack == lastPoll

Since == IF lastPoll < Slack THEN 0 ELSE lastPoll - Slack

SentIn(t) == {m \in Msgs : Thread[m] = t /\ sentAt[m] # Never}

\* updated_time of the thread is not before the window.
Moved(t) == \E m \in SentIn(t) : sentAt[m] >= Since

PollStart ==
    /\ pc[Poller] = "idle"
    /\ startedAt' = now
    /\ GoTo(Poller, "list")
    /\ UNCHANGED <<envVars, storeVars, claims, job, lastPoll, threads, todo>>

PollList ==
    /\ pc[Poller] = "list"
    /\ threads' = {t \in Threads : Moved(t)}
    /\ todo' = {}
    /\ GoTo(Poller, "scan")
    /\ UNCHANGED <<envVars, storeVars, claims, job, lastPoll, startedAt>>

PollThread(t) ==
    /\ pc[Poller] = "scan"
    /\ todo = {} /\ t \in threads
    /\ threads' = threads \ {t}
    /\ todo' = {id \in GraphIds : Body[id] \in SentIn(t)}
    /\ UNCHANGED <<envVars, storeVars, claims, pc, job, lastPoll, startedAt>>

\* Oldest first; what is already stored is skipped without a claim.
PollNext(id) ==
    /\ pc[Poller] = "scan"
    /\ id \in todo
    /\ \A other \in todo : sentAt[Body[id]] <= sentAt[Body[other]]
    /\ todo' = todo \ {id}
    /\ IF Exists(id)
       THEN UNCHANGED <<pc, job>>
       ELSE job' = [job EXCEPT ![Poller] = id] /\ GoTo(Poller, "claim")
    /\ UNCHANGED <<envVars, storeVars, claims, lastPoll, startedAt, threads>>

PollDetail ==
    /\ pc[Poller] = "detail"
    /\ GoTo(Poller, "check")
    /\ UNCHANGED <<envVars, storeVars, claims, job, pollVars>>

PollEnd ==
    /\ pc[Poller] = "scan"
    /\ todo = {} /\ threads = {}
    /\ lastPoll' = startedAt
    /\ GoTo(Poller, "idle")
    /\ UNCHANGED <<envVars, storeVars, claims, job, startedAt, threads, todo>>

\* Graph answers the details with an error: this message gives its claim back.
PollDetailError ==
    /\ PollFaults
    /\ pc[Poller] = "detail"
    /\ GoTo(Poller, "release")
    /\ UNCHANGED <<envVars, storeVars, claims, job, pollVars>>

\* Graph answers the messages of a thread with an error: on to the next thread.
PollThreadError(t) ==
    /\ PollFaults
    /\ pc[Poller] = "scan"
    /\ todo = {} /\ t \in threads
    /\ threads' = threads \ {t}
    /\ UNCHANGED <<envVars, storeVars, claims, pc, job, lastPoll, startedAt, todo>>

\* A call throws, or Graph refuses the thread list: the pass skips what it had
\* left of the page, keeps the claim it holds, and is recorded all the same.
PollAbort ==
    /\ PollFaults
    /\ pc[Poller] \in {"list", "scan", "detail", "check", "twin", "save", "count"}
    /\ lastPoll' = startedAt
    /\ threads' = {} /\ todo' = {}
    /\ GoTo(Poller, "idle")
    /\ UNCHANGED <<envVars, storeVars, claims, job, startedAt>>

\* Looking up the connected pages throws out of syncInstagramMessages.
PollThrows ==
    /\ PollFaults
    /\ pc[Poller] = "list"
    /\ GoTo(Poller, "idle")
    /\ UNCHANGED <<envVars, storeVars, claims, job, pollVars>>

-----------------------------------------------------------------------------
\* The server restarts: handlers and igLastPoll are gone, the database stays.
Crash ==
    /\ crashes < MaxCrashes
    /\ crashes' = crashes + 1
    /\ pc' = [p \in Procs |-> "idle"]
    /\ lastPoll' = 0
    /\ threads' = {} /\ todo' = {}
    /\ UNCHANGED <<now, sentAt, deliveries, storeVars, claims, job, startedAt>>

Step(p) ==
    \/ ClaimInsert(p) \/ ClaimDuplicateKey(p) \/ ClaimTakeOver(p) \/ ClaimRefused(p)
    \/ ClaimUnavailable(p) \/ releaseMetaEvent(p) \/ ReleaseUnavailable(p)
    \/ Check(p) \/ TwinCheck(p) \/ Save(p) \/ Count(p) \/ Announce(p)

Webhook(w) ==
    \/ \E id \in WebhookIds : WebhookArrives(w, id)
    \/ CheckThrows(w) \/ Resolve(w) \/ HandlerThrows(w)

Poll ==
    \/ PollStart \/ PollList \/ PollDetail \/ PollEnd
    \/ \E t \in Threads : PollThread(t)
    \/ \E id \in GraphIds : PollNext(id)
    \/ \E t \in Threads : PollThreadError(t)
    \/ PollDetailError \/ PollAbort \/ PollThrows

Next ==
    \/ Tick
    \/ Crash
    \/ \E m \in Msgs : CustomerSends(m)
    \/ \E p \in Procs : Step(p)
    \/ \E w \in Workers : Webhook(w)
    \/ Poll

Spec == Init /\ [][Next]_vars

\* What runs by itself: the cron job, and handlers once started.  Fairness of
\* the clock is strong: no infinity of passes fits into one instant.
Fairness ==
    /\ SF_vars(Tick)
    /\ WF_vars(Poll)
    /\ \A p \in Procs : WF_vars(Step(p))
    /\ \A w \in Workers : WF_vars(Resolve(w))

FairSpec == Spec /\ Fairness

-----------------------------------------------------------------------------
(* Properties. *)

PCs == {"idle", "claim", "takeover", "list", "scan"} \cup Holding

\* Every variable has its type.
TypeOK ==
    /\ now \in Nat
    /\ sentAt \in [Msgs -> Nat \cup {Never}]
    /\ deliveries \in [WebhookIds -> Nat]
    /\ claims \in [Ids -> Nat \cup {Never}]
    /\ copies \in [Ids -> [Paths -> Nat]]
    /\ counted \in [Ids -> Nat]
    /\ announced \in [Ids -> Nat]
    /\ pc \in [Procs -> PCs]
    /\ job \in [Procs -> Ids]
    /\ lastPoll \in Nat /\ startedAt \in Nat
    /\ threads \subseteq Threads
    /\ todo \subseteq GraphIds
    /\ crashes \in Nat

\* "Exactly-once processing of Meta events" (facebook.service.ts:1366), the
\* at-most-once half: whatever the webhook, the polling pass, retries and
\* restarts do, an id is stored at most once.
AtMostOnce == \A id \in Ids : Total(id) <= 1

\* Automations react to a message at most once, and only after it is stored and
\* its conversation was updated (processIncomingMessage's order).
AnnouncedOnce ==
    \A id \in Ids : announced[id] <= counted[id] /\ counted[id] <= Total(id) /\ announced[id] <= 1

StoredMessage(m) == \E id \in Ids : Body[id] = m /\ Exists(id)

Working(m) == \E p \in Procs : pc[p] \notin {"idle", "list", "scan"} /\ Body[job[p]] = m

\* "so nothing depends on the webhook alone" (facebook.service.ts:171): no
\* message that is not stored falls out of the window polling looks at.
NothingLeftBehind ==
    \A id \in GraphIds :
        (sentAt[Body[id]] # Never /\ ~StoredMessage(Body[id]) /\ ~Working(Body[id]))
            => Moved(Thread[Body[id]])

\* Only a message that really is the same one is dropped as a twin
\* (facebook.service.ts:1429).
TwinIsSameMessage ==
    [][\A p \in Procs : (pc[p] = "twin" /\ pc'[p] = Rest(p) /\ crashes' = crashes)
           => StoredMessage(Body[job[p]])]_vars

\* A message stored under one id is not stored again under another.
OncePerMessage ==
    \A m \in Msgs : Cardinality({id \in Ids : Body[id] = m /\ Exists(id)}) <= 1

\* Exactly once, as an abstract specification.
ExactlyOnce == INSTANCE Inbox WITH stored <- [id \in Ids |-> Total(id)], heard <- announced
InboxSpec == ExactlyOnce!Spec

\* Every message the Graph API lists is stored in the end.
EventuallyStored ==
    \A id \in GraphIds : sentAt[Body[id]] # Never ~> StoredMessage(Body[id])

=============================================================================
