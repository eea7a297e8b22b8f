---------------------------- MODULE Subscription ----------------------------
(***************************************************************************)
(* The subscription of one account: BillingPaymentsService keeps on the    *)
(* tenant a copy of what Stripe says, from webhook events that carry       *)
(* snapshots, and from what it fetches itself after a request of the       *)
(* customer.  Handlers of events and requests interleave at every await;   *)
(* a save writes the whole `subscription` and, of the other fields, the    *)
(* ones that differ from what was loaded.                                  *)
(*                                                                         *)
(* Stripe, its delivery and the customer's checkout are external.  Prices, *)
(* billing cycles and periods are left out; connected assets stand for     *)
(* everything a plan limits.  Payments are configured (production).        *)
(***************************************************************************)
EXTENDS Integers, FiniteSets

CONSTANTS
    Plans, Free,   \* plans.ts
    Limit,         \* [Plans -> connected assets the plan allows]
    Grace,         \* PAST_DUE_GRACE_DAYS
    TrialDays,     \* length of the free trial
    Workers,       \* requests and events handled at the same time
    MaxSubs, MaxEmitted, MaxRequests, MaxUsage, MaxClock  \* bounds

ASSUME SubscriptionAssumption ==
    /\ Free \in Plans
    /\ Limit \in [Plans -> Nat]
    /\ \A p, q \in Plans : Limit[p] = Limit[q] => p = q  \* "limits grow with the price"
    /\ \A p \in Plans : Limit[Free] <= Limit[p]
    /\ Grace \in Nat /\ TrialDays \in Nat
    /\ MaxSubs \in Nat /\ MaxEmitted \in Nat /\ MaxRequests \in Nat
    /\ MaxUsage \in Nat /\ MaxClock \in Nat

VARIABLES
    tenant,    \* the stored tenant
    initial,   \* the plan it registered with
    usage,     \* connected assets it has
    subs,      \* [1..MaxSubs -> Stripe's subscriptions]
    sessions,  \* open checkout sessions
    events,    \* Stripe's events that were not acknowledged
    emitted,   \* Stripe's own time: three instants for each change
    granted,   \* <<subscription, plan>> that Stripe ever had running
    pc,        \* [Workers -> next await]
    held,      \* [Workers -> the event being handled (0: a request)]
    want,      \* [Workers -> the plan requested]
    loaded,    \* [Workers -> the tenant as it was loaded]
    snap,      \* [Workers -> the subscription as Stripe sent it]
    requests,  \* requests so far
    clock      \* days

vars == <<tenant, initial, usage, subs, sessions, events, emitted, granted,
          pc, held, want, loaded, snap, requests, clock>>
stripe == <<subs, sessions, events, emitted, granted>>
local  == <<tenant, initial, usage>>
inHand == <<held, want, loaded, snap>>

SubIds == 1..MaxSubs
Statuses == {"trialing", "active", "past_due", "unpaid", "paused"}
StripeStatuses == Statuses \cup {"incomplete", "canceled"}
Running(i) == subs[i].status \in Statuses

\* tenant.status for a status of Stripe's
tenantStatus ==
    [s \in Statuses \cup {"canceled"} |->
        CASE s \in {"active", "canceled"} -> "active"
          [] s = "trialing" -> "trial"
          [] s = "past_due" -> "past_due"
          [] s \in {"unpaid", "paused"} -> "locked"]

\* What Stripe knows of subscription i; customer 0 and status "none": not there yet.
None == [sub |-> 0, plan |-> Free, status |-> "none", ends |-> "never", customer |-> 0]
Snapshots == [sub : 0..MaxSubs, plan : Plans, status : StripeStatuses \cup {"none"},
              ends : {"never", "atPeriodEnd"}, customer : 0..MaxSubs]

\* buildInitialSubscription
InitialTenant(plan) ==
    [plan |-> plan, sub |-> 0, customer |-> 0, ends |-> "never", since |-> 0,
     status  |-> IF plan = Free THEN "active" ELSE "trialing",
     tstatus |-> IF plan = Free THEN "active" ELSE "trial"]

Init ==
    /\ initial \in Plans
    /\ tenant = InitialTenant(initial)
    /\ usage = 0
    /\ subs = [i \in SubIds |-> None]
    /\ sessions = {} /\ events = {} /\ emitted = 0 /\ granted = {}
    /\ pc = [w \in Workers |-> "idle"]
    /\ held = [w \in Workers |-> 0]
    /\ want = [w \in Workers |-> Free]
    /\ loaded = [w \in Workers |-> InitialTenant(Free)]
    /\ snap = [w \in Workers |-> None]
    /\ requests = 0
    /\ clock = 1

-----------------------------------------------------------------------------
(* Access. *)

\* computeAccess: what the account may do now.
Access(t) ==
    CASE t.tstatus = "locked" -> "locked"
      [] t.tstatus # "locked" /\ t.plan = Free -> "free"
      [] t.tstatus # "locked" /\ t.plan # Free /\ t.status = "trialing" ->
            IF clock <= TrialDays THEN "trialing" ELSE "trial_expired"
      [] t.tstatus # "locked" /\ t.plan # Free /\ t.status = "past_due" ->
            IF clock < t.since + Grace THEN "past_due" ELSE "past_due_locked"
      [] OTHER -> t.status

CanWrite(t) == Access(t) \in {"free", "trialing", "past_due", "active"}

-----------------------------------------------------------------------------
(* Stripe. *)

\* Stripe's subscription i becomes s; it says so, after the failed payment if
\* that is the reason, and tells that the checkout is done if that is.
Change(i, s, failed, completed) ==
    LET News(type, at) == [type |-> type, at |-> at, snap |-> s]
        first  == IF failed THEN {News("payment_failed", emitted + 1)} ELSE {}
        second == IF s # subs[i] THEN {News("subscription", emitted + 2)} ELSE {}
        third  == IF completed THEN {News("completed", emitted + 3)} ELSE {}
    IN  /\ emitted < MaxEmitted
        /\ subs' = [subs EXCEPT ![i] = s]
        /\ emitted' = IF failed \/ completed \/ s # subs[i] THEN emitted + 3 ELSE emitted
        /\ events' = events \cup first \cup second \cup third
        /\ granted' = IF s.status \in Statuses THEN granted \cup {<<i, s.plan>>} ELSE granted

\* The customer pays: the subscription is created, in trial or incomplete.
CompleteCheckout(session, i) ==
    /\ session \in sessions
    /\ subs[i] = None /\ \A j \in 1..(i - 1) : subs[j] # None
    /\ Change(i, [sub |-> i, plan |-> session.plan, ends |-> "never", customer |-> session.customer,
                  status |-> session.starts], FALSE, session.starts = "trialing")
    /\ sessions' = sessions \ {session}
    /\ UNCHANGED <<local, pc, inHand, requests, clock>>

\* The ways a subscription moves on its own.
Moves == {<<"incomplete", "active">>, <<"trialing", "active">>, <<"trialing", "paused">>,
          <<"trialing", "past_due">>, <<"paused", "active">>, <<"active", "past_due">>,
          <<"past_due", "past_due">>, <<"past_due", "active">>, <<"past_due", "unpaid">>,
          <<"unpaid", "active">>}

Move(i, status) ==
    /\ <<subs[i].status, status>> \in Moves
    /\ Change(i, [subs[i] EXCEPT !.status = status],
              status = "past_due" \/ <<subs[i].status, status>> = <<"past_due", "unpaid">>,
              subs[i].status = "incomplete")
    /\ UNCHANGED <<local, sessions, pc, inHand, requests, clock>>

\* The period of a subscription that was cancelled ends, or Stripe gives up.
End(i) ==
    /\ Running(i)
    /\ subs[i].ends = "atPeriodEnd" \/ subs[i].status \in {"past_due", "unpaid"}
    /\ Change(i, [subs[i] EXCEPT !.status = "canceled"], FALSE, FALSE)
    /\ UNCHANGED <<local, sessions, pc, inHand, requests, clock>>

-----------------------------------------------------------------------------
(* Handlers: common steps. *)

GoTo(w, step) == pc' = [pc EXCEPT ![w] = step]

\* The handler is over and forgets what it had in hand.
Over(w) ==
    /\ GoTo(w, "idle")
    /\ held' = [held EXCEPT ![w] = 0]
    /\ want' = [want EXCEPT ![w] = Free]
    /\ loaded' = [loaded EXCEPT ![w] = InitialTenant(Free)]
    /\ snap' = [snap EXCEPT ![w] = None]
    /\ UNCHANGED <<requests, clock>>

\* It is done: the event it handled is acknowledged.
Done(w) ==
    /\ Over(w)
    /\ events' = {e \in events : e.at # held[w]}
    /\ UNCHANGED <<subs, sessions, emitted, granted>>

\* save with markModified('subscription'): tenant.status is written if it changed.
Saved(w, t) == [t EXCEPT !.tstatus = IF @ # loaded[w].tstatus THEN @ ELSE tenant.tstatus]

\* syncSubscription: the tenant is loaded,
LoadForSync(w) ==
    /\ pc[w] = "sync"
    /\ loaded' = [loaded EXCEPT ![w] = tenant]
    /\ GoTo(w, IF snap[w].status = "incomplete" THEN "ignore" ELSE "saveSync")
    /\ UNCHANGED <<local, stripe, held, want, snap, requests, clock>>

SyncedRestartsGrace(s, previous) ==
    IF s.status = "canceled"
    THEN [plan |-> Free, status |-> "active", tstatus |-> "active", ends |-> "never",
          sub |-> 0, customer |-> s.customer, since |-> 0]
    ELSE [plan |-> s.plan, status |-> s.status, tstatus |-> tenantStatus[s.status],
          ends |-> s.ends, sub |-> s.sub, customer |-> s.customer,
          since |-> IF s.status = "past_due" THEN clock ELSE 0]
SyncedKeepsLink(s, previous) ==
    [plan |-> IF s.status = "canceled" THEN Free ELSE s.plan,
     status |-> IF s.status = "canceled" THEN "active" ELSE s.status,
     tstatus |-> tenantStatus[s.status], ends |-> s.ends,
     sub |-> s.sub, customer |-> s.customer,
     since |-> IF s.status # "past_due" THEN 0
               ELSE IF previous.since # 0 THEN previous.since ELSE clock]

\* what it becomes,
Synced(s, previous) ==
    IF s.status = "canceled"
    THEN [plan |-> Free, status |-> "active", tstatus |-> "active", ends |-> "never",
          sub |-> 0, customer |-> s.customer, since |-> 0]
    ELSE [plan |-> s.plan, status |-> s.status, tstatus |-> tenantStatus[s.status],
          ends |-> s.ends, sub |-> s.sub, customer |-> s.customer,
          since |-> IF s.status # "past_due" THEN 0
                    ELSE IF previous.since # 0 THEN previous.since ELSE clock]

\* and the save.
SaveSync(w) ==
    /\ pc[w] = "saveSync"
    /\ tenant' = Saved(w, Synced(snap[w], loaded[w]))
    /\ Done(w)
    /\ UNCHANGED <<initial, usage>>

\* incomplete: nothing to apply yet
IgnoreIncomplete(w) ==
    /\ pc[w] = "ignore"
    /\ Done(w)
    /\ UNCHANGED local

-----------------------------------------------------------------------------
(* handleStripeEvent *)

Deliver(w, e) ==
    /\ pc[w] = "idle"
    /\ held' = [held EXCEPT ![w] = e.at]
    /\ snap' = [snap EXCEPT ![w] = e.snap]
    /\ GoTo(w, CASE e.type = "subscription" -> "sync"
                 [] e.type = "completed" -> "fetch"
                 [] e.type = "payment_failed" -> "find")
    /\ UNCHANGED <<local, stripe, want, loaded, requests, clock>>

\* checkout.session.completed fetches the subscription.
Fetch(w) ==
    /\ pc[w] = "fetch"
    /\ snap' = [snap EXCEPT ![w] = subs[snap[w].sub]]
    /\ GoTo(w, "sync")
    /\ UNCHANGED <<local, stripe, held, want, loaded, requests, clock>>

\* invoice.payment_failed looks for the tenant by subscription or customer.
FindTenant(w) ==
    /\ pc[w] = "find"
    /\ tenant.sub = snap[w].sub \/ tenant.customer = snap[w].customer
    /\ loaded' = [loaded EXCEPT ![w] = tenant]
    /\ GoTo(w, "savePastDue")
    /\ UNCHANGED <<local, stripe, held, want, snap, requests, clock>>

NoTenant(w) ==
    /\ pc[w] = "find"
    /\ tenant.sub # snap[w].sub /\ tenant.customer # snap[w].customer
    /\ Done(w)
    /\ UNCHANGED local

SavePastDue(w) ==
    /\ pc[w] = "savePastDue"
    /\ tenant' = Saved(w, [loaded[w] EXCEPT !.status = "past_due", !.tstatus = "past_due",
                                            !.since = IF @ = 0 THEN clock ELSE @])
    /\ Done(w)
    /\ UNCHANGED <<initial, usage>>

-----------------------------------------------------------------------------
(* The customer's requests. *)

Request(w, plan, step) ==
    /\ pc[w] = "idle"
    /\ requests < MaxRequests
    /\ requests' = requests + 1
    /\ loaded' = [loaded EXCEPT ![w] = tenant]
    /\ want' = [want EXCEPT ![w] = plan]
    /\ GoTo(w, step)
    /\ UNCHANGED <<local, stripe, held, snap, clock>>

\* changePlan; cancelAtPeriodEnd asks for Free and looks at what the account
\* uses only when there is no subscription; reactivate.
ChangePlan(w, plan) == Request(w, plan, "decide")
Cancel(w)           == Request(w, Free, IF tenant.sub # 0 THEN "cancel" ELSE "decideFree")
Reactivate(w)       == tenant.sub # 0 /\ Request(w, tenant.plan, "reactivate")

\* findDowngradeConflicts finds none, or is not asked.  (Cycles are not modelled:
\* to choose the plan the account has is to choose its other cycle.)
Fits(w) == Limit[want[w]] < Limit[loaded[w].plan] => usage <= Limit[want[w]]

Decide(w) ==
    /\ pc[w] = "decide"
    /\ Fits(w)
    /\ GoTo(w, IF want[w] = Free
               THEN IF loaded[w].sub # 0 THEN "cancel" ELSE "applyFree"
               ELSE IF loaded[w].sub # 0 THEN "switch"
               ELSE IF loaded[w].customer # 0 THEN "session" ELSE "customer")
    /\ UNCHANGED <<local, stripe, inHand, requests, clock>>

DecideFree(w) ==
    /\ pc[w] = "decideFree"
    /\ usage <= Limit[Free]
    /\ GoTo(w, "applyFree")
    /\ UNCHANGED <<local, stripe, inHand, requests, clock>>

\* applyLocalPlan of Free: nothing is kept of Stripe.
ApplyFree(w) ==
    /\ pc[w] = "applyFree"
    /\ tenant' = Saved(w, InitialTenant(Free))
    /\ Done(w)
    /\ UNCHANGED <<initial, usage>>

\* POST /subscriptions/<id>, of a subscription that has not ended.
Post(w, step, s) ==
    LET i == loaded[w].sub
    IN  /\ pc[w] = step
        /\ i \in SubIds /\ Running(i)
        /\ Change(i, s, FALSE, FALSE)
        /\ GoTo(w, "refresh")
        /\ UNCHANGED <<local, sessions, inHand, requests, clock>>

PostCancel(w)     == Post(w, "cancel", [subs[loaded[w].sub] EXCEPT !.ends = "atPeriodEnd"])
PostReactivate(w) == Post(w, "reactivate", [subs[loaded[w].sub] EXCEPT !.ends = "never"])
PostSwitch(w)     == Post(w, "switch", [subs[loaded[w].sub] EXCEPT !.ends = "never",
                                                                   !.plan = want[w]])

\* refreshFromStripe: whatever the tenant is linked to now is fetched.
Refresh(w) ==
    /\ pc[w] = "refresh" /\ tenant.sub # 0
    /\ snap' = [snap EXCEPT ![w] = subs[tenant.sub]]
    /\ GoTo(w, "sync")
    /\ UNCHANGED <<local, stripe, held, want, loaded, requests, clock>>

RefreshNothing(w) ==
    /\ pc[w] = "refresh" /\ tenant.sub = 0
    /\ Done(w)
    /\ UNCHANGED local

\* Mutant of EnsureCustomer: the plan is changed before it is paid.
EnsureCustomerAndPlan(w, c) ==
    /\ pc[w] = "customer"
    /\ \A i \in SubIds : subs[i].customer < c
    /\ \A s \in sessions : s.customer < c
    /\ tenant' = Saved(w, [loaded[w] EXCEPT !.customer = c, !.plan = want[w]])
    /\ loaded' = [loaded EXCEPT ![w].customer = c]
    /\ GoTo(w, "session")
    /\ UNCHANGED <<initial, usage, stripe, held, want, snap, requests, clock>>

\* ensureCustomer: the new customer is saved with the subscription as loaded.
EnsureCustomer(w, c) ==
    /\ pc[w] = "customer"
    /\ \A i \in SubIds : subs[i].customer < c
    /\ \A s \in sessions : s.customer < c
    /\ tenant' = Saved(w, [loaded[w] EXCEPT !.customer = c])
    /\ loaded' = [loaded EXCEPT ![w].customer = c]
    /\ GoTo(w, "session")
    /\ UNCHANGED <<initial, usage, stripe, held, want, snap, requests, clock>>

\* createCheckoutUrl: a trial that is still running (and not about to end) is honoured.
CreateSession(w, starts) ==
    /\ pc[w] = "session"
    /\ starts = "trialing" => Access(loaded[w]) = "trialing"
    /\ sessions' = sessions \cup {[plan |-> want[w], customer |-> loaded[w].customer, starts |-> starts]}
    /\ Over(w)
    /\ UNCHANGED <<local, subs, events, emitted, granted>>

\* A request is refused, Stripe or the database fails, or the server stops: an
\* event that was being handled is delivered again.
Fail(w) ==
    /\ pc[w] # "idle"
    /\ Over(w)
    /\ UNCHANGED <<local, stripe>>

-----------------------------------------------------------------------------
(* What a plan limits. *)

\* assertCanAddConnectedAssets
CheckRoom(w) ==
    /\ CanWrite(tenant)
    /\ usage < Limit[tenant.plan]
    /\ Request(w, tenant.plan, "create")

CreateAsset(w) ==
    /\ pc[w] = "create"
    /\ usage < MaxUsage
    /\ usage' = usage + 1
    /\ Over(w)
    /\ UNCHANGED <<tenant, initial, stripe>>

RemoveAsset ==
    /\ usage > 0
    /\ usage' = usage - 1
    /\ UNCHANGED <<tenant, initial, stripe, pc, inHand, requests, clock>>

Tick ==
    /\ clock < MaxClock
    /\ clock' = clock + 1
    /\ UNCHANGED <<local, stripe, pc, inHand, requests>>

-----------------------------------------------------------------------------
Stripe ==
    \E i \in SubIds : \/ \E session \in sessions : CompleteCheckout(session, i)
                      \/ \E status \in Statuses : Move(i, status)
                      \/ End(i)

Handle(w) ==
    \/ \E e \in events : Deliver(w, e)
    \/ Fetch(w) \/ FindTenant(w) \/ NoTenant(w) \/ SavePastDue(w)
    \/ LoadForSync(w) \/ SaveSync(w) \/ IgnoreIncomplete(w)

Serve(w) ==
    \/ \E plan \in Plans : ChangePlan(w, plan)
    \/ Cancel(w) \/ Reactivate(w)
    \/ Decide(w) \/ DecideFree(w) \/ ApplyFree(w)
    \/ PostCancel(w) \/ PostReactivate(w) \/ PostSwitch(w)
    \/ Refresh(w) \/ RefreshNothing(w)
    \/ \E c \in 1..MaxSubs : EnsureCustomer(w, c)
    \/ \E starts \in {"trialing", "incomplete"} : CreateSession(w, starts)
    \/ CheckRoom(w) \/ CreateAsset(w)

Next ==
    \/ Stripe \/ RemoveAsset \/ Tick
    \/ \E w \in Workers : Handle(w) \/ Serve(w) \/ Fail(w)

Spec == Init /\ [][Next]_vars

-----------------------------------------------------------------------------
(* Properties. *)

Tenants ==
    [plan : Plans, status : Statuses, tstatus : {"active", "trial", "past_due", "locked"},
     ends : {"never", "atPeriodEnd"}, sub : 0..MaxSubs, customer : 0..MaxSubs, since : Nat]
PCs == {"idle", "decide", "decideFree", "applyFree", "cancel", "reactivate", "switch", "refresh",
        "customer", "session", "fetch", "sync", "saveSync", "ignore", "find", "savePastDue", "create"}

\* Every variable has its type.
TypeOK ==
    /\ tenant \in Tenants /\ initial \in Plans /\ usage \in Nat
    /\ subs \in [SubIds -> Snapshots]
    /\ sessions \subseteq [plan : Plans, customer : 0..MaxSubs, starts : {"trialing", "incomplete"}]
    /\ events \subseteq [at : Nat, type : {"subscription", "completed", "payment_failed"}, snap : Snapshots]
    /\ emitted \in Nat
    /\ granted \subseteq SubIds \X Plans
    /\ pc \in [Workers -> PCs] /\ held \in [Workers -> Nat] /\ want \in [Workers -> Plans]
    /\ loaded \in [Workers -> Tenants] /\ snap \in [Workers -> Snapshots]
    /\ requests \in Nat /\ clock \in Nat

\* "payments: nothing is activated without paying" (billing.spec.ts:174): the
\* account is on a paid plan only in the trial it registered with, or because
\* Stripe had the subscription it is linked to running on that plan.
NothingWithoutPaying ==
    \/ tenant.plan = Free
    \/ tenant.sub = 0 /\ tenant.plan = initial
    \/ <<tenant.sub, tenant.plan>> \in granted

\* No event is outstanding and nothing is being handled.
Quiet == events = {} /\ \A w \in Workers : pc[w] = "idle"

\* "The Stripe subscription is the source of truth" (billing-payments.service.ts:349):
\* when everything Stripe said was handled, the tenant is what Stripe says.
FollowsStripe ==
    Quiet =>
        \/ \E i \in SubIds : /\ Running(i)
                             /\ tenant.sub = i
                             /\ tenant.plan = subs[i].plan
                             /\ tenant.status = subs[i].status
                             /\ tenant.ends = subs[i].ends
                             /\ tenant.tstatus = tenantStatus[subs[i].status]
        \/ /\ \A i \in SubIds : ~Running(i)
           /\ tenant.sub = 0 /\ tenant.plan \in {Free, initial}
           /\ tenant.plan # Free => tenant.status = "trialing"

\* pastDueSince is "set when the first failed payment happened; drives the grace
\* period" (tenant.entity.ts:68): while the account stays past due, no event or request
\* moves it, in any order and however often it is delivered, but one that had loaded the
\* account with another date (before that payment failed) and writes it over the stored one.
GraceStep ==
    tenant.status = "past_due" /\ tenant'.status = "past_due" /\ tenant'.since # tenant.since =>
        \E w \in Workers : pc'[w] # pc[w] /\ loaded[w].since # tenant.since
GraceRunsOn == [][GraceStep]_vars

\* "Never leave the account with more than the new plan allows"
\* (billing-payments.service.ts:142): an account that chose Free gets it when it fits.
ChosenPlanFits ==
    [][tenant.ends = "atPeriodEnd" /\ tenant'.plan = Free => usage <= Limit[Free]]_vars
=============================================================================
