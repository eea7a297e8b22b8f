------------------------- MODULE SubscriptionProofs -------------------------
(***************************************************************************)
(* What holds of Subscription for any plans, limits and number of          *)
(* handlers, whatever the order in which Stripe's events are handled and   *)
(* however often: types, that nothing is activated without paying, that    *)
(* the tenant follows Stripe's last word, and that the grace runs on.      *)
(***************************************************************************)
EXTENDS MCSubscription, TLAPS

\* Snapshots are of subscriptions that exist, and what is loaded links to one.
IsOf(s) ==
    /\ s.status # "none"
    /\ s.sub \in SubIds
    /\ subs[s.sub].status # "none"

Handling == {"fetch", "sync", "saveSync", "ignore", "find", "savePastDue"}

Shape ==
    /\ \A i \in SubIds : subs[i].status # "none" => subs[i].sub = i
    /\ \A e \in events : IsOf(e.snap)
    /\ tenant.sub # 0 => subs[tenant.sub].status # "none"
    /\ \A w \in Workers : loaded[w].sub # 0 => subs[loaded[w].sub].status # "none"
    /\ \A w \in Workers : pc[w] \in Handling => IsOf(snap[w])
    /\ \A w \in Workers : pc[w] = "saveSync" => snap[w].status # "incomplete"

\* A paid plan, stored or loaded, and a running subscription, Stripe's own or
\* in a snapshot, are ones that Stripe had running.
PaidFor(t) ==
    \/ t.plan = Free
    \/ t.sub = 0 /\ t.plan = initial
    \/ <<t.sub, t.plan>> \in granted

Ran(s) == s.status \in Statuses => <<s.sub, s.plan>> \in granted

Paid ==
    /\ PaidFor(tenant)
    /\ \A w \in Workers : PaidFor(loaded[w]) /\ Ran(snap[w])
    /\ \A i \in SubIds : Ran(subs[i])
    /\ \A e \in events : Ran(e.snap)

Inv == TypeOK /\ Shape /\ Paid

Sessions == [plan : Plans, customer : 0..MaxSubs, starts : {"trialing", "incomplete"}]

-----------------------------------------------------------------------------
(* Values. *)

LEMMA FreePlan == Free \in Plans /\ MaxSubs \in Nat
  BY SubscriptionAssumption

LEMMA InitialTenantType ==
    ASSUME NEW plan \in Plans
    PROVE  /\ InitialTenant(plan) \in Tenants
           /\ InitialTenant(plan).plan = plan /\ InitialTenant(plan).sub = 0
  BY FreePlan DEF InitialTenant, Tenants, Statuses

LEMMA NoneType == None \in Snapshots /\ None.status = "none"
  BY FreePlan DEF None, Snapshots, StripeStatuses, Statuses

LEMMA TenantStatusType ==
    ASSUME NEW s \in Statuses
    PROVE  tenantStatus[s] \in {"active", "trial", "past_due", "locked"}
  BY DEF tenantStatus, Statuses

LEMMA SyncedType ==
    ASSUME NEW s \in Snapshots, s.status \notin {"none", "incomplete"},
           NEW t \in Tenants, clock \in Nat
    PROVE  Synced(s, t) \in Tenants
<1>1. CASE s.status = "canceled"
  BY <1>1, FreePlan DEF Synced, Tenants, Snapshots, Statuses
<1>2. CASE s.status # "canceled"
  <2>1. s.status \in Statuses BY <1>2 DEF Snapshots, StripeStatuses
  <2>2. tenantStatus[s.status] \in {"active", "trial", "past_due", "locked"}
    BY <2>1, TenantStatusType
  <2>3. t.since \in Nat BY DEF Tenants
  <2>4. QED BY <1>2, <2>1, <2>2, <2>3 DEF Synced, Tenants, Snapshots
<1>3. QED BY <1>1, <1>2

\* A save writes a tenant whose plan and link are those of t.
LEMMA SavedType ==
    ASSUME NEW w \in Workers, NEW t \in Tenants, tenant \in Tenants
    PROVE  /\ Saved(w, t) \in Tenants
           /\ Saved(w, t).plan = t.plan /\ Saved(w, t).sub = t.sub
  BY DEF Saved, Tenants

-----------------------------------------------------------------------------
(* The initial states. *)

LEMMA InitInv == Init => Inv
<1> SUFFICES ASSUME Init PROVE Inv OBVIOUS
<1>1. tenant \in Tenants /\ tenant.sub = 0 /\ tenant.plan = initial
  BY InitialTenantType DEF Init
<1>2. \A w \in Workers : loaded[w] \in Tenants /\ loaded[w].plan = Free /\ loaded[w].sub = 0
  BY FreePlan, InitialTenantType DEF Init
<1>3. TypeOK
  BY <1>1, FreePlan, InitialTenantType, NoneType DEF Init, TypeOK, PCs, SubIds
<1>4. Shape
  BY <1>1, <1>2, NoneType DEF Init, Shape, Handling, SubIds
<1>5. Paid
  BY <1>1, <1>2, NoneType DEF Init, Paid, PaidFor, Ran, Statuses
<1>6. QED BY <1>3, <1>4, <1>5 DEF Inv

-----------------------------------------------------------------------------
(* Steps that leave Stripe's subscriptions alone. *)

\* What is stored and loaded may change, events may go.
LEMMA HandlerStep ==
    ASSUME Inv,
           UNCHANGED <<initial, subs, emitted, granted>>,
           events' \subseteq events, sessions' \subseteq Sessions,
           tenant' \in Tenants, PaidFor(tenant'), tenant'.sub # 0 => subs[tenant'.sub].status # "none",
           usage' \in Nat, requests' \in Nat, clock' \in Nat,
           NEW w \in Workers,
           NEW step \in PCs, pc' = [pc EXCEPT ![w] = step],
           NEW h \in Nat, held' = [held EXCEPT ![w] = h],
           NEW p \in Plans, want' = [want EXCEPT ![w] = p],
           NEW t \in Tenants, loaded' = [loaded EXCEPT ![w] = t], PaidFor(t),
           t.sub # 0 => subs[t.sub].status # "none",
           NEW s \in Snapshots, snap' = [snap EXCEPT ![w] = s], Ran(s),
           step \in Handling => IsOf(s),
           step = "saveSync" => s.status # "incomplete"
    PROVE  Inv'
<1> USE DEF Inv
<1>1. TypeOK' BY DEF TypeOK, Sessions
<1>2. \A v \in Workers : /\ pc'[v] = IF v = w THEN step ELSE pc[v]
                         /\ loaded'[v] = IF v = w THEN t ELSE loaded[v]
                         /\ snap'[v] = IF v = w THEN s ELSE snap[v]
  BY DEF TypeOK
<1>3. Shape' BY <1>2 DEF Shape, IsOf
<1>4. Paid' BY <1>2 DEF Paid, PaidFor, Ran
<1>5. QED BY <1>1, <1>3, <1>4

-----------------------------------------------------------------------------
(* Steps that change one of Stripe's subscriptions. *)

LEMMA ChangeFacts ==
    ASSUME Inv,
           NEW i \in SubIds, NEW s \in Snapshots, s.sub = i, s.status # "none",
           NEW failed, NEW completed, Change(i, s, failed, completed)
    PROVE  /\ subs' \in [SubIds -> Snapshots] /\ emitted' \in Nat
           /\ events' \subseteq [at : Nat, type : {"subscription", "completed", "payment_failed"},
                                 snap : Snapshots]
           /\ granted \subseteq granted' /\ granted' \subseteq SubIds \X Plans
           /\ subs' = [subs EXCEPT ![i] = s]
           /\ s.status \in Statuses => <<i, s.plan>> \in granted'
           /\ \A e \in events' : e \in events \/ e.snap = s
<1> USE DEF Inv
<1>1. subs' = [subs EXCEPT ![i] = s] /\ subs' \in [SubIds -> Snapshots]
  BY DEF Change, TypeOK
<1>2. emitted \in Nat /\ emitted' \in Nat BY DEF Change, TypeOK
<1>3. /\ granted \subseteq granted' /\ granted' \subseteq SubIds \X Plans
      /\ s.status \in Statuses => <<i, s.plan>> \in granted'
  BY DEF Change, TypeOK, Snapshots
<1>4. \A e \in events' : \/ e \in events
                         \/ /\ e.snap = s
                            /\ e \in [at : Nat, snap : Snapshots,
                                      type : {"subscription", "completed", "payment_failed"}]
  BY <1>2 DEF Change
<1>5. events' \subseteq [at : Nat, type : {"subscription", "completed", "payment_failed"},
                         snap : Snapshots]
  BY <1>4 DEF TypeOK
<1>6. QED BY <1>1, <1>2, <1>3, <1>4, <1>5

LEMMA StripeStep ==
    ASSUME Inv,
           NEW i \in SubIds, NEW s \in Snapshots, s.sub = i, s.status # "none",
           NEW failed, NEW completed, Change(i, s, failed, completed),
           sessions' \subseteq sessions,
           UNCHANGED <<local, inHand, requests, clock>>,
           pc' \in [Workers -> PCs], \A w \in Workers : pc'[w] \in Handling => pc'[w] = pc[w]
    PROVE  Inv'
<1> USE DEF Inv
<1>1. /\ subs' \in [SubIds -> Snapshots] /\ emitted' \in Nat
      /\ events' \subseteq [at : Nat, type : {"subscription", "completed", "payment_failed"},
                            snap : Snapshots]
      /\ granted \subseteq granted' /\ granted' \subseteq SubIds \X Plans
      /\ subs' = [subs EXCEPT ![i] = s]
      /\ s.status \in Statuses => <<i, s.plan>> \in granted'
      /\ \A e \in events' : e \in events \/ e.snap = s
  BY ChangeFacts
<1>2. UNCHANGED <<tenant, initial, usage, held, want, loaded, snap, requests, clock>>
  BY DEF local, inHand
<1>3. TypeOK' BY <1>1, <1>2 DEF TypeOK
<1>4. \A j \in SubIds : subs'[j] = IF j = i THEN s ELSE subs[j]
  BY <1>1 DEF TypeOK
<1>5. Shape'
  <2>1. \A j \in SubIds : subs'[j].status # "none" => subs'[j].sub = j
    BY <1>4 DEF Shape
  <2>2. \A x \in Snapshots : IsOf(x) => IsOf(x)'
    BY <1>4 DEF IsOf
  <2>3. IsOf(s)' BY <1>4 DEF IsOf
  <2>4. \A e \in events : IsOf(e.snap)' BY <2>2 DEF Shape, TypeOK
  <2>5. \A e \in events' : IsOf(e.snap)' BY <1>1, <2>3, <2>4
  <2>6. tenant.sub # 0 => tenant.sub \in SubIds BY DEF TypeOK, Tenants, SubIds
  <2>7. tenant'.sub # 0 => subs'[tenant'.sub].status # "none"
    BY <1>2, <1>4, <2>6 DEF Shape
  <2>8. \A w \in Workers : loaded'[w].sub # 0 => subs'[loaded'[w].sub].status # "none"
    <3>1. \A w \in Workers : loaded[w].sub # 0 => loaded[w].sub \in SubIds
      BY DEF TypeOK, Tenants, SubIds
    <3>2. QED BY <1>2, <1>4, <3>1 DEF Shape
  <2>9. \A w \in Workers : pc'[w] = "saveSync" => snap'[w].status # "incomplete"
    BY <1>2 DEF Shape, Handling
  <2>10. \A w \in Workers : (pc[w] \in Handling => IsOf(snap[w]))'
    BY <1>2, <1>4 DEF Shape, IsOf
  <2>11. \A e \in events' : (IsOf(e.snap))' BY <2>5
  <2>12. QED BY <2>1, <2>7, <2>8, <2>9, <2>10, <2>11 DEF Shape
<1>6. Paid'
  <2>1. \A t \in Tenants : PaidFor(t) => PaidFor(t)' BY <1>1, <1>2 DEF PaidFor
  <2>2. \A x \in Snapshots : Ran(x) => Ran(x)' BY <1>1 DEF Ran
  <2>3. Ran(s)' BY <1>1 DEF Ran
  <2>4. PaidFor(tenant)' BY <1>2, <2>1 DEF Paid, TypeOK, PaidFor
  <2>5. \A w \in Workers : (PaidFor(loaded[w]) /\ Ran(snap[w]))'
    <3>1. \A w \in Workers : PaidFor(loaded[w])' BY <1>1, <1>2 DEF Paid, PaidFor
    <3>2. \A w \in Workers : Ran(snap[w])' BY <1>1, <1>2 DEF Paid, Ran
    <3>3. QED BY <3>1, <3>2
  <2>6. \A j \in SubIds : Ran(subs[j])' BY <1>1, <1>4 DEF Paid, Ran
  <2>7. \A e \in events' : Ran(e.snap)' BY <1>1, <2>3 DEF Paid, Ran
  <2>8. QED BY <2>4, <2>5, <2>6, <2>7 DEF Paid
<1>7. QED BY <1>3, <1>5, <1>6

\* A handler takes its next step and nothing else happens.
LEMMA AdvanceStep ==
    ASSUME Inv, NEW w \in Workers, NEW step \in PCs, GoTo(w, step),
           UNCHANGED <<local, stripe, inHand, requests, clock>>,
           step \in Handling => IsOf(snap[w]),
           step = "saveSync" => snap[w].status # "incomplete"
    PROVE  Inv'
<1>1. /\ held[w] \in Nat /\ held' = [held EXCEPT ![w] = held[w]]
      /\ want[w] \in Plans /\ want' = [want EXCEPT ![w] = want[w]]
      /\ loaded[w] \in Tenants /\ loaded' = [loaded EXCEPT ![w] = loaded[w]]
      /\ snap[w] \in Snapshots /\ snap' = [snap EXCEPT ![w] = snap[w]]
  BY DEF Inv, TypeOK, inHand
<1>2. /\ UNCHANGED <<initial, subs, emitted, granted, tenant, usage, requests, clock>>
      /\ events' \subseteq events /\ sessions' \subseteq Sessions
      /\ pc' = [pc EXCEPT ![w] = step]
  BY DEF Inv, TypeOK, local, stripe, GoTo, Sessions
<1>3. /\ tenant' \in Tenants /\ PaidFor(tenant') /\ PaidFor(loaded[w]) /\ Ran(snap[w])
      /\ tenant'.sub # 0 => subs[tenant'.sub].status # "none"
      /\ loaded[w].sub # 0 => subs[loaded[w].sub].status # "none"
      /\ usage' \in Nat /\ requests' \in Nat /\ clock' \in Nat
  BY <1>2 DEF Inv, TypeOK, Shape, Paid
<1>4. QED BY <1>1, <1>2, <1>3, HandlerStep

\* A handler is over, having stored the tenant or not.
LEMMA OverStep ==
    ASSUME Inv, NEW w \in Workers, Over(w),
           UNCHANGED <<initial, subs, emitted, granted>>,
           events' \subseteq events, sessions' \subseteq Sessions,
           tenant' \in Tenants, PaidFor(tenant'), tenant'.sub # 0 => subs[tenant'.sub].status # "none",
           usage' \in Nat
    PROVE  Inv'
<1>1. /\ pc' = [pc EXCEPT ![w] = "idle"] /\ "idle" \in PCs
      /\ held' = [held EXCEPT ![w] = 0] /\ 0 \in Nat
      /\ want' = [want EXCEPT ![w] = Free] /\ Free \in Plans
      /\ loaded' = [loaded EXCEPT ![w] = InitialTenant(Free)]
      /\ snap' = [snap EXCEPT ![w] = None]
  BY FreePlan DEF Over, GoTo, PCs
<1>2. /\ InitialTenant(Free) \in Tenants /\ PaidFor(InitialTenant(Free))
      /\ InitialTenant(Free).sub = 0
      /\ None \in Snapshots /\ Ran(None)
  BY FreePlan, InitialTenantType, NoneType DEF PaidFor, Ran, Statuses
<1>3. "idle" \notin Handling /\ "idle" # "saveSync" BY DEF Handling
<1>4. requests' \in Nat /\ clock' \in Nat BY DEF Over, Inv, TypeOK
<1>5. QED BY <1>1, <1>2, <1>3, <1>4, HandlerStep

LEMMA DoneStep ==
    ASSUME Inv, NEW w \in Workers, Done(w), UNCHANGED <<initial, usage>>,
           tenant' \in Tenants, PaidFor(tenant'), tenant'.sub # 0 => subs[tenant'.sub].status # "none"
    PROVE  Inv'
<1>1. /\ Over(w) /\ events' \subseteq events
      /\ UNCHANGED <<initial, subs, emitted, granted, sessions>>
  BY DEF Done
<1>2. sessions' \subseteq Sessions /\ usage' \in Nat BY <1>1 DEF Inv, TypeOK, Sessions
<1>3. QED BY <1>1, <1>2, OverStep

\* Whatever is stored or loaded is a tenant that may be stored.
LEMMA Known ==
    ASSUME Inv, NEW w \in Workers
    PROVE  /\ tenant \in Tenants /\ PaidFor(tenant)
           /\ tenant.sub # 0 => subs[tenant.sub].status # "none"
           /\ loaded[w] \in Tenants /\ PaidFor(loaded[w])
           /\ loaded[w].sub # 0 => subs[loaded[w].sub].status # "none"
           /\ snap[w] \in Snapshots /\ Ran(snap[w])
           /\ clock \in Nat
  BY DEF Inv, TypeOK, Shape, Paid

-----------------------------------------------------------------------------
(* The actions. *)

LEMMA StripeInv == Inv /\ Stripe => Inv'
<1> SUFFICES ASSUME Inv, Stripe PROVE Inv' OBVIOUS
<1> USE DEF Inv
<1>0. PICK i \in SubIds : \/ \E session \in sessions : CompleteCheckout(session, i)
                          \/ \E status \in Statuses : Move(i, status)
                          \/ End(i)
  BY DEF Stripe
<1>1. subs[i] \in Snapshots /\ (subs[i].status # "none" => subs[i].sub = i)
  BY DEF TypeOK, Shape
<1>2. pc \in [Workers -> PCs] BY DEF TypeOK
<1>3. ASSUME NEW session \in sessions, CompleteCheckout(session, i) PROVE Inv'
  <2> DEFINE s == [sub |-> i, plan |-> session.plan, ends |-> "never",
                   customer |-> session.customer, status |-> session.starts]
  <2>1. s \in Snapshots /\ s.sub = i /\ s.status # "none"
    BY DEF TypeOK, Snapshots, StripeStatuses, Statuses, SubIds
  <2>2. Change(i, s, FALSE, session.starts = "trialing") BY <1>3 DEF CompleteCheckout
  <2>3. sessions' \subseteq sessions /\ UNCHANGED <<local, inHand, requests, clock, pc>>
    BY <1>3 DEF CompleteCheckout
  <2> HIDE DEF s
  <2>4. QED BY <1>2, <2>1, <2>2, <2>3, StripeStep
<1>4. ASSUME NEW status \in Statuses, Move(i, status) PROVE Inv'
  <2> DEFINE s == [subs[i] EXCEPT !.status = status]
             failed == status = "past_due" \/ <<subs[i].status, status>> = <<"past_due", "unpaid">>
             completed == subs[i].status = "incomplete"
  <2>1. subs[i].status # "none" BY <1>4 DEF Move, Moves
  <2>2. s \in Snapshots /\ s.sub = i /\ s.status # "none"
    BY <1>1, <2>1 DEF Snapshots, StripeStatuses, Statuses
  <2>3. Change(i, s, failed, completed) BY <1>4 DEF Move
  <2>4. sessions' \subseteq sessions /\ UNCHANGED <<local, inHand, requests, clock, pc>>
    BY <1>4 DEF Move
  <2> HIDE DEF s, failed, completed
  <2>5. QED BY <1>2, <2>2, <2>3, <2>4, StripeStep
<1>5. CASE End(i)
  <2> DEFINE s == [subs[i] EXCEPT !.status = "canceled"]
  <2>1. subs[i].status # "none" BY <1>5 DEF End, Running, Statuses
  <2>2. s \in Snapshots /\ s.sub = i /\ s.status # "none"
    BY <1>1, <2>1 DEF Snapshots, StripeStatuses, Statuses
  <2>3. Change(i, s, FALSE, FALSE) BY <1>5 DEF End
  <2>4. sessions' \subseteq sessions /\ UNCHANGED <<local, inHand, requests, clock, pc>>
    BY <1>5 DEF End
  <2> HIDE DEF s
  <2>5. QED BY <1>2, <2>2, <2>3, <2>4, StripeStep
<1>6. QED BY <1>0, <1>3, <1>4, <1>5

LEMMA HandleInv ==
    ASSUME Inv, NEW w \in Workers, Handle(w)
    PROVE  Inv'
<1> USE DEF PCs
<1>1. ASSUME NEW e \in events, Deliver(w, e) PROVE Inv'
  <2> DEFINE step == CASE e.type = "subscription" -> "sync"
                       [] e.type = "completed" -> "fetch"
                       [] e.type = "payment_failed" -> "find"
  <2>1. /\ e.at \in Nat /\ e.snap \in Snapshots /\ Ran(e.snap) /\ IsOf(e.snap)
        /\ e.type \in {"subscription", "completed", "payment_failed"}
    BY DEF Inv, TypeOK, Shape, Paid
  <2>2. step \in {"sync", "fetch", "find"} BY <2>1
  <2>3. /\ pc' = [pc EXCEPT ![w] = step] /\ held' = [held EXCEPT ![w] = e.at]
        /\ snap' = [snap EXCEPT ![w] = e.snap]
        /\ UNCHANGED <<local, stripe, want, loaded, requests, clock>>
    BY <1>1 DEF Deliver, GoTo
  <2>4. want[w] \in Plans /\ want' = [want EXCEPT ![w] = want[w]]
        /\ loaded' = [loaded EXCEPT ![w] = loaded[w]]
    BY <2>3 DEF Inv, TypeOK
  <2>5. /\ UNCHANGED <<initial, subs, emitted, granted>>
        /\ events' \subseteq events /\ sessions' \subseteq Sessions
        /\ tenant' = tenant /\ usage' \in Nat /\ requests' \in Nat /\ clock' \in Nat
    BY <2>3 DEF local, stripe, Inv, TypeOK, Sessions
  <2> HIDE DEF step
  <2>6. QED BY <2>1, <2>2, <2>3, <2>4, <2>5, Known, HandlerStep
<1>2. CASE Fetch(w)
  <2> DEFINE s == subs[snap[w].sub]
  <2>1. IsOf(snap[w]) BY <1>2 DEF Fetch, Inv, Shape, Handling
  <2>2. s \in Snapshots /\ IsOf(s) /\ Ran(s)
    BY <2>1 DEF Inv, TypeOK, Shape, Paid, IsOf
  <2>3. /\ pc' = [pc EXCEPT ![w] = "sync"] /\ snap' = [snap EXCEPT ![w] = s]
        /\ UNCHANGED <<local, stripe, held, want, loaded, requests, clock>>
    BY <1>2 DEF Fetch, GoTo
  <2>4. /\ want[w] \in Plans /\ want' = [want EXCEPT ![w] = want[w]]
        /\ held[w] \in Nat /\ held' = [held EXCEPT ![w] = held[w]]
        /\ loaded' = [loaded EXCEPT ![w] = loaded[w]]
    BY <2>3 DEF Inv, TypeOK
  <2>5. /\ UNCHANGED <<initial, subs, emitted, granted>>
        /\ events' \subseteq events /\ sessions' \subseteq Sessions
        /\ tenant' = tenant /\ usage' \in Nat /\ requests' \in Nat /\ clock' \in Nat
    BY <2>3 DEF local, stripe, Inv, TypeOK, Sessions
  <2> HIDE DEF s
  <2>6. QED BY <2>2, <2>3, <2>4, <2>5, Known, HandlerStep
<1>3. ASSUME FindTenant(w) \/ LoadForSync(w) PROVE Inv'
  <2>1. PICK step \in PCs :
          /\ pc' = [pc EXCEPT ![w] = step] /\ loaded' = [loaded EXCEPT ![w] = tenant]
          /\ step = "saveSync" => snap[w].status # "incomplete"
          /\ UNCHANGED <<local, stripe, held, want, snap, requests, clock>>
    BY <1>3 DEF FindTenant, LoadForSync, GoTo
  <2>2. IsOf(snap[w]) BY <1>3 DEF FindTenant, LoadForSync, Inv, Shape, Handling
  <2>3. /\ want[w] \in Plans /\ want' = [want EXCEPT ![w] = want[w]]
        /\ held[w] \in Nat /\ held' = [held EXCEPT ![w] = held[w]]
        /\ snap' = [snap EXCEPT ![w] = snap[w]]
    BY <2>1 DEF Inv, TypeOK
  <2>4. /\ UNCHANGED <<initial, subs, emitted, granted>>
        /\ events' \subseteq events /\ sessions' \subseteq Sessions
        /\ tenant' = tenant /\ usage' \in Nat /\ requests' \in Nat /\ clock' \in Nat
    BY <2>1 DEF local, stripe, Inv, TypeOK, Sessions
  <2>5. QED BY <2>1, <2>2, <2>3, <2>4, Known, HandlerStep
<1>4. CASE NoTenant(w) BY <1>4, Known, DoneStep DEF NoTenant, local
<1>5. CASE IgnoreIncomplete(w) BY <1>5, Known, DoneStep DEF IgnoreIncomplete, local
<1>6. CASE SavePastDue(w)
  <2> DEFINE t == [loaded[w] EXCEPT !.status = "past_due", !.tstatus = "past_due",
                                    !.since = IF @ = 0 THEN clock ELSE @]
  <2>1. t \in Tenants /\ t.plan = loaded[w].plan /\ t.sub = loaded[w].sub
    BY Known DEF Tenants, Statuses
  <2>2. tenant' = Saved(w, t) /\ Done(w) /\ UNCHANGED <<initial, usage>>
    BY <1>6 DEF SavePastDue
  <2> HIDE DEF t
  <2>3. tenant' \in Tenants /\ tenant'.plan = loaded[w].plan /\ tenant'.sub = loaded[w].sub
    BY <2>1, <2>2, Known, SavedType
  <2>4. PaidFor(tenant') BY <2>3, Known DEF PaidFor
  <2>5. QED BY <2>2, <2>3, <2>4, Known, DoneStep
<1>7. CASE SaveSync(w)
  <2> DEFINE t == Synced(snap[w], loaded[w])
  <2>1. IsOf(snap[w]) /\ snap[w].status \notin {"none", "incomplete"}
    BY <1>7 DEF SaveSync, Inv, Shape, Handling, IsOf
  <2>2. t \in Tenants BY <2>1, Known, SyncedType
  <2>3. tenant' = Saved(w, t) /\ Done(w) /\ UNCHANGED <<initial, usage>>
    BY <1>7 DEF SaveSync
  <2>4. snap[w].status \in Statuses \cup {"canceled"}
    BY <2>1, Known DEF Snapshots, StripeStatuses
  <2>5. PaidFor(t) /\ (t.sub # 0 => subs[t.sub].status # "none")
    BY <2>1, <2>4, Known DEF Synced, PaidFor, Ran, IsOf
  <2> HIDE DEF t
  <2>6. tenant' \in Tenants /\ tenant'.plan = t.plan /\ tenant'.sub = t.sub
    BY <2>2, <2>3, Known, SavedType
  <2>7. PaidFor(tenant') BY <2>5, <2>6 DEF PaidFor
  <2>8. QED BY <2>3, <2>5, <2>6, <2>7, DoneStep
<1>8. QED BY <1>1, <1>2, <1>3, <1>4, <1>5, <1>6, <1>7 DEF Handle

\* A request starts: the tenant is loaded.
LEMMA RequestInv ==
    ASSUME Inv, NEW w \in Workers, NEW plan \in Plans, NEW step \in PCs,
           step \notin Handling, Request(w, plan, step)
    PROVE  Inv'
<1>1. /\ pc' = [pc EXCEPT ![w] = step] /\ loaded' = [loaded EXCEPT ![w] = tenant]
      /\ want' = [want EXCEPT ![w] = plan]
      /\ UNCHANGED <<local, stripe, held, snap, clock>>
  BY DEF Request, GoTo
<1>2. /\ held[w] \in Nat /\ held' = [held EXCEPT ![w] = held[w]]
      /\ snap' = [snap EXCEPT ![w] = snap[w]]
  BY <1>1 DEF Inv, TypeOK
<1>3. /\ UNCHANGED <<initial, subs, emitted, granted>>
      /\ events' \subseteq events /\ sessions' \subseteq Sessions
      /\ tenant' = tenant /\ usage' \in Nat /\ clock' \in Nat
  BY <1>1 DEF local, stripe, Inv, TypeOK, Sessions
<1>4. requests' \in Nat BY DEF Request, Inv, TypeOK
<1>5. step # "saveSync" BY DEF Handling
<1>6. QED BY <1>1, <1>2, <1>3, <1>4, <1>5, Known, HandlerStep

\* A request has Stripe change the subscription it loaded.
LEMMA PostInv ==
    ASSUME Inv, NEW w \in Workers, NEW step, NEW s,
           Running(loaded[w].sub) => s \in Snapshots /\ s.sub = loaded[w].sub /\ s.status # "none",
           Post(w, step, s)
    PROVE  Inv'
<1> DEFINE i == loaded[w].sub
<1>1. /\ i \in SubIds /\ Running(i) /\ Change(i, s, FALSE, FALSE)
      /\ pc' = [pc EXCEPT ![w] = "refresh"]
      /\ UNCHANGED <<local, sessions, inHand, requests, clock>>
  BY DEF Post, GoTo
<1>2. s \in Snapshots /\ s.sub = i /\ s.status # "none" BY <1>1
<1>3. /\ pc' \in [Workers -> PCs]
      /\ \A v \in Workers : pc'[v] \in Handling => pc'[v] = pc[v]
  BY <1>1 DEF Inv, TypeOK, PCs, Handling
<1>4. sessions' \subseteq sessions BY <1>1
<1> HIDE DEF i
<1>5. QED BY <1>1, <1>2, <1>3, <1>4, StripeStep

\* A change of end or plan leaves a snapshot a snapshot, of the same subscription and status.
LEMMA Rewritten ==
    ASSUME NEW r \in Snapshots, NEW plan \in Plans, NEW ends \in {"never", "atPeriodEnd"}
    PROVE  /\ [r EXCEPT !.ends = ends] \in Snapshots
           /\ [r EXCEPT !.ends = ends].sub = r.sub
           /\ [r EXCEPT !.ends = ends].status = r.status
           /\ [r EXCEPT !.ends = ends, !.plan = plan] \in Snapshots
           /\ [r EXCEPT !.ends = ends, !.plan = plan].sub = r.sub
           /\ [r EXCEPT !.ends = ends, !.plan = plan].status = r.status
BY DEF Snapshots

\* What Stripe runs is a snapshot whose end or plan may be changed.
LEMMA PostedType ==
    ASSUME Inv, NEW i \in SubIds, Running(i), NEW plan \in Plans,
           NEW ends \in {"never", "atPeriodEnd"}
    PROVE  /\ [subs[i] EXCEPT !.ends = ends] \in Snapshots
           /\ [subs[i] EXCEPT !.ends = ends].sub = i
           /\ [subs[i] EXCEPT !.ends = ends].status # "none"
           /\ [subs[i] EXCEPT !.ends = ends, !.plan = plan] \in Snapshots
           /\ [subs[i] EXCEPT !.ends = ends, !.plan = plan].sub = i
           /\ [subs[i] EXCEPT !.ends = ends, !.plan = plan].status # "none"
<1>1. subs[i] \in Snapshots /\ subs[i].status # "none" /\ subs[i].sub = i
  BY DEF Inv, TypeOK, Shape, Running, Statuses
<1>2. QED BY <1>1 DEF Snapshots

LEMMA ServeInv ==
    ASSUME Inv, NEW w \in Workers, Serve(w)
    PROVE  Inv'
<1>1. ASSUME NEW plan \in Plans, ChangePlan(w, plan) PROVE Inv'
  <2>1. "decide" \in PCs /\ "decide" \notin Handling BY DEF PCs, Handling
  <2>2. QED BY <1>1, <2>1, RequestInv DEF ChangePlan
<1>2. CASE Cancel(w)
  <2>1. {"cancel", "decideFree"} \subseteq PCs \ Handling BY DEF PCs, Handling
  <2>2. PICK step \in {"cancel", "decideFree"} : Request(w, Free, step) BY <1>2 DEF Cancel
  <2>3. QED BY <2>1, <2>2, FreePlan, RequestInv
<1>3. ASSUME Reactivate(w) \/ CheckRoom(w) PROVE Inv'
  <2>1. {"reactivate", "create"} \subseteq PCs \ Handling BY DEF PCs, Handling
  <2>2. PICK step \in {"reactivate", "create"} : Request(w, tenant.plan, step)
    BY <1>3 DEF Reactivate, CheckRoom
  <2>3. tenant.plan \in Plans BY Known DEF Tenants
  <2>4. QED BY <2>1, <2>2, <2>3, RequestInv
<1>4. ASSUME Decide(w) \/ DecideFree(w) PROVE Inv'
  <2>1. {"cancel", "applyFree", "switch", "session", "customer"} \subseteq PCs \ Handling
    BY DEF PCs, Handling
  <2>2. PICK step \in {"cancel", "applyFree", "switch", "session", "customer"} : GoTo(w, step)
    BY <1>4 DEF Decide, DecideFree
  <2>3. UNCHANGED <<local, stripe, inHand, requests, clock>> BY <1>4 DEF Decide, DecideFree
  <2>4. step # "saveSync" OBVIOUS
  <2>5. QED BY <2>1, <2>2, <2>3, <2>4, AdvanceStep
<1>5. CASE ApplyFree(w)
  <2>1. /\ InitialTenant(Free) \in Tenants /\ InitialTenant(Free).plan = Free
        /\ InitialTenant(Free).sub = 0
    BY FreePlan, InitialTenantType
  <2>2. tenant' = Saved(w, InitialTenant(Free)) /\ Done(w) /\ UNCHANGED <<initial, usage>>
    BY <1>5 DEF ApplyFree
  <2>3. tenant' \in Tenants /\ tenant'.plan = Free /\ tenant'.sub = 0
    BY <2>1, <2>2, Known, SavedType
  <2>4. PaidFor(tenant') BY <2>3 DEF PaidFor
  <2>5. QED BY <2>2, <2>3, <2>4, DoneStep
<1>6. ASSUME PostCancel(w) \/ PostReactivate(w) PROVE Inv'
  <2>1. PICK ends \in {"never", "atPeriodEnd"} : \E step \in PCs :
            Post(w, step, [subs[loaded[w].sub] EXCEPT !.ends = ends])
    BY <1>6 DEF PostCancel, PostReactivate, PCs
  <2>2. loaded[w].sub \in SubIds /\ Running(loaded[w].sub) BY <2>1 DEF Post
  <2>3. QED BY <2>1, <2>2, FreePlan, PostedType, PostInv
<1>7. CASE PostSwitch(w)
  <2>1. loaded[w].sub \in SubIds /\ Running(loaded[w].sub) BY <1>7 DEF PostSwitch, Post
  <2>2. want[w] \in Plans BY DEF Inv, TypeOK
  <2>3. QED BY <1>7, <2>1, <2>2, PostedType, PostInv DEF PostSwitch
<1>8. CASE Refresh(w)
  <2> DEFINE s == subs[tenant.sub]
  <2>1. tenant.sub \in SubIds BY <1>8, Known DEF Refresh, Tenants, SubIds
  <2>2. s \in Snapshots /\ IsOf(s) /\ Ran(s)
    BY <1>8, <2>1 DEF Refresh, Inv, TypeOK, Shape, Paid, IsOf
  <2>3. /\ pc' = [pc EXCEPT ![w] = "sync"] /\ snap' = [snap EXCEPT ![w] = s]
        /\ UNCHANGED <<local, stripe, held, want, loaded, requests, clock>>
    BY <1>8 DEF Refresh, GoTo
  <2>4. /\ want[w] \in Plans /\ want' = [want EXCEPT ![w] = want[w]]
        /\ held[w] \in Nat /\ held' = [held EXCEPT ![w] = held[w]]
        /\ loaded' = [loaded EXCEPT ![w] = loaded[w]]
    BY <2>3 DEF Inv, TypeOK
  <2>5. /\ UNCHANGED <<initial, subs, emitted, granted>>
        /\ events' \subseteq events /\ sessions' \subseteq Sessions
        /\ tenant' = tenant /\ usage' \in Nat /\ requests' \in Nat /\ clock' \in Nat
    BY <2>3 DEF local, stripe, Inv, TypeOK, Sessions
  <2>6. "sync" \in PCs /\ "sync" # "saveSync" BY DEF PCs
  <2>7. /\ PaidFor(tenant') /\ tenant' \in Tenants
        /\ tenant'.sub # 0 => subs[tenant'.sub].status # "none"
    BY <2>5, Known DEF PaidFor
  <2> HIDE DEF s
  <2>8. QED BY <2>2, <2>3, <2>4, <2>5, <2>6, <2>7, Known, HandlerStep
<1>9. CASE RefreshNothing(w) BY <1>9, Known, DoneStep DEF RefreshNothing, local
<1>10. ASSUME NEW c \in 1..MaxSubs, EnsureCustomer(w, c) PROVE Inv'
  <2> DEFINE t == [loaded[w] EXCEPT !.customer = c]
  <2>1. c \in 0..MaxSubs BY FreePlan
  <2>2. t \in Tenants /\ t.plan = loaded[w].plan /\ t.sub = loaded[w].sub
    BY <2>1, Known DEF Tenants
  <2>3. PaidFor(t) /\ (t.sub # 0 => subs[t.sub].status # "none")
    BY <2>2, Known DEF PaidFor
  <2>4. /\ pc' = [pc EXCEPT ![w] = "session"] /\ tenant' = Saved(w, t)
        /\ loaded' = [loaded EXCEPT ![w] = t]
        /\ UNCHANGED <<initial, usage, stripe, held, want, snap, requests, clock>>
    BY <1>10 DEF EnsureCustomer, GoTo
  <2>5. /\ want[w] \in Plans /\ want' = [want EXCEPT ![w] = want[w]]
        /\ held[w] \in Nat /\ held' = [held EXCEPT ![w] = held[w]]
        /\ snap' = [snap EXCEPT ![w] = snap[w]]
    BY <2>4 DEF Inv, TypeOK
  <2>6. /\ UNCHANGED <<initial, subs, emitted, granted>>
        /\ events' \subseteq events /\ sessions' \subseteq Sessions
        /\ usage' \in Nat /\ requests' \in Nat /\ clock' \in Nat
    BY <2>4 DEF stripe, Inv, TypeOK, Sessions
  <2> HIDE DEF t
  <2>7. tenant' \in Tenants /\ tenant'.plan = t.plan /\ tenant'.sub = t.sub
    BY <2>2, <2>4, Known, SavedType
  <2>8. PaidFor(tenant') BY <2>3, <2>6, <2>7 DEF PaidFor
  <2>9. "session" \in PCs /\ "session" \notin Handling /\ "session" # "saveSync"
    BY DEF PCs, Handling
  <2>10. QED BY <2>2, <2>3, <2>4, <2>5, <2>6, <2>7, <2>8, <2>9, Known, HandlerStep
<1>11. ASSUME NEW starts \in {"trialing", "incomplete"}, CreateSession(w, starts) PROVE Inv'
  <2>1. want[w] \in Plans /\ loaded[w].customer \in 0..MaxSubs
    BY Known DEF Inv, TypeOK, Tenants
  <2>2. sessions' \subseteq Sessions
    BY <1>11, <2>1 DEF CreateSession, Inv, TypeOK, Sessions
  <2>3. UNCHANGED <<tenant, initial, usage, subs, events, emitted, granted>> /\ Over(w)
    BY <1>11 DEF CreateSession, local
  <2>4. usage' \in Nat BY <2>3 DEF Inv, TypeOK
  <2>5. QED BY <2>2, <2>3, <2>4, Known, OverStep
<1>12. CASE CreateAsset(w)
  <2>1. Over(w) /\ usage' \in Nat /\ UNCHANGED <<tenant, initial, subs, sessions, events, emitted, granted>>
    BY <1>12 DEF CreateAsset, stripe, Inv, TypeOK
  <2>2. sessions' \subseteq Sessions BY <2>1 DEF Inv, TypeOK, Sessions
  <2>3. QED BY <2>1, <2>2, Known, OverStep
<1>13. QED
  BY <1>1, <1>2, <1>3, <1>4, <1>5, <1>6, <1>7, <1>8, <1>9, <1>10, <1>11, <1>12 DEF Serve

\* Nothing that Inv speaks of changes, but a count or the day.
LEMMA StillStep ==
    ASSUME Inv, usage' \in Nat, clock' \in Nat,
           UNCHANGED <<tenant, initial, stripe, pc, inHand, requests>>
    PROVE  Inv'
<1> USE DEF Inv, stripe, inHand
<1>1. TypeOK' BY DEF TypeOK
<1>2. Shape' BY DEF Shape, IsOf
<1>3. Paid' BY DEF Paid, PaidFor, Ran
<1>4. QED BY <1>1, <1>2, <1>3

LEMMA NextInv == Inv /\ [Next]_vars => Inv'
<1> SUFFICES ASSUME Inv, [Next]_vars PROVE Inv' OBVIOUS
<1>1. CASE Stripe BY <1>1, StripeInv
<1>2. CASE RemoveAsset
  <2>1. usage' \in Nat BY <1>2 DEF RemoveAsset, Inv, TypeOK
  <2>2. UNCHANGED <<tenant, initial, stripe, pc, inHand, requests>> /\ clock' \in Nat
    BY <1>2 DEF RemoveAsset, Inv, TypeOK
  <2>3. QED BY <2>1, <2>2, StillStep
<1>3. CASE Tick
  <2>1. clock' \in Nat BY <1>3 DEF Tick, Inv, TypeOK
  <2>2. UNCHANGED <<tenant, initial, stripe, pc, inHand, requests>> /\ usage' \in Nat
    BY <1>3 DEF Tick, local, Inv, TypeOK
  <2>3. QED BY <2>1, <2>2, StillStep
<1>4. ASSUME NEW w \in Workers, Handle(w) PROVE Inv' BY <1>4, HandleInv
<1>5. ASSUME NEW w \in Workers, Serve(w) PROVE Inv' BY <1>5, ServeInv
<1>6. ASSUME NEW w \in Workers, Fail(w) PROVE Inv'
  <2>1. Over(w) /\ UNCHANGED <<tenant, initial, usage, subs, sessions, events, emitted, granted>>
    BY <1>6 DEF Fail, local, stripe
  <2>2. sessions' \subseteq Sessions /\ usage' \in Nat BY <2>1 DEF Inv, TypeOK, Sessions
  <2>3. QED BY <2>1, <2>2, Known, OverStep
<1>7. CASE UNCHANGED vars
  <2>1. /\ UNCHANGED <<tenant, initial, stripe, pc, inHand, requests>>
        /\ usage' \in Nat /\ clock' \in Nat
    BY <1>7 DEF vars, stripe, inHand, Inv, TypeOK
  <2>2. QED BY <2>1, StillStep
<1>8. QED BY <1>1, <1>2, <1>3, <1>4, <1>5, <1>6, <1>7 DEF Next

-----------------------------------------------------------------------------
(* The theorems. *)

\* Whatever Stripe, the customer and the handlers do, in whatever order, every
\* variable keeps its type: in particular a status that tenantStatus knows is
\* all that is ever stored.
THEOREM TypeInvariant == Spec => []TypeOK
<1>1. Inv => TypeOK BY DEF Inv
<1>2. QED BY InitInv, NextInv, <1>1, PTL DEF Spec

\* "payments: nothing is activated without paying": on a paid plan the account
\* is in the trial it registered with, or Stripe had the subscription it is
\* linked to running on that plan.  No order of events, no repetition of one,
\* no two requests at once and no failure changes that.
THEOREM NothingUnpaid == Spec => []NothingWithoutPaying
<1>1. Inv => NothingWithoutPaying BY DEF Inv, Paid, PaidFor, NothingWithoutPaying
<1>2. QED BY InitInv, NextInv, <1>1, PTL DEF Spec

-----------------------------------------------------------------------------
(* The tenant follows Stripe.                                               *)
(*                                                                          *)
(* FollowsStripe speaks of the moment when nothing is outstanding.  What    *)
(* leads there: the tenant is in step with Stripe, or an event that will be *)
(* applied is still to be handled, and the last such event says what Stripe *)
(* still says.  Handlers that overlap, events that overtake one another and *)
(* second subscriptions break this, and Stripe's next word of a             *)
(* subscription that runs alone mends it: its event comes after everything  *)
(* that was outstanding and everything a handler still has in hand.         *)

\* Events that change the tenant to what they, or Stripe, say.
Applies(e) == e.type # "payment_failed" /\ e.snap.status # "incomplete"

Later(at) == \E e \in events : Applies(e) /\ e.at > at

\* To store this snapshot is to be in step with Stripe.
Brings(s) ==
    \/ s.status = "canceled" /\ \A i \in SubIds : ~Running(i)
    \/ s.status \in Statuses /\ s.sub \in SubIds /\ s = subs[s.sub]

\* A subscription that was seen running is never incomplete again.
Begun(s) == s.status # "incomplete" => subs[s.sub].status # "incomplete"

LastWord(e) == Brings(IF e.type = "completed" THEN subs[e.snap.sub] ELSE e.snap)

\* FollowsStripe, whether events are outstanding or not.
Linked(i) ==
    /\ Running(i)
    /\ tenant.sub = i
    /\ tenant.plan = subs[i].plan
    /\ tenant.status = subs[i].status
    /\ tenant.ends = subs[i].ends
    /\ tenant.tstatus = tenantStatus[subs[i].status]
Unlinked ==
    /\ \A i \in SubIds : ~Running(i)
    /\ tenant.sub = 0 /\ tenant.plan \in {Free, initial}
    /\ tenant.plan # Free => tenant.status = "trialing"
InSync == (\E i \in SubIds : Linked(i)) \/ Unlinked

Asking == {"decide", "decideFree", "applyFree", "cancel", "reactivate", "switch",
           "customer", "session", "create"}

\* What holds however the handlers meet.  Stripe's events, each at its own instant;
Queue ==
    /\ \A e, f \in events : e.at = f.at => e = f
    /\ \A e \in events : 1 <= e.at /\ e.at <= emitted
    /\ \A e \in events : e.type = "completed" => e.snap.status # "incomplete"
    /\ \A e \in events : Begun(e.snap)

\* what a handler has in hand;
Carries(w) ==
    /\ held[w] <= emitted
    /\ pc[w] \in Asking \cup {"idle", "refresh"} => held[w] = 0
    /\ pc[w] \in {"fetch", "find", "savePastDue"} => held[w] # 0
    /\ pc[w] = "fetch" => snap[w].status # "incomplete"
    /\ pc[w] \in {"fetch", "sync", "saveSync"} => Begun(snap[w])
    /\ pc[w] \in {"decideFree", "applyFree"} => loaded[w].sub = 0

\* and an account is never linked to a subscription that is incomplete.
Runs(t) == t.sub # 0 => subs[t.sub].status # "incomplete"

Grounds ==
    /\ Queue /\ Runs(tenant)
    /\ \A w \in Workers : Carries(w) /\ Runs(loaded[w])

\* What holds while nothing disturbs the account.  One subscription runs at most;
OneRuns == \A i, j \in SubIds : Running(i) /\ Running(j) => i = j

\* a failed payment that nothing follows is one of a subscription that is past due,
\* and the last event says what Stripe says;
Outstanding ==
    /\ \A e \in events : e.type = "payment_failed" =>
           Later(e.at) \/ subs[e.snap.sub].status = "past_due"
    /\ \A e \in events : Applies(e) => Later(e.at) \/ LastWord(e)

\* the event in hand is the oldest one;
Oldest(w) ==
    held[w] # 0 =>
        /\ \A e \in events : e.at >= held[w]
        /\ \E e \in events :
              /\ e.at = held[w]
              /\ pc[w] = "fetch" => e.type = "completed" /\ e.snap = snap[w]
              /\ pc[w] \in {"find", "savePastDue"} =>
                    e.type = "payment_failed" /\ e.snap.sub = snap[w].sub
              /\ pc[w] = "ignore" => ~Applies(e)
              /\ pc[w] = "sync" /\ snap[w].status = "incomplete" => ~Applies(e)

\* and the handler is up to date, or what it does is not the last word.
UpToDate(w) ==
    /\ pc[w] \in Asking \cup {"saveSync", "savePastDue"} => loaded[w] = tenant
    /\ Oldest(w)
    /\ pc[w] \in {"sync", "saveSync"} => snap[w].status = "incomplete" \/ Brings(snap[w])
Knows(w) == Later(held[w]) \/ UpToDate(w)

Alone ==
    /\ ~Overlapping
    /\ OneRuns /\ Outstanding
    /\ InSync \/ Later(0)
    /\ \A w \in Workers : Knows(w)

-----------------------------------------------------------------------------
(* What holds however the handlers meet. *)

\* A step of one handler.
LEMMA GroundsStep ==
    ASSUME Inv, Grounds, UNCHANGED <<subs, emitted>>, events' \subseteq events,
           Runs(tenant'), NEW w \in Workers, Carries(w)', Runs(loaded'[w]),
           \A v \in Workers : v # w => /\ pc'[v] = pc[v] /\ held'[v] = held[v]
                                       /\ snap'[v] = snap[v] /\ loaded'[v] = loaded[v]
    PROVE  Grounds'
<1>1. Queue' /\ Runs(tenant)'
  BY DEF Grounds, Queue, Begun, Runs
<1>2. \A v \in Workers : Carries(v)' /\ Runs(loaded[v])'
  BY DEF Grounds, Carries, Begun, Runs
<1> QED BY <1>1, <1>2 DEF Grounds

\* The handler is over.
LEMMA OverGrounds ==
    ASSUME Inv, Grounds, NEW w \in Workers, Over(w), UNCHANGED <<subs, emitted>>,
           events' \subseteq events, Runs(tenant')
    PROVE  Grounds'
<1>1. /\ pc \in [Workers -> PCs] /\ held \in [Workers -> Nat] /\ emitted \in Nat
      /\ snap \in [Workers -> Snapshots] /\ loaded \in [Workers -> Tenants]
  BY DEF Inv, TypeOK
<1>2. /\ pc'[w] = "idle" /\ held'[w] = 0 /\ loaded'[w].sub = 0
      /\ \A v \in Workers : v # w => /\ pc'[v] = pc[v] /\ held'[v] = held[v]
                                     /\ snap'[v] = snap[v] /\ loaded'[v] = loaded[v]
  BY <1>1, FreePlan, InitialTenantType DEF Over, GoTo
<1>3. Carries(w)'
  BY <1>1, <1>2 DEF Carries, Asking
<1> QED BY <1>2, <1>3, GroundsStep DEF Runs

LEMMA HandleGrounds ==
    ASSUME Inv, Grounds, NEW w \in Workers, Handle(w)
    PROVE  Grounds'
<1> USE DEF GoTo, local, stripe, inHand
<1>0. /\ pc \in [Workers -> PCs] /\ held \in [Workers -> Nat] /\ emitted \in Nat
      /\ snap \in [Workers -> Snapshots] /\ loaded \in [Workers -> Tenants] /\ tenant \in Tenants
      /\ \A e \in events : e.at \in Nat /\ e.snap \in Snapshots
                           /\ e.type \in {"subscription", "completed", "payment_failed"}
      /\ Runs(tenant) /\ Runs(loaded[w]) /\ Carries(w)
  BY DEF Inv, TypeOK, Grounds
<1>1. ASSUME NEW e \in events, Deliver(w, e) PROVE Grounds'
  <2>1. /\ UNCHANGED <<subs, emitted, events, tenant, loaded>>
        /\ held'[w] = e.at /\ snap'[w] = e.snap
        /\ pc'[w] = CASE e.type = "subscription" -> "sync"
                 [] e.type = "completed" -> "fetch"
                 [] e.type = "payment_failed" -> "find"
        /\ \A v \in Workers : v # w => /\ pc'[v] = pc[v] /\ held'[v] = held[v] /\ snap'[v] = snap[v]
    BY <1>0, <1>1 DEF Deliver
  <2>2. e.at >= 1 /\ e.at <= emitted /\ Begun(e.snap)
        /\ (e.type = "completed" => e.snap.status # "incomplete")
    BY DEF Grounds, Queue
  <2>3. Carries(w)'
    BY <1>0, <2>1, <2>2 DEF Carries, Asking, Begun
  <2> QED BY <1>0, <2>1, <2>3, GroundsStep
<1>2. CASE Fetch(w)
  <2>1. /\ UNCHANGED <<subs, emitted, events, tenant, loaded, held>>
        /\ pc[w] = "fetch" /\ pc'[w] = "sync" /\ snap'[w] = subs[snap[w].sub]
        /\ \A v \in Workers : v # w => pc'[v] = pc[v] /\ snap'[v] = snap[v]
    BY <1>0, <1>2 DEF Fetch
  <2>2. /\ snap[w].sub \in SubIds /\ subs[snap[w].sub].status \notin {"none", "incomplete"}
        /\ subs[snap[w].sub].sub = snap[w].sub
    BY <1>0, <2>1 DEF Carries, Begun, Inv, Shape, IsOf, Handling
  <2>3. Carries(w)'
    BY <1>0, <2>1, <2>2 DEF Carries, Asking, Begun
  <2> QED BY <1>0, <2>1, <2>3, GroundsStep
<1>3. CASE FindTenant(w) \/ LoadForSync(w)
  <2>1. /\ UNCHANGED <<subs, emitted, events, tenant, held, snap>> /\ loaded'[w] = tenant
        /\ \/ pc[w] = "find" /\ pc'[w] = "savePastDue"
           \/ pc[w] = "sync" /\ pc'[w] \in {"ignore", "saveSync"}
        /\ \A v \in Workers : v # w => pc'[v] = pc[v] /\ loaded'[v] = loaded[v]
    BY <1>0, <1>3 DEF FindTenant, LoadForSync
  <2>2. Carries(w)'
    BY <1>0, <2>1 DEF Carries, Asking, Begun
  <2> QED BY <1>0, <2>1, <2>2, GroundsStep
<1>4. CASE NoTenant(w) \/ IgnoreIncomplete(w)
  BY <1>0, <1>4, OverGrounds DEF NoTenant, IgnoreIncomplete, Done
<1>5. CASE SavePastDue(w)
  <2>1. tenant'.sub = loaded[w].sub
    BY <1>0, <1>5 DEF SavePastDue, Saved, Tenants
  <2> QED BY <1>0, <1>5, <2>1, OverGrounds DEF SavePastDue, Done, Runs
<1>6. CASE SaveSync(w)
  <2>1. snap[w].status \notin {"none", "incomplete"} /\ Begun(snap[w]) /\ clock \in Nat
    BY <1>0, <1>6 DEF SaveSync, Inv, TypeOK, Shape, IsOf, Handling, Carries
  <2>2. tenant'.sub \in {0, snap[w].sub}
    BY <1>0, <1>6, <2>1, SyncedType, SavedType DEF SaveSync, Synced
  <2> QED BY <1>6, <2>1, <2>2, OverGrounds DEF SaveSync, Done, Runs, Begun
<1> QED BY <1>1, <1>2, <1>3, <1>4, <1>5, <1>6 DEF Handle

\* The news of a change: of the subscription that lives, or of a new one.
LEMMA ChangeNews ==
    ASSUME Inv, NEW i \in SubIds, NEW s \in Snapshots, s.sub = i,
           NEW failed \in BOOLEAN, NEW completed \in BOOLEAN, Change(i, s, failed, completed)
    PROVE  /\ subs' = [subs EXCEPT ![i] = s] /\ \A j \in SubIds : subs'[j] = IF j = i THEN s ELSE subs[j]
           /\ emitted \in Nat /\ emitted' \in Nat /\ emitted' >= emitted
           /\ events \subseteq events'
           /\ \A e \in events' \ events :
                 /\ e.snap = s
                 /\ \/ e.type = "payment_failed" /\ e.at = emitted + 1 /\ failed
                    \/ e.type = "subscription" /\ e.at = emitted + 2 /\ s # subs[i]
                    \/ e.type = "completed" /\ e.at = emitted + 3 /\ completed
                 /\ emitted' = emitted + 3
           /\ \A e, f \in events' \ events : e.at = f.at => e = f
           /\ s # subs[i] => \E e \in events' : e.type = "subscription" /\ e.at = emitted + 2 /\ e.snap = s
<1> DEFINE News(type, at) == [type |-> type, at |-> at, snap |-> s]
           first  == IF failed THEN {News("payment_failed", emitted + 1)} ELSE {}
           second == IF s # subs[i] THEN {News("subscription", emitted + 2)} ELSE {}
           third  == IF completed THEN {News("completed", emitted + 3)} ELSE {}
<1>1. /\ subs' = [subs EXCEPT ![i] = s]
      /\ emitted' = IF failed \/ completed \/ s # subs[i] THEN emitted + 3 ELSE emitted
      /\ events' = events \cup first \cup second \cup third
  BY DEF Change
<1>2. emitted \in Nat /\ subs \in [SubIds -> Snapshots]
  BY DEF Inv, TypeOK
<1>3. \A e \in events' \ events :
         /\ \/ e = News("payment_failed", emitted + 1) /\ failed
            \/ e = News("subscription", emitted + 2) /\ s # subs[i]
            \/ e = News("completed", emitted + 3) /\ completed
         /\ emitted' = emitted + 3
  BY <1>1
<1>4. \A e \in events' \ events :
         /\ e.snap = s
         /\ \/ e.type = "payment_failed" /\ e.at = emitted + 1 /\ failed
            \/ e.type = "subscription" /\ e.at = emitted + 2 /\ s # subs[i]
            \/ e.type = "completed" /\ e.at = emitted + 3 /\ completed
         /\ emitted' = emitted + 3
  BY <1>3
<1>5. \A e, f \in events' \ events : e.at = f.at => e = f
  BY <1>2, <1>3, <1>4
<1>6. s # subs[i] => News("subscription", emitted + 2) \in events'
  BY <1>1
<1>7. s # subs[i] => \E e \in events' : e.type = "subscription" /\ e.at = emitted + 2 /\ e.snap = s
  BY <1>6
<1> QED BY <1>1, <1>2, <1>4, <1>5, <1>7

\* What Stripe changes, by itself or because it is asked to.
LEMMA ChangeGrounds ==
    ASSUME Inv, Grounds, UNCHANGED <<tenant, held, loaded, snap>>,
           NEW i \in SubIds, NEW s \in Snapshots, s.sub = i, s.status # "none",
           NEW failed \in BOOLEAN, NEW completed \in BOOLEAN, Change(i, s, failed, completed),
           s.status = "incomplete" => subs[i] = None /\ ~completed,
           \A w \in Workers : \/ pc'[w] = pc[w]
                              \/ pc[w] \in Asking /\ pc'[w] = "refresh"
    PROVE  Grounds'
<1>1. /\ \A j \in SubIds : subs'[j] = IF j = i THEN s ELSE subs[j]
      /\ emitted \in Nat /\ emitted' \in Nat /\ emitted' >= emitted
      /\ events \subseteq events'
      /\ \A e \in events' \ events :
            /\ e.snap = s
            /\ \/ e.type = "payment_failed" /\ e.at = emitted + 1 /\ failed
               \/ e.type = "subscription" /\ e.at = emitted + 2 /\ s # subs[i]
               \/ e.type = "completed" /\ e.at = emitted + 3 /\ completed
            /\ emitted' = emitted + 3
      /\ \A e, f \in events' \ events : e.at = f.at => e = f
  BY ChangeNews
<1>2. /\ \A e \in events : 1 <= e.at /\ e.at <= emitted /\ e.at \in Nat /\ IsOf(e.snap)
      /\ \A e \in events : e.snap \in Snapshots /\ Begun(e.snap)
  BY DEF Grounds, Queue, Inv, TypeOK, Shape
<1>3. \A x \in Snapshots : Begun(x) /\ subs[x.sub].status # "none" /\ x.sub \in SubIds => Begun(x)'
  BY <1>1, NoneType DEF Begun
<1>4. Queue'
  <2>1. \A e, f \in events' : e.at = f.at => e = f
    BY <1>1, <1>2 DEF Grounds, Queue
  <2>2. \A e \in events' : 1 <= e.at /\ e.at <= emitted'
    BY <1>1, <1>2
  <2>3. ASSUME NEW e \in events' PROVE Begun(e.snap)'
    <3>1. CASE e \in events
      BY <1>2, <1>3, <3>1 DEF IsOf
    <3>2. CASE e \notin events
      BY <1>1, <3>2 DEF Begun
    <3> QED BY <3>1, <3>2
  <2>4. ASSUME NEW e \in events', e.type = "completed" PROVE e.snap.status # "incomplete"
    <3>1. CASE e \in events
      BY <2>4, <3>1 DEF Grounds, Queue
    <3>2. CASE e \notin events
      BY <1>1, <2>4, <3>2
    <3> QED BY <3>1, <3>2
  <2> QED BY <2>1, <2>2, <2>3, <2>4 DEF Queue
<1>5. ASSUME NEW t \in Tenants, Runs(t), t.sub # 0 => subs[t.sub].status # "none"
      PROVE  Runs(t)'
  BY <1>1, <1>5, NoneType DEF Runs, Tenants, SubIds
<1>6. ASSUME NEW w \in Workers PROVE Carries(w)' /\ Runs(loaded[w])'
  <2>1. Carries(w) /\ Runs(loaded[w]) /\ held[w] \in Nat /\ snap[w] \in Snapshots
        /\ loaded[w] \in Tenants /\ (loaded[w].sub # 0 => subs[loaded[w].sub].status # "none")
    BY Known DEF Grounds, Inv, TypeOK
  <2>2. Runs(loaded[w])'
    BY <1>5, <2>1 DEF Runs
  <2>3. CASE pc'[w] = pc[w]
    <3>1. pc[w] \in {"fetch", "sync", "saveSync"} => Begun(snap[w])'
      BY <1>3, <2>1 DEF Carries, Inv, Shape, IsOf, Handling, Begun
    <3> QED BY <1>1, <2>1, <2>2, <2>3, <3>1 DEF Carries, Begun
  <2>4. CASE pc[w] \in Asking /\ pc'[w] = "refresh"
    BY <1>1, <2>1, <2>2, <2>4 DEF Carries, Asking
  <2> QED BY <2>3, <2>4
<1>7. Runs(tenant)'
  BY <1>5 DEF Runs, Grounds, Inv, TypeOK, Shape
<1> QED BY <1>4, <1>6, <1>7 DEF Grounds

LEMMA StripeGrounds ==
    ASSUME Inv, Grounds, Stripe
    PROVE  Grounds'
<1>0. PICK i \in SubIds : \/ \E session \in sessions : CompleteCheckout(session, i)
                          \/ \E status \in Statuses : Move(i, status)
                          \/ End(i)
  BY DEF Stripe
<1>1. /\ UNCHANGED <<tenant, pc, held, loaded, snap>>
      /\ subs[i] \in Snapshots /\ (subs[i].status # "none" => subs[i].sub = i)
  BY <1>0 DEF CompleteCheckout, Move, End, local, inHand, Inv, TypeOK, Shape
<1>2. ASSUME NEW session \in sessions, CompleteCheckout(session, i) PROVE Grounds'
  <2> DEFINE s == [sub |-> i, plan |-> session.plan, ends |-> "never",
                   customer |-> session.customer, status |-> session.starts]
  <2>1. s \in Snapshots /\ s.sub = i /\ s.status = session.starts
        /\ session.starts \in {"trialing", "incomplete"}
    BY DEF Inv, TypeOK, Snapshots, SubIds, StripeStatuses, Statuses
  <2>2. Change(i, s, FALSE, session.starts = "trialing") /\ subs[i] = None
    BY <1>2 DEF CompleteCheckout
  <2> HIDE DEF s
  <2> QED BY <1>1, <2>1, <2>2, ChangeGrounds
<1>3. ASSUME NEW status \in Statuses, Move(i, status) PROVE Grounds'
  <2> DEFINE s == [subs[i] EXCEPT !.status = status]
             failed == status = "past_due" \/ <<subs[i].status, status>> = <<"past_due", "unpaid">>
             completed == subs[i].status = "incomplete"
  <2>1. <<subs[i].status, status>> \in Moves /\ Change(i, s, failed, completed)
    BY <1>3 DEF Move
  <2>2. s \in Snapshots /\ s.sub = i /\ s.status = status
    BY <1>1, <2>1 DEF Moves, Snapshots, StripeStatuses, Statuses
  <2>3. failed \in BOOLEAN /\ completed \in BOOLEAN /\ status \notin {"incomplete", "none"}
    BY DEF Statuses
  <2> HIDE DEF s, failed, completed
  <2> QED BY <1>1, <2>1, <2>2, <2>3, ChangeGrounds
<1>4. CASE End(i)
  <2> DEFINE s == [subs[i] EXCEPT !.status = "canceled"]
  <2>1. Running(i) /\ Change(i, s, FALSE, FALSE)
    BY <1>4 DEF End
  <2>2. s \in Snapshots /\ s.sub = i /\ s.status = "canceled"
    BY <1>1, <2>1 DEF Snapshots, StripeStatuses, Running, Statuses
  <2> HIDE DEF s
  <2> QED BY <1>1, <2>1, <2>2, ChangeGrounds
<1> QED BY <1>0, <1>2, <1>3, <1>4

\* What a request asks of Stripe leaves the subscription running.
LEMMA Posted ==
    ASSUME Inv, NEW w \in Workers,
           NEW s, NEW step \in {"cancel", "reactivate", "switch"}, Post(w, step, s),
           \/ s = [subs[loaded[w].sub] EXCEPT !.ends = "atPeriodEnd"]
           \/ s = [subs[loaded[w].sub] EXCEPT !.ends = "never"]
           \/ s = [subs[loaded[w].sub] EXCEPT !.ends = "never", !.plan = want[w]]
    PROVE  /\ loaded[w].sub \in SubIds /\ Running(loaded[w].sub)
           /\ s \in Snapshots /\ s.sub = loaded[w].sub /\ s.status = subs[loaded[w].sub].status
           /\ s.status \in Statuses
<1>1. /\ loaded[w].sub \in SubIds /\ Running(loaded[w].sub)
      /\ subs[loaded[w].sub] \in Snapshots /\ want[w] \in Plans
      /\ subs[loaded[w].sub].status \in Statuses
      /\ subs[loaded[w].sub].sub = loaded[w].sub
  BY DEF Post, Inv, TypeOK, Shape, Running, Statuses
<1>2. PICK r \in Snapshots, plan \in Plans : r = subs[loaded[w].sub] /\ plan = want[w]
  BY <1>1
<1>3. /\ r.sub = loaded[w].sub /\ r.status \in Statuses
      /\ \/ s = [r EXCEPT !.ends = "atPeriodEnd"]
         \/ s = [r EXCEPT !.ends = "never"]
         \/ s = [r EXCEPT !.ends = "never", !.plan = plan]
  BY <1>1, <1>2
<1>4. s \in Snapshots /\ s.sub = r.sub /\ s.status = r.status
  <2>1. CASE s = [r EXCEPT !.ends = "atPeriodEnd"]
    BY <2>1, Rewritten
  <2>2. CASE s = [r EXCEPT !.ends = "never"]
    BY <2>2, Rewritten
  <2>3. CASE s = [r EXCEPT !.ends = "never", !.plan = plan]
    BY <2>3, Rewritten
  <2> QED BY <1>3, <2>1, <2>2, <2>3
<1> QED BY <1>1, <1>2, <1>3, <1>4

LEMMA Posts ==
    ASSUME Inv, NEW w \in Workers, PostCancel(w) \/ PostReactivate(w) \/ PostSwitch(w)
    PROVE  \E s \in Snapshots, step \in {"cancel", "reactivate", "switch"} :
              /\ Post(w, step, s) /\ loaded[w].sub \in SubIds /\ Running(loaded[w].sub)
              /\ s.sub = loaded[w].sub /\ s.status \in Statuses
<1>1. CASE PostCancel(w)
  <2> DEFINE s == [subs[loaded[w].sub] EXCEPT !.ends = "atPeriodEnd"]
  <2>1. Post(w, "cancel", s)
    BY <1>1 DEF PostCancel
  <2> HIDE DEF s
  <2>2. s = [subs[loaded[w].sub] EXCEPT !.ends = "atPeriodEnd"]
    BY DEF s
  <2> QED BY <2>1, <2>2, Posted
<1>2. CASE PostReactivate(w)
  <2> DEFINE s == [subs[loaded[w].sub] EXCEPT !.ends = "never"]
  <2>1. Post(w, "reactivate", s)
    BY <1>2 DEF PostReactivate
  <2> HIDE DEF s
  <2>2. s = [subs[loaded[w].sub] EXCEPT !.ends = "never"]
    BY DEF s
  <2> QED BY <2>1, <2>2, Posted
<1>3. CASE PostSwitch(w)
  <2> DEFINE s == [subs[loaded[w].sub] EXCEPT !.ends = "never", !.plan = want[w]]
  <2>1. Post(w, "switch", s)
    BY <1>3 DEF PostSwitch
  <2> HIDE DEF s
  <2>2. s = [subs[loaded[w].sub] EXCEPT !.ends = "never", !.plan = want[w]]
    BY DEF s
  <2> QED BY <2>1, <2>2, Posted
<1> QED BY <1>1, <1>2, <1>3

LEMMA ServeGrounds ==
    ASSUME Inv, Grounds, NEW w \in Workers, Serve(w)
    PROVE  Grounds'
<1> USE DEF GoTo, local, stripe, inHand
<1>0. /\ pc \in [Workers -> PCs] /\ held \in [Workers -> Nat] /\ emitted \in Nat
      /\ want \in [Workers -> Plans]
      /\ snap \in [Workers -> Snapshots] /\ loaded \in [Workers -> Tenants] /\ tenant \in Tenants
      /\ Runs(tenant) /\ Runs(loaded[w]) /\ Carries(w)
  BY DEF Inv, TypeOK, Grounds
\* A step of a request that neither stores anything nor asks Stripe.
<1>1. ASSUME UNCHANGED <<tenant, subs, events, emitted, held, snap>>,
             held[w] = 0, pc'[w] \in Asking \cup {"refresh"}, Runs(loaded'[w]),
             \A v \in Workers : v # w => pc'[v] = pc[v] /\ loaded'[v] = loaded[v],
             pc'[w] \in {"decideFree", "applyFree"} => loaded'[w].sub = 0
      PROVE  Grounds'
  <2>1. Carries(w)'
    BY <1>0, <1>1 DEF Carries, Asking
  <2> QED BY <1>0, <1>1, <2>1, GroundsStep
<1>2. ASSUME NEW plan, NEW step \in Asking, Request(w, plan, step),
             step \in {"decideFree", "applyFree"} => tenant.sub = 0
      PROVE  Grounds'
  BY <1>0, <1>1, <1>2 DEF Request, Carries
<1>3. ASSUME NEW plan \in Plans, ChangePlan(w, plan) PROVE Grounds'
  BY <1>2, <1>3 DEF ChangePlan, Asking
<1>4. CASE Cancel(w)
  BY <1>2, <1>4 DEF Cancel, Asking
<1>5. CASE Reactivate(w)
  BY <1>2, <1>5 DEF Reactivate, Asking
<1>6. CASE Decide(w) \/ DecideFree(w)
  BY <1>0, <1>1, <1>6 DEF Decide, DecideFree, Carries, Asking
<1>7. CASE ApplyFree(w)
  <2>1. tenant'.sub = 0
    BY <1>7, FreePlan, InitialTenantType, SavedType, <1>0 DEF ApplyFree
  <2> QED BY <1>7, <2>1, OverGrounds DEF ApplyFree, Done, Runs
<1>8. CASE PostCancel(w) \/ PostReactivate(w) \/ PostSwitch(w)
  <2>1. PICK s \in Snapshots, step \in {"cancel", "reactivate", "switch"} :
           /\ Post(w, step, s) /\ loaded[w].sub \in SubIds /\ Running(loaded[w].sub)
           /\ s.sub = loaded[w].sub /\ s.status \in Statuses
    BY <1>8, Posts
  <2>2. PICK i \in SubIds : i = loaded[w].sub
    BY <2>1
  <2>3. /\ Change(i, s, FALSE, FALSE) /\ UNCHANGED <<tenant, held, loaded, snap>>
        /\ pc[w] \in Asking /\ pc' = [pc EXCEPT ![w] = "refresh"]
    BY <2>1, <2>2 DEF Post, Asking
  <2>4. \A v \in Workers : pc'[v] = pc[v] \/ (pc[v] \in Asking /\ pc'[v] = "refresh")
    BY <1>0, <2>3
  <2>5. s.status \notin {"none", "incomplete"}
    BY <2>1 DEF Statuses
  <2> QED BY <2>1, <2>2, <2>3, <2>4, <2>5, ChangeGrounds
<1>9. CASE Refresh(w)
  <2>1. /\ UNCHANGED <<subs, events, emitted, tenant, loaded, held>>
        /\ pc[w] = "refresh" /\ pc'[w] = "sync" /\ tenant.sub # 0 /\ snap'[w] = subs[tenant.sub]
        /\ \A v \in Workers : v # w => pc'[v] = pc[v] /\ snap'[v] = snap[v]
    BY <1>0, <1>9 DEF Refresh
  <2>2. subs[tenant.sub].sub = tenant.sub
    BY <1>0, <2>1 DEF Inv, Shape, TypeOK, Tenants, SubIds
  <2>3. Carries(w)'
    BY <1>0, <2>1, <2>2 DEF Carries, Asking, Begun, Runs
  <2> QED BY <1>0, <2>1, <2>3, GroundsStep
<1>10. CASE RefreshNothing(w)
  BY <1>0, <1>10, OverGrounds DEF RefreshNothing, Done
<1>11. ASSUME NEW c \in 1..MaxSubs, EnsureCustomer(w, c) PROVE Grounds'
  <2>1. /\ UNCHANGED <<subs, events, emitted, held, snap>>
        /\ pc[w] = "customer" /\ pc'[w] = "session"
        /\ tenant' = Saved(w, [loaded[w] EXCEPT !.customer = c])
        /\ loaded' = [loaded EXCEPT ![w].customer = c]
        /\ \A v \in Workers : v # w => pc'[v] = pc[v]
    BY <1>0, <1>11 DEF EnsureCustomer
  <2>2. tenant'.sub = loaded[w].sub /\ loaded'[w].sub = loaded[w].sub
        /\ \A v \in Workers : v # w => loaded'[v] = loaded[v]
    BY <1>0, <2>1 DEF Saved, Tenants
  <2>3. Carries(w)'
    BY <1>0, <2>1, <2>2 DEF Carries, Asking
  <2> QED BY <1>0, <2>1, <2>2, <2>3, GroundsStep DEF Runs
<1>12. ASSUME NEW starts \in {"trialing", "incomplete"}, CreateSession(w, starts) PROVE Grounds'
  BY <1>0, <1>12, OverGrounds DEF CreateSession
<1>13. CASE CheckRoom(w)
  BY <1>2, <1>13 DEF CheckRoom, Asking
<1>14. CASE CreateAsset(w)
  BY <1>0, <1>14, OverGrounds DEF CreateAsset
<1> QED BY <1>3, <1>4, <1>5, <1>6, <1>7, <1>8, <1>9, <1>10, <1>11, <1>12, <1>13, <1>14 DEF Serve

LEMMA NextGrounds ==
    ASSUME Inv, Grounds, [Next]_vars
    PROVE  Grounds'
<1>1. CASE RemoveAsset \/ Tick \/ UNCHANGED vars
  <2>1. UNCHANGED <<tenant, subs, events, emitted, pc, held, loaded, snap>>
    BY <1>1 DEF RemoveAsset, Tick, vars, local, stripe, inHand
  <2>2. Queue' /\ Runs(tenant)'
    BY <2>1 DEF Grounds, Queue, Begun, Runs
  <2>3. \A w \in Workers : Carries(w)' /\ Runs(loaded[w])'
    BY <2>1 DEF Grounds, Carries, Begun, Runs
  <2> QED BY <2>2, <2>3 DEF Grounds
<1>2. ASSUME NEW w \in Workers, Fail(w) PROVE Grounds'
  BY <1>2, OverGrounds DEF Fail, local, stripe, Grounds
<1> QED BY <1>1, <1>2, StripeGrounds, HandleGrounds, ServeGrounds DEF Next

LEMMA InitGrounds ==
    ASSUME Init, Inv
    PROVE  Grounds
<1>1. Queue /\ Runs(tenant)
  BY InitialTenantType DEF Init, Queue, Runs
<1>2. \A w \in Workers : Carries(w) /\ Runs(loaded[w])
  BY FreePlan, InitialTenantType DEF Init, Carries, Runs, Asking
<1> QED BY <1>1, <1>2 DEF Grounds

-----------------------------------------------------------------------------
(* The handlers, while nothing disturbs the account. *)

\* Where no two are at work, the others are idle before and after the step.
LEMMA OthersIdle ==
    ASSUME NEW w \in Workers, ~Overlapping, ~Overlapping', pc[w] # "idle" \/ pc'[w] # "idle",
           \A v \in Workers : v # w => pc'[v] = pc[v]
    PROVE  \A v \in Workers : v # w => pc[v] = "idle" /\ pc'[v] = "idle"
<1>1. CASE pc[w] # "idle"
  BY <1>1 DEF Overlapping, AtWork
<1>2. CASE pc'[w] # "idle"
  BY <1>2 DEF Overlapping, AtWork
<1> QED BY <1>1, <1>2

\* Whoever is idle has nothing in hand.
LEMMA IdleKnows ==
    ASSUME Grounds', NEW w \in Workers, pc'[w] = "idle"
    PROVE  UpToDate(w)'
<1>1. held'[w] = 0
  BY DEF Grounds, Carries
<1> QED BY <1>1 DEF UpToDate, Oldest, Asking

\* A step that leaves Stripe, its events and the stored tenant alone.
LEMMA QuietAlone ==
    ASSUME Alone, Grounds', NEW w \in Workers, ~Overlapping', pc[w] # "idle" \/ pc'[w] # "idle",
           UNCHANGED <<subs, events, initial, tenant>>,
           \A v \in Workers : v # w => pc'[v] = pc[v],
           \/ held'[w] = held[w] /\ Later(held[w])
           \/ Later(held[w])'
           \/ UpToDate(w)'
    PROVE  Alone'
<1>1. \A at : Later(at)' <=> Later(at)
  BY DEF Later, Applies
<1>2. OneRuns' /\ (InSync' \/ Later(0)')
  BY <1>1 DEF Alone, OneRuns, InSync, Linked, Unlinked, Running
<1>3. Outstanding'
  BY <1>1 DEF Alone, Outstanding, LastWord, Brings, Running, Applies
<1>4. Knows(w)'
  BY DEF Knows, Later, Applies
<1>5. \A v \in Workers : Knows(v)'
  BY <1>4, OthersIdle, IdleKnows DEF Alone, Knows
<1> QED BY <1>2, <1>3, <1>5 DEF Alone

\* The handler is done with what it has in hand.
LEMMA DoneAlone ==
    ASSUME Inv, Inv', Grounds, Grounds', Alone, NEW w \in Workers, ~Overlapping',
           Done(w), pc[w] # "idle", UNCHANGED initial,
           Later(held[w]) \/ InSync'
    PROVE  Alone'
<1>1. /\ UNCHANGED <<subs, sessions, emitted, granted>>
      /\ events' = {e \in events : e.at # held[w]}
      /\ pc' = [pc EXCEPT ![w] = "idle"]
  BY DEF Done, Over, GoTo
<1>2. held[w] \in Nat /\ pc \in [Workers -> PCs] /\ \A e \in events : e.at \in Nat
  BY DEF Inv, TypeOK
<1>3. pc'[w] = "idle" /\ \A v \in Workers : v # w => pc'[v] = pc[v]
  BY <1>1, <1>2
<1>4. Later(held[w]) \/ \A e \in events : e.at >= held[w]
  BY <1>2 DEF Alone, Knows, UpToDate, Oldest
<1>5. ASSUME NEW at \in Nat, Later(at), at >= held[w] \/ Later(held[w])
      PROVE  Later(at)'
  <2>1. CASE Later(held[w]) /\ at < held[w]
    <3>1. PICK e \in events : Applies(e) /\ e.at > held[w]
      BY <2>1 DEF Later
    <3>2. e \in events' /\ e.at > at
      BY <1>1, <1>2, <2>1, <3>1
    <3> QED BY <3>1, <3>2 DEF Later, Applies
  <2>2. CASE at >= held[w]
    <3>1. PICK e \in events : Applies(e) /\ e.at > at
      BY <1>5 DEF Later
    <3>2. e \in events'
      BY <1>1, <1>2, <2>2, <3>1
    <3> QED BY <3>1, <3>2 DEF Later, Applies
  <2> QED BY <1>2, <1>5, <2>1, <2>2
<1>6. OneRuns'
  BY <1>1 DEF Alone, OneRuns, Running
<1>7. Outstanding'
  <2> SUFFICES ASSUME NEW e \in events'
               PROVE  /\ e.type = "payment_failed" =>
                            Later(e.at)' \/ subs'[e.snap.sub].status = "past_due"
                      /\ Applies(e) => Later(e.at)' \/ LastWord(e)'
    BY DEF Outstanding, Applies
  <2>1. e \in events /\ e.at \in Nat
    BY <1>1, <1>2
  <2>2. Later(e.at) => Later(e.at)'
    BY <1>4, <1>5, <2>1
  <2>3. LastWord(e) => LastWord(e)'
    BY <1>1 DEF LastWord, Brings, Running
  <2> QED BY <1>1, <2>1, <2>2, <2>3 DEF Alone, Outstanding
<1>8. Later(held[w]) => Later(0)'
  <2>1. CASE held[w] = 0
    BY <1>5, <2>1
  <2>2. CASE held[w] # 0
    <3> SUFFICES ASSUME NEW e \in events, Applies(e), e.at > held[w]
                 PROVE  Later(0)'
      BY DEF Later
    <3>1. e \in events' /\ e.at > 0
      BY <1>1, <1>2
    <3> QED BY <3>1 DEF Later, Applies
  <2> QED BY <2>1, <2>2
<1>9. \A v \in Workers : Knows(v)'
  BY <1>3, OthersIdle, IdleKnows DEF Alone, Knows
<1> QED BY <1>6, <1>7, <1>8, <1>9 DEF Alone

\* An event that is passed over was not the last word.
LEMMA PassedOver ==
    ASSUME Inv, Grounds, NEW w \in Workers, Oldest(w), held[w] # 0,
           NEW e \in events, e.at = held[w], ~Applies(e), Later(0)
    PROVE  Later(held[w])
<1>1. PICK f \in events : Applies(f) /\ f.at > 0
  BY DEF Later
<1>2. f.at # held[w] /\ f.at >= held[w]
  BY <1>1 DEF Grounds, Queue, Oldest
<1> QED BY <1>1, <1>2 DEF Later, Inv, TypeOK

\* Storing a snapshot that brings the tenant in step does.
LEMMA SyncedInSync ==
    ASSUME Inv, NEW w \in Workers, Brings(snap[w]), loaded[w] = tenant,
           tenant' = Saved(w, Synced(snap[w], loaded[w])), UNCHANGED <<subs, initial>>
    PROVE  InSync'
<1>1. snap[w] \in Snapshots /\ tenant \in Tenants /\ clock \in Nat
  BY DEF Inv, TypeOK
<1>2. snap[w].status \notin {"none", "incomplete"}
  BY DEF Brings, Statuses
<1>3. tenant' = Synced(snap[w], loaded[w])
  BY <1>1, <1>2, SyncedType DEF Saved, Tenants
<1>4. CASE snap[w].status = "canceled"
  <2>1. \A i \in SubIds : ~Running(i)
    BY <1>4 DEF Brings, Statuses
  <2> QED BY <1>3, <1>4, <2>1 DEF Synced, InSync, Unlinked, Running
<1>5. CASE snap[w].status # "canceled"
  <2>1. snap[w].status \in Statuses /\ snap[w].sub \in SubIds /\ snap[w] = subs[snap[w].sub]
    BY <1>5 DEF Brings
  <2> QED BY <1>3, <1>5, <2>1 DEF Synced, InSync, Linked, Running
<1> QED BY <1>4, <1>5

LEMMA HandleAlone ==
    ASSUME Inv, Inv', Grounds, Grounds', Alone, NEW w \in Workers, Handle(w),
           ~Overlapping', ~Overtaking
    PROVE  Alone'
<1> USE DEF GoTo, local, stripe, inHand
<1>0. /\ pc \in [Workers -> PCs] /\ held \in [Workers -> Nat]
      /\ snap \in [Workers -> Snapshots] /\ loaded \in [Workers -> Tenants] /\ tenant \in Tenants
      /\ \A e \in events : e.at \in Nat /\ e.snap \in Snapshots
                           /\ e.type \in {"subscription", "completed", "payment_failed"}
      /\ Carries(w) /\ (Later(held[w]) \/ UpToDate(w))
  BY DEF Inv, TypeOK, Grounds, Alone, Knows
<1>1. ASSUME NEW e \in events, Deliver(w, e) PROVE Alone'
  <2>1. /\ UNCHANGED <<subs, events, emitted, initial, tenant, loaded>>
        /\ held'[w] = e.at /\ snap'[w] = e.snap
        /\ pc[w] = "idle"
        /\ pc'[w] = CASE e.type = "subscription" -> "sync"
                 [] e.type = "completed" -> "fetch"
                 [] e.type = "payment_failed" -> "find"
        /\ \A v \in Workers : v # w => pc'[v] = pc[v]
    BY <1>0, <1>1 DEF Deliver
  <2>2. \A f \in events : e.at <= f.at
    BY <1>0, <2>1 DEF Overtaking, AtWork
  <2>3. Oldest(w)'
    BY <1>0, <2>1, <2>2 DEF Oldest, Applies
  <2>4. pc'[w] \in {"sync", "fetch", "find"}
    BY <1>0, <2>1
  <2>5. CASE Later(e.at)
    <3>1. Later(held[w])'
      BY <2>1, <2>5 DEF Later, Applies
    <3> QED BY <2>1, <2>4, <3>1, QuietAlone
  <2>6. CASE ~Later(e.at)
    <3>1. pc'[w] = "sync" => snap'[w].status = "incomplete" \/ Brings(snap[w])'
      <4>1. e.type = "subscription" /\ e.snap.status # "incomplete" => Brings(e.snap)
        BY <2>6 DEF Alone, Outstanding, LastWord, Applies
      <4>2. Brings(e.snap) => Brings(snap[w])'
        BY <2>1 DEF Brings, Running
      <4> QED BY <1>0, <2>1, <4>1, <4>2
    <3>2. UpToDate(w)'
      BY <2>3, <2>4, <3>1 DEF UpToDate, Asking
    <3> QED BY <2>1, <2>4, <3>2, QuietAlone
  <2> QED BY <2>5, <2>6
<1>2. CASE Fetch(w)
  <2>1. /\ UNCHANGED <<subs, events, emitted, initial, tenant, loaded, held>>
        /\ pc[w] = "fetch" /\ pc'[w] = "sync" /\ snap'[w] = subs[snap[w].sub]
        /\ \A v \in Workers : v # w => pc'[v] = pc[v]
    BY <1>0, <1>2 DEF Fetch
  <2>2. CASE Later(held[w])
    BY <2>1, <2>2, QuietAlone
  <2>3. CASE ~Later(held[w])
    <3>1. UpToDate(w) /\ held[w] # 0
      BY <1>0, <2>1, <2>3 DEF Carries
    <3>2. PICK e \in events : e.at = held[w] /\ e.type = "completed" /\ e.snap = snap[w]
      BY <2>1, <3>1 DEF UpToDate, Oldest
    <3>3. snap[w].sub \in SubIds /\ subs[snap[w].sub].status \notin {"none", "incomplete"}
      BY <1>0, <2>1 DEF Carries, Begun, Inv, Shape, IsOf, Handling
    <3>4. Oldest(w)'
      BY <2>1, <3>1, <3>2, <3>3 DEF UpToDate, Oldest
    <3>5. Brings(subs[snap[w].sub])
      BY <1>0, <2>1, <2>3, <3>2 DEF Alone, Outstanding, LastWord, Applies, Carries
    <3>6. Brings(snap[w])'
      BY <2>1, <3>5 DEF Brings, Running
    <3>7. UpToDate(w)'
      BY <2>1, <3>4, <3>6 DEF UpToDate, Asking
    <3> QED BY <2>1, <3>7, QuietAlone
  <2> QED BY <2>2, <2>3
<1>3. CASE FindTenant(w)
  <2>1. /\ UNCHANGED <<subs, events, emitted, initial, tenant, snap, held>>
        /\ pc[w] = "find" /\ pc'[w] = "savePastDue" /\ loaded'[w] = tenant
        /\ \A v \in Workers : v # w => pc'[v] = pc[v]
    BY <1>0, <1>3 DEF FindTenant
  <2>2. UpToDate(w) => UpToDate(w)'
    BY <2>1 DEF UpToDate, Oldest, Asking
  <2> QED BY <1>0, <2>1, <2>2, QuietAlone
<1>4. CASE LoadForSync(w)
  <2>1. /\ UNCHANGED <<subs, events, emitted, initial, tenant, snap, held>>
        /\ pc[w] = "sync" /\ loaded'[w] = tenant
        /\ pc'[w] = IF snap[w].status = "incomplete" THEN "ignore" ELSE "saveSync"
        /\ \A v \in Workers : v # w => pc'[v] = pc[v]
    BY <1>0, <1>4 DEF LoadForSync
  <2>2. Brings(snap[w]) => Brings(snap[w])'
    BY <2>1 DEF Brings, Running
  <2>3. Oldest(w) => Oldest(w)'
    BY <2>1 DEF Oldest, Applies
  <2>4. UpToDate(w) => UpToDate(w)'
    BY <2>1, <2>2, <2>3 DEF UpToDate, Asking
  <2> QED BY <1>0, <2>1, <2>4, QuietAlone
<1>5. CASE NoTenant(w) \/ IgnoreIncomplete(w)
  <2>1. Done(w) /\ UNCHANGED <<tenant, initial, subs>> /\ pc[w] \in {"find", "ignore"}
    BY <1>5 DEF NoTenant, IgnoreIncomplete, Done
  <2>2. InSync => InSync'
    BY <2>1 DEF InSync, Linked, Unlinked, Running
  <2>3. CASE Later(held[w])
    BY <2>1, <2>3, DoneAlone
  <2>4. CASE ~Later(held[w])
    <3>1. UpToDate(w)
      BY <1>0, <2>4
    <3>2. held[w] # 0 => \E e \in events : e.at = held[w] /\ ~Applies(e)
      BY <2>1, <3>1 DEF UpToDate, Oldest, Applies
    <3>3. InSync
      BY <2>4, <3>1, <3>2, PassedOver DEF Alone, UpToDate
    <3> QED BY <2>1, <2>2, <3>3, DoneAlone
  <2> QED BY <2>3, <2>4
<1>6. CASE SavePastDue(w)
  <2>1. /\ Done(w) /\ UNCHANGED <<initial, subs>> /\ pc[w] = "savePastDue"
        /\ tenant' = Saved(w, [loaded[w] EXCEPT !.status = "past_due", !.tstatus = "past_due",
                                !.since = IF @ = 0 THEN clock ELSE @])
    BY <1>6 DEF SavePastDue, Done
  <2>2. CASE Later(held[w])
    BY <2>1, <2>2, DoneAlone
  <2>3. CASE ~Later(held[w])
    <3>0. UpToDate(w) /\ loaded[w] = tenant /\ held[w] # 0
      BY <1>0, <2>1, <2>3 DEF UpToDate, Carries
    <3>1. /\ tenant'.sub = tenant.sub /\ tenant'.plan = tenant.plan /\ tenant'.ends = tenant.ends
          /\ tenant'.status = "past_due" /\ tenant'.tstatus = "past_due"
      BY <1>0, <2>1, <3>0 DEF Saved, Tenants
    <3>2. PICK e \in events : e.at = held[w] /\ e.type = "payment_failed" /\ e.snap.sub = snap[w].sub
      BY <2>1, <3>0 DEF UpToDate, Oldest
    <3>3. snap[w].sub \in SubIds
      BY <2>1 DEF Inv, Shape, IsOf, Handling
    <3>4. InSync
      BY <2>3, <3>0, <3>2, PassedOver DEF Alone, UpToDate, Applies
    <3>5. subs[snap[w].sub].status = "past_due"
      BY <2>3, <3>2 DEF Alone, Outstanding
    <3>6. Running(snap[w].sub)
      BY <3>5 DEF Running, Statuses
    <3>7. PICK i \in SubIds : Linked(i)
      BY <3>3, <3>4, <3>6 DEF InSync, Unlinked
    <3>8. i = snap[w].sub
      BY <3>3, <3>6, <3>7 DEF Alone, OneRuns, Linked
    <3>9. tenantStatus["past_due"] = "past_due"
      BY DEF tenantStatus, Statuses
    <3>10. InSync'
      BY <2>1, <3>1, <3>5, <3>7, <3>8, <3>9 DEF InSync, Linked, Running
    <3> QED BY <2>1, <3>10, DoneAlone
  <2> QED BY <2>2, <2>3
<1>7. CASE SaveSync(w)
  <2>1. /\ Done(w) /\ UNCHANGED <<initial, subs>> /\ pc[w] = "saveSync"
        /\ tenant' = Saved(w, Synced(snap[w], loaded[w]))
    BY <1>7 DEF SaveSync, Done
  <2>2. snap[w].status # "incomplete"
    BY <2>1 DEF Inv, Shape
  <2>3. UpToDate(w) => loaded[w] = tenant /\ Brings(snap[w])
    BY <2>1, <2>2 DEF UpToDate
  <2>4. Later(held[w]) \/ InSync'
    BY <1>0, <2>1, <2>3, SyncedInSync
  <2> QED BY <2>1, <2>4, DoneAlone
<1> QED BY <1>1, <1>2, <1>3, <1>4, <1>5, <1>6, <1>7 DEF Handle

-----------------------------------------------------------------------------
(* What Stripe changes. *)

\* A new word of a subscription that then runs alone puts everything in order:
\* its event comes after all that is outstanding or in hand.
LEMMA NewWordAlone ==
    ASSUME Inv, Grounds, Grounds', ~Overlapping', UNCHANGED <<initial, held>>,
           NEW i \in SubIds, NEW s \in Snapshots, s.sub = i, s.status \notin {"none", "incomplete"},
           NEW failed \in BOOLEAN, NEW completed \in BOOLEAN, Change(i, s, failed, completed),
           s # subs[i], ~Others(i)'
    PROVE  Alone'
<1>1. /\ \A j \in SubIds : subs'[j] = IF j = i THEN s ELSE subs[j]
      /\ emitted \in Nat /\ emitted' \in Nat /\ emitted' >= emitted
      /\ events \subseteq events'
      /\ \A e \in events' \ events :
            /\ e.snap = s
            /\ \/ e.type = "payment_failed" /\ e.at = emitted + 1 /\ failed
               \/ e.type = "subscription" /\ e.at = emitted + 2 /\ s # subs[i]
               \/ e.type = "completed" /\ e.at = emitted + 3 /\ completed
      /\ \E e \in events' : e.type = "subscription" /\ e.at = emitted + 2 /\ e.snap = s
  BY ChangeNews
<1>2. \A j \in SubIds : j # i => ~Running(j)'
  BY DEF Others, Running
<1>3. Brings(s)'
  <2>1. CASE s.status = "canceled"
    <3>1. \A j \in SubIds : ~Running(j)'
      BY <1>1, <1>2, <2>1 DEF Running, Statuses
    <3> QED BY <2>1, <3>1 DEF Brings
  <2>2. CASE s.status # "canceled"
    BY <1>1, <2>2 DEF Brings, Snapshots, StripeStatuses
  <2> QED BY <2>1, <2>2
<1>4. PICK n \in events' : n.type = "subscription" /\ n.at = emitted + 2 /\ n.snap = s
  BY <1>1
<1>5. \A at \in Nat : at <= emitted + 1 => Later(at)'
  BY <1>1, <1>4 DEF Later, Applies
<1>6. \A e \in events : e.at \in Nat /\ e.at <= emitted
  BY DEF Inv, TypeOK, Grounds, Queue
<1>7. OneRuns'
  BY <1>2 DEF OneRuns
<1>8. Outstanding'
  <2>1. \A e \in events' : e.type = "payment_failed" => Later(e.at)'
    BY <1>1, <1>5, <1>6
  <2>2. subs'[s.sub] = s
    BY <1>1
  <2>3. ASSUME NEW e \in events', Applies(e) PROVE Later(e.at)' \/ LastWord(e)'
    <3>1. CASE e \in events
      BY <1>1, <1>5, <1>6, <3>1
    <3>2. CASE e \notin events
      BY <1>1, <1>3, <2>2, <3>2 DEF LastWord
    <3> QED BY <3>1, <3>2
  <2> QED BY <2>1, <2>3 DEF Outstanding, Applies
<1>9. Later(0)'
  BY <1>1, <1>5
<1>10. ASSUME NEW w \in Workers PROVE Knows(w)'
  <2>1. held[w] \in Nat /\ held[w] <= emitted
    BY DEF Inv, TypeOK, Grounds, Carries
  <2>2. PICK h \in Nat : h = held[w]
    BY <2>1
  <2>3. Later(h)'
    BY <1>1, <1>5, <2>1, <2>2
  <2> QED BY <2>2, <2>3 DEF Knows, Later, Applies
<1> QED BY <1>7, <1>8, <1>9, <1>10 DEF Alone

\* A change that is no word: a payment fails again, or a checkout leaves a subscription
\* that is incomplete.
LEMMA OldWordAlone ==
    ASSUME Inv, Grounds, Alone, ~Overlapping',
           UNCHANGED <<tenant, initial, pc, held, loaded, snap>>,
           NEW i \in SubIds, NEW s \in Snapshots, s.sub = i, s.status # "none",
           NEW failed \in BOOLEAN, NEW completed \in BOOLEAN, Change(i, s, failed, completed),
           \/ s = subs[i] /\ (failed => s.status = "past_due") /\ ~completed
           \/ s.status = "incomplete" /\ subs[i] = None /\ ~failed /\ ~completed
    PROVE  Alone'
<1>1. /\ \A j \in SubIds : subs'[j] = IF j = i THEN s ELSE subs[j]
      /\ emitted \in Nat
      /\ events \subseteq events'
      /\ \A e \in events' \ events :
            /\ e.snap = s
            /\ \/ e.type = "payment_failed" /\ e.at = emitted + 1 /\ failed
               \/ e.type = "subscription" /\ e.at = emitted + 2 /\ s # subs[i]
               \/ e.type = "completed" /\ e.at = emitted + 3 /\ completed
  BY ChangeNews
<1>2. \A at : Later(at) => Later(at)'
  BY <1>1 DEF Later, Applies
<1>3. /\ \A j \in SubIds : subs'[j] = subs[j] \/ (subs[j] = None /\ ~Running(j) /\ ~Running(j)')
      /\ \A j \in SubIds : Running(j)' <=> Running(j)
  BY <1>1, NoneType DEF Running, Statuses
<1>4. \A e \in events' \ events :
         /\ ~Applies(e) /\ e.at > emitted /\ e.at \in Nat
         /\ e.type = "payment_failed" => e.snap.sub = i /\ subs'[i].status = "past_due"
  BY <1>1 DEF Applies
<1>5. \A x \in Snapshots : Brings(x) => Brings(x)'
  BY <1>3, NoneType DEF Brings, Statuses
<1>6. ASSUME NEW e \in events
      PROVE  e.snap.sub \in SubIds /\ e.snap \in Snapshots /\ subs'[e.snap.sub] = subs[e.snap.sub]
             /\ subs[e.snap.sub] \in Snapshots
  BY <1>3, NoneType DEF Inv, TypeOK, Shape, IsOf
<1>7. OneRuns'
  BY <1>3 DEF Alone, OneRuns
<1>8. Outstanding'
  <2>1. ASSUME NEW e \in events', e.type = "payment_failed"
        PROVE  Later(e.at)' \/ subs'[e.snap.sub].status = "past_due"
    <3>1. CASE e \in events
      BY <1>2, <1>6, <2>1, <3>1 DEF Alone, Outstanding
    <3>2. CASE e \notin events
      BY <1>4, <2>1, <3>2
    <3> QED BY <3>1, <3>2
  <2>2. ASSUME NEW e \in events', Applies(e)
        PROVE  Later(e.at)' \/ LastWord(e)'
    <3>1. e \in events
      BY <1>4, <2>2
    <3>2. LastWord(e) => LastWord(e)'
      BY <1>5, <1>6, <3>1 DEF LastWord
    <3> QED BY <1>2, <2>2, <3>1, <3>2 DEF Alone, Outstanding
  <2> QED BY <2>1, <2>2 DEF Outstanding, Applies
<1>9. InSync => InSync'
  <2>1. ASSUME NEW j \in SubIds, Linked(j) PROVE Linked(j)'
    BY <1>3, <2>1 DEF Linked
  <2>2. Unlinked => Unlinked'
    BY <1>3 DEF Unlinked
  <2> QED BY <2>1, <2>2 DEF InSync
<1>10. ASSUME NEW w \in Workers PROVE Knows(w)'
  <2>1. /\ held[w] \in Nat /\ held[w] <= emitted /\ snap[w] \in Snapshots
        /\ \A e \in events : e.at \in Nat
    BY DEF Inv, TypeOK, Grounds, Carries
  <2>2. Later(held[w]) => Later(held[w])'
    BY <1>1 DEF Later, Applies
  <2>3. Oldest(w) => Oldest(w)'
    <3>1. \A e \in events' : e \in events \/ e.at >= held[w]
      BY <1>1, <1>4, <2>1
    <3> QED BY <1>1, <3>1 DEF Oldest, Applies
  <2>4. Brings(snap[w]) => Brings(snap[w])'
    <3>1. PICK x \in Snapshots : x = snap[w]
      BY <2>1
    <3>2. Brings(snap[w])' <=> Brings(x)'
      BY <3>1 DEF Brings, Running
    <3> QED BY <1>5, <3>1, <3>2
  <2>5. UpToDate(w) => UpToDate(w)'
    BY <2>3, <2>4 DEF UpToDate
  <2> QED BY <2>2, <2>5 DEF Alone, Knows
<1> QED BY <1>2, <1>7, <1>8, <1>9, <1>10 DEF Alone

LEMMA StripeAlone ==
    ASSUME Inv, Grounds, Grounds', Stripe, ~Overlapping',
           Alone \/ \E i \in SubIds : NewWord(i),
           \A i \in SubIds : NewWord(i) => ~Others(i)'
    PROVE  Alone'
<1>0. PICK i \in SubIds : \/ \E session \in sessions : CompleteCheckout(session, i)
                          \/ \E status \in Statuses : Move(i, status)
                          \/ End(i)
  BY DEF Stripe
<1>1. /\ UNCHANGED <<tenant, initial, pc, held, loaded, snap>>
      /\ subs[i] \in Snapshots /\ (subs[i].status # "none" => subs[i].sub = i)
  BY <1>0 DEF CompleteCheckout, Move, End, local, inHand, Inv, TypeOK, Shape
<1>2. ASSUME NEW s \in Snapshots, s.sub = i, s.status # "none",
             NEW failed \in BOOLEAN, NEW completed \in BOOLEAN, Change(i, s, failed, completed),
             \/ s = subs[i] /\ (failed => s.status = "past_due") /\ ~completed
             \/ s.status = "incomplete" /\ subs[i] = None /\ ~failed /\ ~completed
             \/ s # subs[i] /\ s.status # "incomplete"
      PROVE  Alone'
  <2>1. \A j \in SubIds : subs'[j] = IF j = i THEN s ELSE subs[j]
    BY <1>2, ChangeNews
  <2>2. CASE s # subs[i] /\ s.status # "incomplete"
    <3>1. NewWord(i)
      BY <2>1, <2>2 DEF NewWord
    <3>2. ~Others(i)'
      BY <3>1
    <3> QED BY <1>1, <1>2, <2>2, <3>2, NewWordAlone
  <2>3. CASE s = subs[i] \/ s.status = "incomplete"
    <3>1. ~\E j \in SubIds : NewWord(j)
      BY <2>1, <2>3 DEF NewWord
    <3> QED BY <1>1, <1>2, <2>3, <3>1, OldWordAlone
  <2> QED BY <2>2, <2>3
<1>3. ASSUME NEW session \in sessions, CompleteCheckout(session, i) PROVE Alone'
  <2> DEFINE s == [sub |-> i, plan |-> session.plan, ends |-> "never",
                   customer |-> session.customer, status |-> session.starts]
  <2>1. s \in Snapshots /\ s.sub = i /\ s.status = session.starts
        /\ session.starts \in {"trialing", "incomplete"}
    BY DEF Inv, TypeOK, Snapshots, SubIds, StripeStatuses, Statuses
  <2>2. Change(i, s, FALSE, session.starts = "trialing") /\ subs[i] = None
    BY <1>3 DEF CompleteCheckout
  <2>3. s # subs[i]
    BY <2>1, <2>2, NoneType
  <2> HIDE DEF s
  <2>4. s.status # "none" /\ (session.starts = "trialing") \in BOOLEAN
    BY <2>1
  <2>5. \/ s.status = "incomplete" /\ subs[i] = None /\ ~FALSE /\ ~(session.starts = "trialing")
        \/ s # subs[i] /\ s.status # "incomplete"
    BY <2>1, <2>2, <2>3
  <2> QED BY <1>2, <2>1, <2>2, <2>4, <2>5
<1>4. ASSUME NEW status \in Statuses, Move(i, status) PROVE Alone'
  <2> DEFINE s == [subs[i] EXCEPT !.status = status]
             failed == status = "past_due" \/ <<subs[i].status, status>> = <<"past_due", "unpaid">>
             completed == subs[i].status = "incomplete"
  <2>1. <<subs[i].status, status>> \in Moves /\ Change(i, s, failed, completed)
    BY <1>4 DEF Move
  <2>2. s \in Snapshots /\ s.sub = i /\ s.status = status
    BY <1>1, <2>1 DEF Moves, Snapshots, StripeStatuses, Statuses
  <2>3. failed \in BOOLEAN /\ completed \in BOOLEAN /\ status \notin {"incomplete", "none"}
    BY DEF Statuses
  <2>4. s = subs[i] => (failed => s.status = "past_due") /\ ~completed
    BY <2>2, <2>3
  <2> HIDE DEF s, failed, completed
  <2> QED BY <1>2, <2>1, <2>2, <2>3, <2>4
<1>5. CASE End(i)
  <2> DEFINE s == [subs[i] EXCEPT !.status = "canceled"]
  <2>1. Running(i) /\ Change(i, s, FALSE, FALSE)
    BY <1>5 DEF End
  <2>2. s \in Snapshots /\ s.sub = i /\ s.status = "canceled" /\ s # subs[i]
    BY <1>1, <2>1 DEF Snapshots, StripeStatuses, Running, Statuses
  <2> HIDE DEF s
  <2> QED BY <1>2, <2>1, <2>2
<1> QED BY <1>0, <1>3, <1>4, <1>5

\* A request that Stripe is asked to carry out.
LEMMA PostAlone ==
    ASSUME Inv, Grounds, Grounds', NEW w \in Workers,
           PostCancel(w) \/ PostReactivate(w) \/ PostSwitch(w), ~Overlapping',
           Alone \/ \E i \in SubIds : NewWord(i),
           \A i \in SubIds : NewWord(i) => ~Others(i)'
    PROVE  Alone'
<1>1. PICK s \in Snapshots, step \in {"cancel", "reactivate", "switch"} :
         /\ Post(w, step, s) /\ loaded[w].sub \in SubIds /\ Running(loaded[w].sub)
         /\ s.sub = loaded[w].sub /\ s.status \in Statuses
  BY Posts
<1>2. PICK i \in SubIds : i = loaded[w].sub
  BY <1>1
<1>3. /\ Change(i, s, FALSE, FALSE) /\ UNCHANGED <<tenant, initial, held, loaded, snap>>
      /\ pc[w] \in Asking /\ pc' = [pc EXCEPT ![w] = "refresh"]
      /\ s.status \notin {"none", "incomplete"} /\ s.sub = i
  BY <1>1, <1>2 DEF Post, Asking, GoTo, local, inHand, Statuses
<1>4. \A j \in SubIds : subs'[j] = IF j = i THEN s ELSE subs[j]
  <2>1. subs' = [subs EXCEPT ![i] = s]
    BY <1>3 DEF Change
  <2> QED BY <2>1 DEF Inv, TypeOK
<1>5. CASE s # subs[i]
  <2>1. NewWord(i)
    BY <1>3, <1>4, <1>5 DEF NewWord
  <2>2. ~Others(i)'
    BY <2>1
  <2> QED BY <1>3, <1>5, <2>2, NewWordAlone
<1>6. CASE s = subs[i]
  <2>1. Alone
    BY <1>4, <1>6 DEF NewWord
  <2>2. subs' = subs /\ events' = events
    BY <1>3, <1>6 DEF Change, Inv, TypeOK
  <2>3. pc \in [Workers -> PCs] /\ held[w] = 0
    BY <1>3 DEF Inv, TypeOK, Grounds, Carries
  <2>4. UpToDate(w)' /\ pc'[w] = "refresh" /\ \A v \in Workers : v # w => pc'[v] = pc[v]
    BY <1>3, <2>3 DEF UpToDate, Oldest, Asking
  <2> QED BY <1>3, <2>1, <2>2, <2>4, QuietAlone
<1> QED BY <1>5, <1>6

-----------------------------------------------------------------------------
(* The customer's requests, while nothing disturbs the account. *)

LEMMA ServeAlone ==
    ASSUME Inv, Inv', Grounds, Grounds', NEW w \in Workers, Serve(w), ~Overlapping',
           Alone \/ \E i \in SubIds : NewWord(i),
           \A i \in SubIds : NewWord(i) => ~Others(i)'
    PROVE  Alone'
<1> USE DEF GoTo, local, stripe, inHand
<1>0. /\ pc \in [Workers -> PCs] /\ held \in [Workers -> Nat] /\ want \in [Workers -> Plans]
      /\ snap \in [Workers -> Snapshots] /\ loaded \in [Workers -> Tenants] /\ tenant \in Tenants
      /\ Carries(w)
  BY DEF Inv, TypeOK, Grounds
<1>1. CASE PostCancel(w) \/ PostReactivate(w) \/ PostSwitch(w)
  BY <1>1, PostAlone
<1>2. CASE ~(PostCancel(w) \/ PostReactivate(w) \/ PostSwitch(w))
  <2>1. subs' = subs
    BY <1>2 DEF Serve, ChangePlan, Cancel, Reactivate, Request, Decide, DecideFree, ApplyFree,
                Refresh, RefreshNothing, EnsureCustomer, CreateSession, CheckRoom, CreateAsset, Done
  <2>2. Alone /\ (Later(held[w]) \/ UpToDate(w))
    BY <2>1 DEF NewWord, Alone, Knows
  \* A step of a request that neither stores anything nor asks Stripe.
  <2>3. ASSUME UNCHANGED <<tenant, subs, events, initial>>,
               pc'[w] \in Asking \cup {"idle", "refresh"}, held'[w] = 0, held[w] = 0,
               pc[w] # "idle" \/ pc'[w] # "idle",
               \A v \in Workers : v # w => pc'[v] = pc[v],
               \/ Later(held[w])
               \/ pc'[w] \in Asking => loaded'[w] = tenant
        PROVE  Alone'
    <3>1. Later(held[w]) \/ UpToDate(w)'
      BY <2>3 DEF UpToDate, Oldest, Asking
    <3> QED BY <2>2, <2>3, <3>1, QuietAlone
  <2>4. ASSUME NEW plan, NEW step \in Asking, Request(w, plan, step) PROVE Alone'
    <3>1. /\ UNCHANGED <<tenant, subs, events, initial>>
          /\ pc'[w] = step /\ held'[w] = 0 /\ held[w] = 0 /\ loaded'[w] = tenant
          /\ pc'[w] # "idle"
          /\ \A v \in Workers : v # w => pc'[v] = pc[v]
      BY <1>0, <2>4 DEF Request, Carries, Asking
    <3> QED BY <2>3, <2>4, <3>1
  <2>5. ASSUME NEW plan \in Plans, ChangePlan(w, plan) PROVE Alone'
    BY <2>4, <2>5 DEF ChangePlan, Asking
  <2>6. CASE Cancel(w)
    BY <2>4, <2>6 DEF Cancel, Asking
  <2>7. CASE Reactivate(w)
    BY <2>4, <2>7 DEF Reactivate, Asking
  <2>8. CASE Decide(w) \/ DecideFree(w)
    <3>1. /\ UNCHANGED <<tenant, subs, events, initial, loaded>>
          /\ pc[w] \in Asking /\ pc'[w] \in Asking /\ held'[w] = 0 /\ held[w] = 0
          /\ pc[w] # "idle"
          /\ \A v \in Workers : v # w => pc'[v] = pc[v]
      BY <1>0, <2>8 DEF Decide, DecideFree, Carries, Asking
    <3>2. Later(held[w]) \/ loaded'[w] = tenant
      BY <2>2, <3>1 DEF UpToDate
    <3> QED BY <2>3, <3>1, <3>2
  <2>9. CASE ApplyFree(w)
    <3>1. /\ Done(w) /\ UNCHANGED <<initial, subs>> /\ pc[w] = "applyFree" /\ loaded[w].sub = 0
          /\ tenant' = Saved(w, InitialTenant(Free))
      BY <1>0, <2>9 DEF ApplyFree, Done, Carries
    <3>2. tenant'.sub = 0 /\ tenant'.plan = Free
      BY <3>1 DEF Saved, InitialTenant
    <3>3. held[w] = 0
      BY <1>0, <3>1 DEF Carries, Asking
    <3>4. loaded[w] = tenant /\ InSync => InSync'
      BY <3>1, <3>2 DEF InSync, Linked, Unlinked, Running, SubIds
    <3>5. Later(held[w]) \/ InSync'
      BY <2>2, <3>1, <3>3, <3>4 DEF UpToDate, Alone, Asking
    <3> QED BY <2>2, <3>1, <3>5, DoneAlone
  <2>10. CASE Refresh(w)
    <3>1. /\ UNCHANGED <<subs, events, initial, tenant, loaded, held>>
          /\ pc[w] = "refresh" /\ pc'[w] = "sync" /\ tenant.sub # 0 /\ snap'[w] = subs[tenant.sub]
          /\ \A v \in Workers : v # w => pc'[v] = pc[v]
      BY <1>0, <2>10 DEF Refresh
    <3>2. held[w] = 0
      BY <1>0, <3>1 DEF Carries
    <3>3. CASE Later(0)
      BY <2>2, <3>1, <3>2, <3>3, QuietAlone
    <3>4. CASE InSync
      <4>1. PICK i \in SubIds : Linked(i)
        BY <3>1, <3>4 DEF InSync, Unlinked
      <4>2. Running(i) /\ i = tenant.sub /\ subs[i].sub = i
        BY <4>1 DEF Linked, Inv, Shape, Running, Statuses
      <4>3. Brings(snap[w])'
        BY <3>1, <4>2 DEF Brings, Running
      <4>4. UpToDate(w)'
        BY <3>1, <3>2, <4>3 DEF UpToDate, Oldest, Asking
      <4> QED BY <2>2, <3>1, <4>4, QuietAlone
    <3> QED BY <2>2, <3>3, <3>4 DEF Alone
  <2>11. CASE RefreshNothing(w)
    <3>1. Done(w) /\ UNCHANGED <<tenant, initial, subs>> /\ pc[w] = "refresh"
      BY <2>11 DEF RefreshNothing, Done
    <3>2. InSync => InSync'
      BY <3>1 DEF InSync, Linked, Unlinked, Running
    <3>3. held[w] = 0
      BY <1>0, <3>1 DEF Carries
    <3>4. Later(held[w]) \/ InSync'
      BY <2>2, <3>2, <3>3 DEF Alone
    <3> QED BY <2>2, <3>1, <3>4, DoneAlone
  <2>12. ASSUME NEW c \in 1..MaxSubs, EnsureCustomer(w, c) PROVE Alone'
    <3>1. /\ UNCHANGED <<subs, events, initial, held, snap>>
          /\ pc[w] = "customer" /\ pc'[w] = "session"
          /\ tenant' = Saved(w, [loaded[w] EXCEPT !.customer = c])
          /\ loaded' = [loaded EXCEPT ![w].customer = c]
          /\ \A v \in Workers : v # w => pc'[v] = pc[v]
      BY <1>0, <2>12 DEF EnsureCustomer
    <3>2. held[w] = 0
      BY <1>0, <3>1 DEF Carries, Asking
    <3>3. \A at : Later(at)' <=> Later(at)
      BY <3>1 DEF Later, Applies
    <3>4. OneRuns' /\ Outstanding'
      BY <2>2, <3>1, <3>3 DEF Alone, OneRuns, Outstanding, LastWord, Brings, Running, Applies
    <3>5. \A v \in Workers : v # w => Knows(v)'
      BY <2>2, <3>1, OthersIdle, IdleKnows DEF Alone, Knows
    <3>6. CASE Later(held[w])
      <4>1. Knows(w)' /\ Later(0)'
        BY <3>1, <3>2, <3>6 DEF Knows, Later, Applies
      <4> QED BY <3>4, <3>5, <4>1 DEF Alone
    <3>7. CASE ~Later(held[w])
      <4>1. loaded[w] = tenant /\ InSync
        BY <2>2, <3>1, <3>2, <3>7 DEF UpToDate, Alone, Asking
      <4>2. tenant' = [tenant EXCEPT !.customer = c]
        BY <1>0, <3>1, <4>1 DEF Saved, Tenants
      <4>3. loaded'[w] = tenant'
        BY <1>0, <3>1, <4>1, <4>2
      <4>4. UpToDate(w)'
        BY <3>1, <3>2, <4>3 DEF UpToDate, Oldest, Asking
      <4>5. /\ tenant'.sub = tenant.sub /\ tenant'.plan = tenant.plan
            /\ tenant'.status = tenant.status
            /\ tenant'.ends = tenant.ends /\ tenant'.tstatus = tenant.tstatus
        BY <1>0, <4>2 DEF Tenants
      <4>6. InSync'
        BY <3>1, <4>1, <4>5 DEF InSync, Linked, Unlinked, Running
      <4>7. \A v \in Workers : Knows(v)'
        BY <3>5, <4>4 DEF Knows
      <4> QED BY <3>4, <4>6, <4>7 DEF Alone
    <3> QED BY <3>6, <3>7
  <2>13. ASSUME Over(w), pc[w] \in Asking, UNCHANGED <<tenant, subs, events, initial>> PROVE Alone'
    <3>1. /\ pc'[w] = "idle" /\ held'[w] = 0 /\ held[w] = 0 /\ pc[w] # "idle"
          /\ \A v \in Workers : v # w => pc'[v] = pc[v]
      BY <1>0, <2>13 DEF Over, Carries, Asking
    <3> QED BY <2>3, <2>13, <3>1 DEF Asking
  <2>14. ASSUME NEW starts \in {"trialing", "incomplete"}, CreateSession(w, starts) PROVE Alone'
    BY <2>13, <2>14 DEF CreateSession, Asking
  <2>15. CASE CheckRoom(w)
    BY <2>4, <2>15 DEF CheckRoom, Asking
  <2>16. CASE CreateAsset(w)
    BY <2>13, <2>16 DEF CreateAsset, Asking
  <2> QED BY <1>2, <2>5, <2>6, <2>7, <2>8, <2>9, <2>10, <2>11, <2>12, <2>14, <2>15, <2>16 DEF Serve
<1> QED BY <1>1, <1>2

LEMMA InitAlone ==
    ASSUME Init, Inv
    PROVE  Alone
<1>1. OneRuns /\ Outstanding /\ ~Overlapping
  BY NoneType DEF Init, OneRuns, Outstanding, Overlapping, AtWork, Running, Statuses
<1>2. InSync
  BY NoneType DEF Init, InSync, Unlinked, Running, Statuses, InitialTenant
<1>3. \A w \in Workers : Knows(w)
  BY DEF Init, Knows, UpToDate, Oldest, Asking
<1> QED BY <1>1, <1>2, <1>3 DEF Alone

\* Nothing that matters changes.
LEMMA StillAlone ==
    ASSUME Alone, UNCHANGED <<tenant, subs, events, initial, pc, held, loaded, snap>>
    PROVE  Alone'
<1>1. \A at : Later(at)' <=> Later(at)
  BY DEF Later, Applies
<1>2. OneRuns' /\ (InSync' \/ Later(0)') /\ ~Overlapping'
  BY <1>1 DEF Alone, OneRuns, InSync, Linked, Unlinked, Running, Overlapping, AtWork
<1>3. Outstanding'
  BY <1>1 DEF Alone, Outstanding, LastWord, Brings, Running, Applies
<1>4. \A w \in Workers : Knows(w)'
  BY <1>1 DEF Alone, Knows, UpToDate, Oldest, Brings, Running, Applies, Later
<1> QED BY <1>2, <1>3, <1>4 DEF Alone

LEMMA NextAlone ==
    ASSUME Inv, Inv', Grounds, Grounds', disturbed \/ Alone,
           [TracedNext]_<<vars, disturbed>>, ~disturbed'
    PROVE  Alone'
<1>1. CASE UNCHANGED <<vars, disturbed>>
  <2>1. UNCHANGED <<tenant, subs, events, initial, pc, held, loaded, snap>> /\ Alone
    BY <1>1 DEF vars
  <2> QED BY <2>1, StillAlone
<1>2. CASE TracedNext
  <2>1. /\ ~Overlapping' /\ ~Overtaking
        /\ \A i \in SubIds : NewWord(i) => ~Others(i)'
        /\ Alone \/ \E i \in SubIds : NewWord(i)
    BY <1>2 DEF TracedNext
  <2>2. CASE Stripe
    BY <2>1, <2>2, StripeAlone
  <2>3. CASE RemoveAsset \/ Tick
    <3>1. UNCHANGED <<tenant, subs, events, initial, pc, held, loaded, snap>>
      BY <2>3 DEF RemoveAsset, Tick, local, stripe, inHand
    <3>2. Alone
      BY <2>1, <3>1 DEF NewWord
    <3> QED BY <3>1, <3>2, StillAlone
  <2>4. ASSUME NEW w \in Workers, Handle(w) PROVE Alone'
    <3>1. subs' = subs
      BY <2>4 DEF Handle, Deliver, Fetch, FindTenant, NoTenant, SavePastDue, LoadForSync,
                  SaveSync, IgnoreIncomplete, Done, local, stripe
    <3>2. Alone
      BY <2>1, <3>1 DEF NewWord
    <3> QED BY <2>1, <2>4, <3>2, HandleAlone
  <2>5. ASSUME NEW w \in Workers, Serve(w) PROVE Alone'
    BY <2>1, <2>5, ServeAlone
  <2>6. ASSUME NEW w \in Workers, Fail(w) PROVE Alone'
    <3>1. /\ UNCHANGED <<tenant, subs, events, initial>>
          /\ pc[w] # "idle" /\ pc'[w] = "idle" /\ \A v \in Workers : v # w => pc'[v] = pc[v]
      BY <2>6 DEF Fail, Over, GoTo, local, stripe, Inv, TypeOK
    <3>2. Alone
      BY <2>1, <3>1 DEF NewWord
    <3> QED BY <2>1, <3>1, <3>2, IdleKnows, QuietAlone
  <2> QED BY <1>2, <2>2, <2>3, <2>4, <2>5, <2>6 DEF TracedNext, Next
<1> QED BY <1>1, <1>2

\* "The Stripe subscription is the source of truth" (billing-payments.service.ts:349):
\* when everything was handled, the tenant is what Stripe says, for any number of
\* handlers, in any order of events and whichever of them fail: all that excuses it is
\* what has disturbed the account since Stripe's last word on a subscription, that
\* handlers overlapped, an event overtook an older one, or a second subscription ran.
THEOREM FollowsStripesLastWord == TracedSpec => []FollowsLastWord
<1>1. TracedInit => Inv /\ Grounds /\ (disturbed \/ Alone)
  BY InitInv, InitGrounds, InitAlone DEF TracedInit
<1>2. Inv /\ Grounds /\ (disturbed \/ Alone) /\ [TracedNext]_<<vars, disturbed>>
      => (Inv /\ Grounds /\ (disturbed \/ Alone))'
  <2> SUFFICES ASSUME Inv, Grounds, disturbed \/ Alone, [TracedNext]_<<vars, disturbed>>
               PROVE  Inv' /\ Grounds' /\ (~disturbed' => Alone')
    OBVIOUS
  <2>1. [Next]_vars
    BY DEF TracedNext
  <2>2. Inv' /\ Grounds'
    BY <2>1, NextInv, NextGrounds
  <2> QED BY <2>2, NextAlone
<1>3. Inv /\ (disturbed \/ Alone) => FollowsLastWord
  <2> SUFFICES ASSUME Alone, Quiet PROVE FollowsStripe
    BY DEF FollowsLastWord, FollowsStripe
  <2>1. InSync
    BY DEF Alone, Later, Quiet
  <2> QED BY <2>1 DEF FollowsStripe, InSync, Linked, Unlinked
<1> QED BY <1>1, <1>2, <1>3, PTL DEF TracedSpec

-----------------------------------------------------------------------------
(* The grace. *)

\* Whoever is past due, in the store or in a handler's hands, has a day from which
\* the grace runs.
Dated(t) == t.status = "past_due" => t.since # 0

Started == clock >= 1 /\ Dated(tenant) /\ \A w \in Workers : Dated(loaded[w])

\* The ways in which the tenant changes, whatever the handler had loaded.
LEMMA StoredBy ==
    ASSUME Inv, Next
    PROVE  \/ tenant' = tenant
           \/ /\ UNCHANGED clock
              /\ \E w \in Workers :
                    /\ pc'[w] # pc[w]
                    /\ \/ /\ tenant'.status = "past_due"
                          /\ tenant'.since = IF loaded[w].since = 0 THEN clock ELSE loaded[w].since
                       \/ tenant'.status # "past_due"
                       \/ /\ tenant'.status = loaded[w].status
                          /\ tenant'.since = loaded[w].since
<1>0. /\ tenant \in Tenants /\ clock \in Nat /\ pc \in [Workers -> PCs]
      /\ \A w \in Workers : loaded[w] \in Tenants /\ snap[w] \in Snapshots
  BY DEF Inv, TypeOK
<1>1. CASE tenant' # tenant
  <2>1. PICK w \in Workers : \/ SavePastDue(w) \/ SaveSync(w) \/ ApplyFree(w)
                             \/ \E c \in 1..MaxSubs : EnsureCustomer(w, c)
    BY <1>1 DEF Next, Stripe, CompleteCheckout, Move, End, RemoveAsset, Tick, local,
         Handle, Deliver, Fetch, FindTenant, NoTenant, LoadForSync, IgnoreIncomplete,
         Serve, ChangePlan, Cancel, Reactivate, Request, Decide, DecideFree, PostCancel,
         PostReactivate, PostSwitch, Post, Refresh, RefreshNothing, CreateSession, CheckRoom,
         CreateAsset, Fail
  <2>2. UNCHANGED clock /\ pc'[w] # pc[w]
    BY <1>0, <2>1 DEF SavePastDue, SaveSync, ApplyFree, EnsureCustomer, Done, Over, GoTo
  <2>3. CASE SavePastDue(w)
    BY <1>0, <2>2, <2>3 DEF SavePastDue, Saved, Tenants
  <2>4. CASE SaveSync(w)
    <3>1. snap[w].status \notin {"none", "incomplete"}
      BY <2>4 DEF SaveSync, Inv, Shape, Handling, IsOf
    <3>2. tenant'.status = Synced(snap[w], loaded[w]).status
          /\ tenant'.since = Synced(snap[w], loaded[w]).since
      BY <1>0, <2>4, <3>1, SyncedType DEF SaveSync, Saved, Tenants
    <3> QED BY <1>0, <2>2, <3>2 DEF Synced
  <2>5. CASE ApplyFree(w)
    BY <1>0, <2>2, <2>5 DEF ApplyFree, Saved, InitialTenant
  <2>6. ASSUME NEW c \in 1..MaxSubs, EnsureCustomer(w, c)
        PROVE  tenant'.status = loaded[w].status /\ tenant'.since = loaded[w].since
    BY <1>0, <2>6 DEF EnsureCustomer, Saved, Tenants
  <2> QED BY <2>1, <2>2, <2>3, <2>4, <2>5, <2>6
<1> QED BY <1>1

\* What a handler has loaded was stored, or is about to be.
LEMMA LoadedFrom ==
    ASSUME Inv, Next, NEW w \in Workers
    PROVE  \/ loaded'[w] \in {loaded[w], tenant, InitialTenant(Free)}
           \/ loaded'[w].status = loaded[w].status /\ loaded'[w].since = loaded[w].since
<1>0. loaded \in [Workers -> Tenants]
  BY DEF Inv, TypeOK
<1>1. CASE Stripe \/ RemoveAsset \/ Tick
  BY <1>1 DEF Stripe, CompleteCheckout, Move, End, RemoveAsset, Tick, inHand
<1>2. ASSUME NEW v \in Workers, Handle(v)
      PROVE  loaded'[w] \in {loaded[w], tenant, InitialTenant(Free)}
  BY <1>0, <1>2 DEF Handle, Deliver, Fetch, FindTenant, NoTenant, SavePastDue, LoadForSync,
                    SaveSync, IgnoreIncomplete, Done, Over
<1>3. ASSUME NEW v \in Workers, Serve(v) \/ Fail(v)
      PROVE  \/ loaded'[w] \in {loaded[w], tenant, InitialTenant(Free)}
             \/ loaded'[w].status = loaded[w].status /\ loaded'[w].since = loaded[w].since
  <2>1. ASSUME NEW c \in 1..MaxSubs, EnsureCustomer(v, c)
        PROVE  loaded'[w].status = loaded[w].status /\ loaded'[w].since = loaded[w].since
    BY <1>0, <2>1 DEF EnsureCustomer, Tenants
  <2>2. ASSUME ~\E c \in 1..MaxSubs : EnsureCustomer(v, c)
        PROVE  loaded'[w] \in {loaded[w], tenant, InitialTenant(Free)}
    BY <1>0, <1>3, <2>2 DEF Serve, ChangePlan, Cancel, Reactivate, Request, Decide, DecideFree,
         ApplyFree, PostCancel, PostReactivate, PostSwitch, Post, Refresh, RefreshNothing,
         CreateSession, CheckRoom, CreateAsset, Fail, Done, Over, inHand
  <2> QED BY <2>1, <2>2
<1> QED BY <1>1, <1>2, <1>3 DEF Next

LEMMA ClockRuns ==
    ASSUME Inv, Next
    PROVE  clock' \in {clock, clock + 1}
<1>1. CASE Stripe \/ RemoveAsset \/ Tick
  BY <1>1 DEF Stripe, CompleteCheckout, Move, End, RemoveAsset, Tick
<1>2. ASSUME NEW w \in Workers, Handle(w) PROVE clock' = clock
  BY <1>2 DEF Handle, Deliver, Fetch, FindTenant, NoTenant, LoadForSync,
              IgnoreIncomplete, SaveSync, SavePastDue, Over, Done
<1>3. ASSUME NEW w \in Workers, Serve(w) \/ Fail(w) PROVE clock' = clock
  BY <1>3 DEF Serve, ChangePlan, Cancel, Reactivate, Request, Decide, DecideFree,
              ApplyFree, PostCancel, PostReactivate, PostSwitch, Post, Refresh, RefreshNothing,
              EnsureCustomer, CreateSession, CheckRoom, CreateAsset, Over, Done, Fail
<1> QED BY <1>1, <1>2, <1>3 DEF Next

LEMMA GraceNext ==
    ASSUME Inv, Started, [Next]_vars
    PROVE  Started' /\ [GraceStep]_vars
<1>0. /\ clock \in Nat /\ clock # 0 /\ tenant \in Tenants
      /\ \A w \in Workers : loaded[w] \in Tenants /\ Dated(loaded[w])
      /\ Dated(InitialTenant(Free)) /\ Dated(tenant)
  BY DEF Inv, TypeOK, Started, Dated, InitialTenant
<1>1. CASE UNCHANGED vars
  <2>1. UNCHANGED <<clock, tenant, loaded>>
    BY <1>1 DEF vars
  <2> QED BY <1>1, <2>1 DEF Started, Dated
<1>2. CASE Next
  <2>1. clock' >= 1
    BY <1>0, <1>2, ClockRuns
  <2>2. Dated(tenant')
    BY <1>0, <1>2, StoredBy DEF Dated
  <2>3. \A w \in Workers : Dated(loaded'[w])
    BY <1>0, <1>2, LoadedFrom DEF Dated
  <2>4. GraceStep
    BY <1>0, <1>2, StoredBy DEF GraceStep, Dated
  <2> QED BY <2>1, <2>2, <2>3, <2>4 DEF Started, Dated
<1> QED BY <1>1, <1>2

\* pastDueSince is "set when the first failed payment happened; drives the grace
\* period" (tenant.entity.ts:68): however events and requests meet, fail or come again,
\* it moves while the account stays past due only by a handler that had loaded the
\* account with another date and writes it back.
THEOREM GraceKept == Spec => GraceRunsOn
<1>1. Init => Started
  BY DEF Init, Started, Dated, InitialTenant
<1> QED BY <1>1, InitInv, NextInv, GraceNext, PTL DEF Spec, GraceRunsOn
=============================================================================
