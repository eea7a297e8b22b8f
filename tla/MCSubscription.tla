--------------------------- MODULE MCSubscription ---------------------------
(* Small instances of Subscription: two plans of one and two assets, with     *)
(* what has come between Stripe's last word on a subscription and its copy:   *)
(* handlers that overlapped, an event that overtook an older one, or another  *)
(* subscription running at the same time.                                     *)
EXTENDS Subscription, FiniteSets, TLC

CONSTANTS free, starter, pro, w1, w2

VARIABLES disturbed, scene

Assets == [p \in Plans |-> CASE p = free -> 1 [] p = starter -> 2 [] p = pro -> 3]

AtWork(w) == pc[w] # "idle"

Overlapping == \E v, w \in Workers : v # w /\ AtWork(v) /\ AtWork(w)

\* A handler takes an event while an older one is still to be handled.
Overtaking == \E w \in Workers : ~AtWork(w) /\ \E e \in events : e.at < held'[w]

\* Stripe has something new to say of a subscription (an incomplete one is passed over).
NewWord(i) == subs'[i] # subs[i] /\ subs'[i].status # "incomplete"
Others(i)  == \E j \in SubIds \ {i} : Running(j)

TracedInit == Init /\ disturbed = FALSE

TracedNext ==
    /\ Next
    /\ disturbed' = \/ Overlapping' \/ Overtaking
                    \/ \E i \in SubIds : NewWord(i) /\ Others(i)'
                    \/ disturbed /\ \A i \in SubIds : ~NewWord(i)

TracedSpec == TracedInit /\ [][TracedNext]_<<vars, disturbed>>

-----------------------------------------------------------------------------
(* The bounds of the run. *)

Scenes == {"changes", "second", "overlap", "usage"}

\* One handler at a time, with changes at Stripe of one subscription, or of two that run
\* together and one of which ends; two handlers at a time and an account that starts on
\* trial; one at a time and an account that fills its plan.
Bounded ==
    CASE scene = "changes" -> ~Overlapping' /\ emitted' <= 9 /\ usage' = usage /\ requests' <= 2
      [] scene = "second"  -> /\ ~Overlapping' /\ usage' = usage /\ clock' = clock /\ requests' <= 2
                              /\ Cardinality(events') <= 2
      [] scene = "overlap" -> emitted' <= 6 /\ requests' <= 2 /\ usage' = usage /\ clock' = clock
      [] scene = "usage"   -> ~Overlapping' /\ emitted' <= 6 /\ clock' = clock

MCInit == TracedInit /\ scene \in Scenes /\ (scene \in {"second", "overlap"} => initial # Free)
MCNext == TracedNext /\ Bounded /\ UNCHANGED scene
MCSpec == MCInit /\ [][MCNext]_<<vars, disturbed, scene>>

\* The same within the bounds of the constants alone.
UnboundedNext == TracedNext /\ UNCHANGED scene
UnboundedSpec == MCInit /\ [][UnboundedNext]_<<vars, disturbed, scene>>

-----------------------------------------------------------------------------
\* "The Stripe subscription is the source of truth" (billing-payments.service.ts:349):
\* when everything Stripe said was handled, the tenant is what Stripe says, unless since
\* Stripe's last word handlers overlapped, an event overtook an older one, or a second
\* subscription ran.  What went wrong before that word is put right by it.
FollowsLastWord == ~disturbed => FollowsStripe
=============================================================================
