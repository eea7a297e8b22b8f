--------------------------- MODULE MCWatchers ---------------------------
(* A small instance of what watches a tenant from outside: the comments of    *)
(* his page (Comments), its connection to Meta (Pages) and the clock          *)
(* (Reminders).  The first two meet only in the account record, the third     *)
(* shares no state.  In a behaviour one of them is at work: part says which.  *)
EXTENDS Comments, TLC

CONSTANTS
    f1, f2, g1, g2, fr, gr, pa, pb, pc,     \* comments and replies, their authors
    t1, t2, u1, u2, w1, w2, fp, fq, ig, Nobody, \* tenants, users, workspaces, pages
    Tenants, Places, FacebookPages, LinkOf, UserOf, Limit, Requests,
    Tasks, Batch, Accounts, Nothing,        \* tasks, those of one pass, accounts with a trial
    PageScenes, ClockScenes, Parts

VARIABLES
    accounts, subscribed, wired, selection, request, heal, kept, listening, mixed, crowded, cut, apart, excused, luck,
    tasks, pass, tenants, round, told, repeated, mailed, remailed, rearmed, blurred, paid, undone, turn,
    part

TheAuthor == f1 :> pa @@ f2 :> pb @@ g1 :> pc @@ g2 :> pc @@ fr :> Page @@ gr :> Page
TheLink   == fp :> ig @@ fq :> Nobody
TheUser   == t1 :> u1 @@ t2 :> u2

P == INSTANCE Pages

R == INSTANCE Reminders

Budget(kinds, f) == [k \in kinds |-> IF k \in DOMAIN f THEN f[k] ELSE 0]

-----------------------------------------------------------------------------
\* A failing save; two deliveries and a poll by hand; a comment that leaves the list;
\* replies; a crash; a revoked page; two comments of one person on Instagram; a reply
\* deleted.
Written(w, b) == Budget(Chances, b) @@ [written |-> w]
AllComments == {
    Written({f1, f2}, [faults |-> 1]),
    Written({f1}, [deliveries |-> 2, syncs |-> 1]),
    Written({f1}, [deliveries |-> 1, burials |-> 1]),
    Written({f1, f2}, [replies |-> 1]),
    Written({f1}, [replies |-> 1, deliveries |-> 1, crashes |-> 1]),
    Written({f1}, [revocations |-> 1, deliveries |-> 1]),
    Written({g1, g2}, [deliveries |-> 1]),
    Written({g1}, [deliveries |-> 1, replies |-> 1, deletions |-> 1])}
OnePerson   == {Written({g1, g2}, [deliveries |-> 1])}
OneReply    == {Written({f1, f2}, [replies |-> 1])}

-----------------------------------------------------------------------------
\* A first page, a second one; pages disconnected, deleted by Meta, hooked again, recorded as gone,
\* connected again; a first page and a deletion.
LuckKinds == {"exchanges", "connects", "disconnects", "deletions", "rehooks", "records", "forgets", "refusals",
              "faults", "crashes", "expiries"}
Paged(w, b) == Budget(LuckKinds, b) @@ [before |-> w]
Both   == <<t1, fp>> :> w1 @@ <<t1, ig>> :> w1
AllPages == {
    Paged(<<>>, [exchanges |-> 1, connects |-> 2, refusals |-> 1]),
    Paged(<<t1, fq>> :> w1, [connects |-> 1, refusals |-> 1]),
    Paged(Both, [disconnects |-> 1, forgets |-> 1, refusals |-> 1]),
    Paged(Both, [connects |-> 1, disconnects |-> 1]),
    Paged(Both @@ <<t2, fp>> :> w1, [disconnects |-> 1, rehooks |-> 1]),
    Paged(Both, [deletions |-> 1, faults |-> 1, refusals |-> 1]),
    Paged(<<t1, fp>> :> w1, [connects |-> 1, crashes |-> 1, expiries |-> 1, faults |-> 1]),
    Paged(Both, [records |-> 1, disconnects |-> 1, crashes |-> 1]),
    Paged(Both, [records |-> 1, connects |-> 1]),
    Paged(<<>>, [exchanges |-> 1, connects |-> 1, deletions |-> 1])}
Deletion == {Paged(Both, [disconnects |-> 1, deletions |-> 1])}

-----------------------------------------------------------------------------
TurnKinds == {"edits", "rearms", "hours", "payments", "days", "faults", "crashes", "dailies"}
Clocked(boots, due, trial, b) ==
    Budget(TurnKinds, b) @@
    [boots |-> boots, tasks |-> [k \in {"k1", "k2", "k3"} |-> [status |-> "open", due |-> due[k], reminded |-> FALSE]],
     tenants |-> trial]
Never    == [k \in {"k1", "k2", "k3"} |-> "none"]
SoonOrSo == [Never EXCEPT !["k1"] = "soon", !["k2"] = "soon", !["k3"] = "later"]
Account(trial, marked, old) ==
    [status |-> "trialing", trial |-> trial, graces |-> 0, notices |-> {}, marked |-> marked, old |-> old, stripe |-> FALSE]
Accounts2(x, y) == [a \in {"a1", "a2"} |-> IF a = "a1" THEN x ELSE y]
Paying   == [Account("running", TRUE, FALSE) EXCEPT !.status = "active"]
Settled  == Accounts2(Paying, Paying)
Ending   == Accounts2(Account("ending", TRUE, FALSE), Account("over", FALSE, TRUE))
\* Tasks edited, armed again, under a crash or a fault; a start with an account of
\* old; one with a payment; two days of notices.
AllClocks == {
    Clocked(FALSE, SoonOrSo, Settled, [edits |-> 1, rearms |-> 1, hours |-> 1]),
    Clocked(FALSE, SoonOrSo, Settled, [rearms |-> 1, hours |-> 1, crashes |-> 1]),
    Clocked(FALSE, SoonOrSo, Settled, [hours |-> 1, faults |-> 1]),
    Clocked(TRUE, Never, Accounts2(Account("over", FALSE, TRUE), Account("running", TRUE, FALSE)), [days |-> 2, crashes |-> 1]),
    Clocked(TRUE, Never, Ending, [payments |-> 1, dailies |-> 1, faults |-> 1]),
    Clocked(TRUE, Never, Ending, [days |-> 1, dailies |-> 2])}
Rearmed == {Clocked(FALSE, SoonOrSo, Settled, [rearms |-> 1, hours |-> 1])}
Daily   == {Clocked(TRUE, Never, Ending, [dailies |-> 1])}
\* Who registered lately, whose trial ended, when the program starts again.
Lately  == {Clocked(TRUE, Never, Accounts2(Account("over", FALSE, FALSE), Paying), [crashes |-> 1])}

-----------------------------------------------------------------------------
\* An Instagram account is linked to one page.  Accounts begin within their plan, each
\* Instagram account with its page, in one workspace.
ASSUME PagesAssumption ==
    /\ IsFiniteSet(FacebookPages) /\ Limit \in Nat /\ Nobody \notin FacebookPages
    /\ \A p \in FacebookPages : LinkOf[p] \notin FacebookPages
    /\ \A p, q \in FacebookPages : LinkOf[p] = LinkOf[q] /\ LinkOf[p] # Nobody => p = q
    /\ \A scene \in PageScenes :
         /\ \A x \in DOMAIN scene.before : x \in Tenants \X P!Assets /\ scene.before[x] \in Places
         /\ \A t \in Tenants, p \in FacebookPages : <<t, LinkOf[p]>> \in DOMAIN scene.before =>
               <<t, p>> \in DOMAIN scene.before /\ scene.before[<<t, LinkOf[p]>>] = scene.before[<<t, p>>]
         /\ \A t \in Tenants : Cardinality({a \in P!Assets : <<t, a>> \in DOMAIN scene.before}) <= Limit

\* Tasks begin without a reminder, accounts without a notice or a grace period.
ASSUME ClocksAssumption ==
    /\ Nothing \notin Tasks \cup Accounts
    /\ \A scene \in ClockScenes :
         /\ scene.boots \in BOOLEAN
         /\ scene.tasks \in [Tasks -> [status : {"open"}, due : {"none", "later", "soon"}, reminded : {FALSE}]]
         /\ scene.tenants \in [Accounts -> [status : {"trialing", "active", "past_due"},
                                           trial : {"running", "ending", "over"}, graces : {0}, notices : {{}},
                                           marked : BOOLEAN, old : BOOLEAN, stripe : BOOLEAN]]

-----------------------------------------------------------------------------
pageVars == <<accounts, subscribed, wired, selection, request, heal, kept, listening, mixed, crowded, cut, apart, excused, luck>>
turnVars == <<tasks, pass, tenants, round, told, repeated, mailed, remailed, rearmed, blurred, paid, undone, turn>>

\* A part that is not at work has one scene.
MCInit ==
    /\ Init /\ P!Init /\ R!Init /\ part \in Parts
    /\ part # "comments" => chances = CHOOSE scene \in CommentScenes : TRUE
    /\ part # "pages" => luck = CHOOSE scene \in PageScenes : TRUE
    /\ part # "clock" => turn = CHOOSE scene \in ClockScenes : TRUE

Commenting == part = "comments" /\ Next   /\ UNCHANGED <<pageVars, turnVars, part>>
Connecting == part = "pages"    /\ P!Next /\ UNCHANGED <<commentVars, turnVars, part>>
Reminding  == part = "clock"    /\ R!Next /\ UNCHANGED <<commentVars, pageVars, part>>
MCNext == Commenting \/ Connecting \/ Reminding

\* The fairness of the part at work.
MCFairness ==
    /\ WF_commentVars(part = "comments" /\ autoSyncComments)
    /\ \A j \in Jobs : WF_commentVars(part = "comments" /\ Work(j))
    /\ WF_pageVars(part = "pages" /\ P!ensureInstagramRealtime)
    /\ WF_pageVars(part = "pages" /\ P!Heal)
    /\ WF_turnVars(part = "clock" /\ R!Passing)

MCSpec == MCInit /\ [][MCNext]_<<commentVars, pageVars, turnVars, part>> /\ MCFairness

-----------------------------------------------------------------------------
\* What Meta forgot is subscribed again (ensureInstagramRealtime).
HealsInTheEnd == P!HealsInTheEnd
\* After a deletion no webhook stays subscribed: it may.
NothingListens == P!NothingListens

\* A task that falls due is told of.
DueIsTold == R!DueIsTold
\* A new date is told of, whenever it was given.
NewDateIsTold == R!NewDateIsTold
\* A notice is mailed once, whatever overlaps.
NoticeOnceAlways == R!NoticeOnceAlways
\* Only accounts from before billing get a grace period.
GraceIsForLegacy == R!GraceIsForLegacy

\* Pages and their Instagram accounts come and go together, unless requests met, one failed
\* half way, or IntegrationsService took the page alone (connectPage, disconnect).
ConnectionsInOrder == P!ConnectionsInOrder
\* What the records say of subscriptions is so at Meta, and a completed deletion left
\* nothing that names the user.
MetaAgrees == P!MetaAgrees
\* Rounds that come again do nothing twice (tick, checkTenant, migrateLegacyTenants).
RoundsInOrder == R!RoundsInOrder
=============================================================================
