-------------------------------- MODULE Pages --------------------------------
(***************************************************************************)
(* Facebook pages and the Instagram accounts linked to them: how an        *)
(* account connects one (connectPage), disconnects it (disconnect, the     *)
(* data deletion callback of Meta, IntegrationsService) and keeps Meta     *)
(* sending events (ensureInstagramRealtime and the re-subscriptions).      *)
(*                                                                         *)
(* What Meta sends is a matter of the page alone, whichever tenant asked;  *)
(* the records are each tenant's own.  Every await is a step.              *)
(***************************************************************************)
EXTENDS Naturals, FiniteSets

CONSTANTS
    Tenants, Places,   \* accounts of the product and their workspaces
    FacebookPages,     \* pages
    LinkOf,            \* the Instagram account of a page, or Nobody
    Nobody,
    UserOf,            \* the Facebook user who connects for a tenant
    Limit,             \* assets in the plan
    Requests,          \* requests at work at once
    PageScenes

Links  == {LinkOf[p] : p \in FacebookPages} \ {Nobody}
Assets == FacebookPages \cup Links
PageOf(a) == CHOOSE p \in FacebookPages : a \in {p, LinkOf[p]}

Luck == {"exchanges", "connects", "disconnects", "deletions", "rehooks", "records", "forgets", "refusals",
         "faults", "crashes", "expiries"}

VARIABLES
    accounts,          \* the SocialAccount of each tenant and asset
    subscribed, wired, \* at Meta: assets that send events, the app's Instagram webhook
    selection,         \* tenants with a pending selection of pages
    request, heal,     \* requests and the healing pass at work
    kept, listening,   \* what the last finished deletion left connected, and subscribed
    mixed, crowded, cut, apart, excused,  \* history
    luck

history   == <<mixed, crowded, cut, apart, excused>>
outcome   == <<kept, listening>>
meta      == <<subscribed, wired>>
pagesVars == <<accounts, meta, selection, request, heal, outcome, history, luck>>

Absent == [status |-> "none", active |-> FALSE, place |-> Nobody, by |-> Nobody, hooked |-> FALSE]
Rest   == [kind |-> "none", step |-> "rest", tenant |-> Nobody, on |-> Nobody, place |-> Nobody, link |-> FALSE,
           by |-> Nobody, hooked |-> FALSE, rest |-> {}, failed |-> FALSE]
Asleep == [step |-> "rest", rest |-> {}, on |-> <<Nobody, Nobody>>, ok |-> FALSE]

Connected(t, a) == accounts[t][a].status = "connected"

Init ==
    /\ luck \in PageScenes
    /\ accounts = [t \in Tenants |-> [a \in Assets |->
         IF <<t, a>> \in DOMAIN luck.before
         THEN [status |-> "connected", active |-> TRUE, place |-> luck.before[<<t, a>>], by |-> UserOf[t],
               hooked |-> a \in Links]
         ELSE Absent]]
    /\ subscribed = {a \in Assets : \E t \in Tenants : <<t, a>> \in DOMAIN luck.before}
    /\ wired = (subscribed \cap Links # {})
    /\ selection = {t \in Tenants : luck.before # <<>>}
    /\ request = [r \in Requests |-> Rest] /\ heal = Asleep
    /\ kept = {} /\ listening = {}
    /\ mixed = {} /\ crowded = {} /\ cut = {} /\ apart = {} /\ excused = {}

Spend(kind) == luck[kind] > 0 /\ luck' = [luck EXCEPT ![kind] = @ - 1]
Set(r, record) == request' = [request EXCEPT ![r] = record]
SetAccount(t, a, record) == accounts' = [accounts EXCEPT ![t][a] = record]

\* Requests at work on a page or its Instagram account; a deletion is at work on all.
On(p) == {r \in Requests : request[r].kind = "deletion" \/ (request[r].on # Nobody /\ PageOf(request[r].on) = p)}
\* A request on a page starts while another, or the healing pass, is at work on it.
Meet(p) == mixed' = IF On(p) # {} \/ heal.step # "rest" THEN mixed \cup {p} ELSE mixed

-----------------------------------------------------------------------------
(* Choosing a page. *)

\* exchangeToken: verifyOAuthState, the user's pages, createPendingPageSelection.
exchangeToken(t) ==
    /\ t \notin selection /\ Spend("exchanges")
    /\ selection' = selection \cup {t}
    /\ UNCHANGED <<accounts, meta, request, heal, outcome, history>>

\* Ten minutes pass.
Expire(t) ==
    /\ t \in selection /\ Spend("expiries")
    /\ selection' = selection \ {t}
    /\ UNCHANGED <<accounts, meta, request, heal, outcome, history>>

-----------------------------------------------------------------------------
(* connectPage. *)

Wanted(p, link) == IF link THEN {p, LinkOf[p]} ELSE {p}

\* Mutant of Elsewhere: only the Instagram account is looked at.
ElsewhereLink(t, p, link, w) ==
    \E a \in Wanted(p, link) \ {p} : accounts[t][a].active /\ Connected(t, a) /\ accounts[t][a].place # w

\* A page or Instagram account lives in exactly one workspace.
Elsewhere(t, p, link, w) ==
    \E a \in Wanted(p, link) : accounts[t][a].active /\ Connected(t, a) /\ accounts[t][a].place # w

Used(t) == Cardinality({a \in Assets : accounts[t][a].active})
New(t, p, link) == {a \in Wanted(p, link) : ~accounts[t][a].active}

\* assertCanAddConnectedAssets.
Fits(t, p, link) == New(t, p, link) = {} \/ Used(t) + Cardinality(New(t, p, link)) <= Limit

\* The selection is used but discarded only at the end.  The Instagram account, and who
\* the user is, are left out when Meta did not tell about them (getUserPages).
connectPage(r, t, p, w) ==
    /\ request[r] = Rest /\ t \in selection /\ Spend("connects")
    /\ \E link \in IF LinkOf[p] = Nobody THEN {FALSE} ELSE BOOLEAN, by \in {UserOf[t], Nobody} :
         /\ ~Elsewhere(t, p, link, w) /\ Fits(t, p, link)
         /\ Set(r, [Rest EXCEPT !.kind = "connect", !.step = "hook", !.tenant = t, !.on = p, !.place = w,
                                !.link = link, !.by = by])
    /\ Meet(p)
    /\ crowded' = IF \E k \in Requests : request[k].kind = "connect" /\ request[k].tenant = t
                  THEN crowded \cup {t} ELSE crowded
    /\ UNCHANGED <<accounts, meta, selection, heal, outcome, cut, apart, excused>>

\* Mutant of Subscribing: a refusal is logged and the page connected.
SubscribingAnyway(r) == "save"

\* subscribePageToWebhook throws when Meta refuses.
Subscribing(r) == "refused"

SubscribePage(r) ==
    /\ request[r].kind = "connect" /\ request[r].step = "hook"
    /\ \/ /\ subscribed' = subscribed \cup {request[r].on} /\ UNCHANGED luck
          /\ Set(r, [request[r] EXCEPT !.step = IF request[r].link THEN "hooklink" ELSE "save"])
       \/ /\ Spend("refusals") /\ UNCHANGED subscribed
          /\ Set(r, IF Subscribing(r) = "refused" THEN Rest ELSE [request[r] EXCEPT !.step = "save"])
    /\ UNCHANGED <<accounts, wired, selection, heal, outcome, history>>

\* The Instagram account may be refused: the connection goes on and notes it.
SubscribeLink(r) ==
    /\ request[r].step = "hooklink"
    /\ \/ /\ subscribed' = subscribed \cup {LinkOf[request[r].on]} /\ UNCHANGED luck
          /\ Set(r, [request[r] EXCEPT !.step = "save", !.hooked = TRUE])
       \/ Spend("refusals") /\ UNCHANGED subscribed /\ Set(r, [request[r] EXCEPT !.step = "save"])
    /\ wired' \in {wired, TRUE}
    /\ UNCHANGED <<accounts, selection, heal, outcome, history>>

Record(r, hooked) == [status |-> "connected", active |-> TRUE, place |-> request[r].place,
                      by |-> request[r].by, hooked |-> hooked]

UpsertPage(r) ==
    /\ request[r].kind = "connect" /\ request[r].step = "save"
    /\ SetAccount(request[r].tenant, request[r].on, Record(r, FALSE))
    /\ IF request[r].link
       THEN Set(r, [request[r] EXCEPT !.step = "savelink"]) /\ UNCHANGED selection
       ELSE Set(r, Rest) /\ selection' = selection \ {request[r].tenant}
    /\ UNCHANGED <<meta, heal, outcome, history, luck>>

UpsertLink(r) ==
    /\ request[r].step = "savelink"
    /\ SetAccount(request[r].tenant, LinkOf[request[r].on], Record(r, request[r].hooked))
    /\ Set(r, Rest) /\ selection' = selection \ {request[r].tenant}
    /\ UNCHANGED <<meta, heal, outcome, history, luck>>

-----------------------------------------------------------------------------
(* disconnect, alone or for every connection of a Facebook user. *)

disconnect(r, t, a) ==
    /\ request[r] = Rest /\ accounts[t][a] # Absent /\ Spend("disconnects")
    /\ Set(r, [Rest EXCEPT !.kind = "disconnect", !.step = "unhook", !.tenant = t, !.on = a])
    /\ Meet(PageOf(a))
    /\ UNCHANGED <<accounts, meta, selection, heal, outcome, crowded, cut, apart, excused>>

\* The active accounts whose record names the user.
Named(u) == {x \in Tenants \X Assets : accounts[x[1]][x[2]].active /\ accounts[x[1]][x[2]].by = u}

\* handleCallback: the accounts that name the user, one after the other.
handleCallback(r, u) ==
    /\ request[r] = Rest /\ Spend("deletions")
    /\ Set(r, [Rest EXCEPT !.kind = "deletion", !.step = "pick", !.by = u, !.rest = Named(u)])
    /\ mixed' = IF heal.step # "rest" \/ \E k \in Requests : request[k] # Rest THEN mixed \cup FacebookPages ELSE mixed
    /\ UNCHANGED <<accounts, meta, selection, heal, outcome, crowded, cut, apart, excused>>

PickNext(r) ==
    /\ request[r].step = "pick" /\ request[r].rest # {}
    /\ \E x \in request[r].rest :
         Set(r, [request[r] EXCEPT !.step = "unhook", !.tenant = x[1], !.on = x[2], !.rest = @ \ {x}])
    /\ UNCHANGED <<accounts, meta, selection, heal, outcome, history, luck>>

AfterOne(r) == IF request[r].kind = "deletion" THEN [request[r] EXCEPT !.step = "pick", !.on = Nobody] ELSE Rest

\* A page shared with another tenant falls silent for both.
Unsubscribe(r) ==
    /\ request[r].step = "unhook"
    /\ LET a == request[r].on
           t == request[r].tenant
           asks == accounts[t][a].status \in {"connected", "error"}
       IN \/ /\ asks /\ subscribed' = subscribed \ {a} /\ UNCHANGED luck
             /\ excused' = IF \E o \in Tenants \ {t} : Connected(o, a) THEN excused \cup {a} ELSE excused
          \/ asks /\ Spend("refusals") /\ UNCHANGED <<subscribed, excused>>
          \/ ~asks /\ UNCHANGED <<subscribed, excused, luck>>
    /\ Set(r, [request[r] EXCEPT !.step = "close"])
    /\ UNCHANGED <<accounts, wired, selection, heal, outcome, mixed, crowded, cut, apart>>

Closed(record) == [record EXCEPT !.status = "disconnected", !.active = FALSE]

\* A page takes its Instagram account along.
Follows(a) == a \in FacebookPages /\ LinkOf[a] # Nobody

CloseAccount(r) ==
    /\ request[r].step = "close"
    /\ SetAccount(request[r].tenant, request[r].on, Closed(accounts[request[r].tenant][request[r].on]))
    /\ Set(r, IF Follows(request[r].on) THEN [request[r] EXCEPT !.step = "closelink"] ELSE AfterOne(r))
    /\ UNCHANGED <<meta, selection, heal, outcome, history, luck>>

\* The linked account loses its token and stays subscribed.
CloseLink(r) ==
    /\ request[r].step = "closelink"
    /\ LET t == request[r].tenant
           g == LinkOf[request[r].on]
       IN IF Connected(t, g) THEN SetAccount(t, g, Closed(accounts[t][g])) ELSE UNCHANGED accounts
    /\ Set(r, AfterOne(r))
    /\ UNCHANGED <<meta, selection, heal, outcome, history, luck>>

\* The request is recorded as completed or failed.
Reported(r) == ~request[r].failed

FinishDeletion(r) ==
    /\ request[r].step = "pick" /\ request[r].rest = {}
    /\ IF Reported(r)
       THEN /\ kept' = Named(request[r].by)
            /\ listening' = {x \in Tenants \X Assets : accounts[x[1]][x[2]].by = request[r].by /\ x[2] \in subscribed}
       ELSE UNCHANGED outcome
    /\ Set(r, Rest)
    /\ UNCHANGED <<accounts, meta, selection, heal, history, luck>>

\* IntegrationsService.disconnect and remove change the record alone: that of a page
\* leaves its Instagram account as it is.
IntegrationsRecord(t, a) ==
    /\ accounts[t][a] # Absent /\ Spend("records")
    /\ \/ SetAccount(t, a, [accounts[t][a] EXCEPT !.status = "disconnected"])
       \/ SetAccount(t, a, Absent)
    /\ apart' = IF Follows(a) /\ Connected(t, LinkOf[a]) THEN apart \cup {a} ELSE apart
    /\ Meet(PageOf(a))
    /\ UNCHANGED <<meta, selection, request, heal, outcome, crowded, cut, excused>>

-----------------------------------------------------------------------------
(* Keeping the events coming. *)

\* resubscribeAllPages, resubscribeInstagramWebhook: connected ones are listed first.
Resubscribe(r, t, a) ==
    /\ request[r] = Rest /\ Connected(t, a) /\ (a \in Links => Connected(t, PageOf(a))) /\ Spend("rehooks")
    /\ Set(r, [Rest EXCEPT !.kind = "rehook", !.step = "rehook", !.tenant = t, !.on = a])
    /\ Meet(PageOf(a))
    /\ UNCHANGED <<accounts, meta, selection, heal, outcome, crowded, cut, apart, excused>>

Rehook(r) ==
    /\ request[r].step = "rehook"
    /\ \/ subscribed' = subscribed \cup {request[r].on} /\ UNCHANGED luck
       \/ Spend("refusals") /\ UNCHANGED subscribed
    /\ Set(r, Rest)
    /\ UNCHANGED <<accounts, wired, selection, heal, outcome, history>>

\* Meta drops a subscription, or the app's.
Forget ==
    /\ Spend("forgets")
    /\ \/ \E a \in subscribed : subscribed' = subscribed \ {a} /\ excused' = excused \cup {a} /\ UNCHANGED wired
       \/ wired' = FALSE /\ UNCHANGED <<subscribed, excused>>
    /\ UNCHANGED <<accounts, selection, request, heal, outcome, mixed, crowded, cut, apart>>

\* ensureInstagramRealtime: every hour, one at a time.
ensureInstagramRealtime ==
    /\ heal.step = "rest"
    /\ LET all == {x \in Tenants \X Links : Connected(x[1], x[2])}
       IN all # {} /\ heal' = [Asleep EXCEPT !.step = "each", !.rest = all]
    /\ \/ wired' = TRUE /\ UNCHANGED luck
       \/ Spend("refusals") /\ UNCHANGED wired
    /\ mixed' = mixed \cup {p \in FacebookPages : On(p) # {}}
    /\ UNCHANGED <<accounts, subscribed, selection, request, outcome, crowded, cut, apart, excused>>

\* Mutant of Missing: an account that was found subscribed once is passed over.
MissingUnnoted(x) == ~accounts[x[1]][x[2]].hooked

\* Meta is asked what the account is subscribed to.
Missing(x) == x[2] \notin subscribed

HealOne ==
    /\ heal.step = "each" /\ heal.rest # {}
    /\ \E x \in heal.rest :
         \/ /\ subscribed' = IF Missing(x) THEN subscribed \cup {x[2]} ELSE subscribed
            /\ heal' = [step |-> "note", rest |-> heal.rest \ {x}, on |-> x, ok |-> TRUE] /\ UNCHANGED luck
         \/ /\ Spend("refusals") /\ UNCHANGED subscribed
            /\ heal' = [step |-> "note", rest |-> heal.rest \ {x}, on |-> x, ok |-> FALSE]
    /\ UNCHANGED <<accounts, wired, selection, request, outcome, history>>

HealNote ==
    /\ heal.step = "note"
    /\ accounts' = IF accounts[heal.on[1]][heal.on[2]] = Absent THEN accounts
                   ELSE [accounts EXCEPT ![heal.on[1]][heal.on[2]].hooked = heal.ok]
    /\ heal' = [heal EXCEPT !.step = "each", !.on = <<Nobody, Nobody>>]
    /\ UNCHANGED <<meta, selection, request, outcome, history, luck>>

HealEnds ==
    /\ heal.step = "each" /\ heal.rest = {} /\ heal' = Asleep
    /\ UNCHANGED <<accounts, meta, selection, request, outcome, history, luck>>

-----------------------------------------------------------------------------
\* A database call of a request fails; a deletion goes on with the next account.
FailRequest(r) ==
    /\ request[r].on # Nobody /\ Spend("faults")
    /\ cut' = cut \cup {PageOf(request[r].on)}
    /\ Set(r, IF request[r].kind = "deletion" THEN [AfterOne(r) EXCEPT !.failed = TRUE] ELSE Rest)
    /\ UNCHANGED <<accounts, meta, selection, heal, outcome, mixed, crowded, apart, excused>>

\* The process restarts: requests, the healing pass and pending selections are lost.
Restart ==
    /\ Spend("crashes")
    /\ cut' = cut \cup {PageOf(request[r].on) : r \in {k \in Requests : request[k].on # Nobody}}
    /\ request' = [r \in Requests |-> Rest] /\ heal' = Asleep /\ selection' = {}
    /\ UNCHANGED <<accounts, meta, outcome, mixed, crowded, apart, excused>>

Step(r) == \/ SubscribePage(r) \/ SubscribeLink(r) \/ UpsertPage(r) \/ UpsertLink(r)
           \/ PickNext(r) \/ Unsubscribe(r) \/ CloseAccount(r) \/ CloseLink(r) \/ FinishDeletion(r) \/ Rehook(r)

Heal == HealOne \/ HealNote \/ HealEnds

Next ==
    \/ Forget \/ Restart \/ ensureInstagramRealtime \/ Heal
    \/ \E t \in Tenants : exchangeToken(t) \/ Expire(t)
    \/ \E t \in Tenants, a \in Assets : IntegrationsRecord(t, a)
    \/ \E r \in Requests : \/ Step(r) \/ FailRequest(r)
                           \/ \E t \in Tenants, a \in Assets : disconnect(r, t, a) \/ Resubscribe(r, t, a)
                           \/ \E t \in Tenants, p \in FacebookPages, w \in Places : connectPage(r, t, p, w)
                           \/ \E t \in Tenants : handleCallback(r, UserOf[t])

\* The hour comes round and a pass that runs gets on.
Fairness == WF_pagesVars(ensureInstagramRealtime) /\ WF_pagesVars(Heal)

PagesSpec == Init /\ [][Next]_pagesVars /\ Fairness

-----------------------------------------------------------------------------
(* Properties. *)

\* Pages whose pair may be broken: requests met on it, a request on it failed half way, or
\* IntegrationsService closed or removed its record while its Instagram account stayed.
Broken == mixed \cup cut \cup apart

\* A connected page and its connected Instagram account are in one workspace, unless the
\* pair is broken in one of these ways (connectPage).
PairInOnePlace ==
    \A t \in Tenants, p \in FacebookPages \ Broken :
        LinkOf[p] # Nobody /\ Connected(t, p) /\ Connected(t, LinkOf[p])
        => accounts[t][p].place = accounts[t][LinkOf[p]].place

\* A tenant has no more assets than his plan allows, unless two connections met
\* between the count and the record (assertCanAddConnectedAssets).
AssetsWithinPlan == \A t \in Tenants \ crowded : Used(t) <= Limit

\* A connected page, and an Instagram account the interface calls subscribed, gets its
\* events, unless another tenant ended them, Meta forgot, two requests met on the page or
\* one failed half way.  IntegrationsService is no excuse.
ConnectedIsSubscribed ==
    \A t \in Tenants, a \in Assets :
        Connected(t, a) /\ (a \in Links => accounts[t][a].hooked)
        => a \in subscribed \/ a \in excused \/ PageOf(a) \in mixed \cup cut \/ \E r \in On(PageOf(a)) : TRUE

\* No Instagram account stays connected after its page was disconnected, unless requests
\* met on it, a request failed half way, or IntegrationsService took the page alone.
PairGoesTogether ==
    \A t \in Tenants, p \in FacebookPages :
        accounts[t][p].status = "disconnected" /\ LinkOf[p] # Nobody
        => ~Connected(t, LinkOf[p]) \/ p \in Broken \/ \E r \in On(p) : TRUE

\* A deletion reported as completed left no active account whose record names the user,
\* unless requests met it (handleCallback).  Nothing is said of accounts that do not name
\* him because Meta did not tell who he was when they were connected: they stay.
DeletionHonoured == kept # {} => mixed # {}

\* Instagram accounts that are connected and get no events.
Deaf == {t \in Tenants : \E g \in Links : Connected(t, g) /\ ~(g \in subscribed /\ wired)}

\* Connected Instagram accounts get their events again in the end, whatever Meta
\* dropped or refused (ensureInstagramRealtime).
HealsInTheEnd == Deaf # {} ~> Deaf = {}

\* After a deletion "tokens are erased and webhooks unsubscribed": they are not.
NothingListens == listening # {} => mixed \cup cut # {}

\* Every variable keeps its type.
TypeOK ==
    /\ \A t \in Tenants, a \in Assets : accounts[t][a].status \in {"none", "connected", "disconnected"}
    /\ subscribed \subseteq Assets /\ wired \in BOOLEAN /\ selection \subseteq Tenants
    /\ mixed \cup cut \cup apart \subseteq FacebookPages /\ crowded \subseteq Tenants
    /\ kept \subseteq Tenants \X Assets /\ listening \subseteq Tenants \X Assets

\* A page and its Instagram account come and go together, to one workspace, where requests
\* did not meet, none failed half way and IntegrationsService did not take the page alone;
\* a tenant whose connections came one at a time is within his plan.
ConnectionsInOrder == TypeOK /\ PairInOnePlace /\ PairGoesTogether /\ AssetsWithinPlan

\* The records agree with Meta: what they call connected is subscribed there, and a
\* deletion reported as completed left nothing that names the user.
MetaAgrees == ConnectedIsSubscribed /\ DeletionHonoured
=============================================================================
