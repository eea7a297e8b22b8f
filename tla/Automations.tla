----------------------------- MODULE Automations -----------------------------
(***************************************************************************)
(* The rules of an account (AutomationEngineService), and the leads and    *)
(* deals they and the users make (LeadsService, DealsService).  An event   *)
(* on the bus starts a handler of its own beside whoever emitted it, which *)
(* goes through the rules it found when it began.  Every await that        *)
(* decides or writes something is a step.                                  *)
(***************************************************************************)
EXTENDS Naturals, FiniteSets, Sequences

CONSTANTS
    Rules,             \* 1..n, in the order of their creation
    TriggerOf,         \* what starts a rule
    ActionsOf,         \* its actions: what each does, and of UPDATE_STATUS what it sets
    Conversations, Posts,   \* all of them, and those that are comments
    PersonOf,          \* the contact of a conversation
    Nobody,
    Leads, Deals,      \* 1..n, in the order of their creation
    MaxDepth,          \* MAX_AUTOMATION_DEPTH
    Plans,             \* how many rules the plans run
    Handlers, Users,   \* events and requests at work at once
    RuleScenes

People == {PersonOf[c] : c \in Conversations}
Means  == {"messages", "leads", "conversions", "moves", "edits", "expiries", "plans", "toggles", "faults", "crashes"}

VARIABLES
    active, limit,     \* the active rules, and how many the plan runs
    runs,              \* rules and conversations with a run within the cooldown
    leads, deals,
    work,              \* events at work
    user,              \* requests at work
    answered, twice,   \* replies since the cooldown began, and the pairs with two
    ran,               \* rules that acted for an event since rules or plan changed
    heard,             \* the stage of each deal that the last event told
    mingled, unrecorded, hurried, clashed, untold,  \* history
    means

rulebook       == <<active, limit>>
crm            == <<leads, deals>>
replies        == <<runs, answered, twice>>
excuses        == <<mingled, unrecorded, hurried, clashed, untold>>
automationVars == <<rulebook, crm, replies, work, user, ran, heard, excuses, means>>

NoLead == [status |-> "none", person |-> Nobody, hops |-> 0]
NoDeal == [stage |-> "none", person |-> Nobody, lead |-> 0, by |-> "none"]
Idle   == [step |-> "rest", trigger |-> "none", conversation |-> Nobody, person |-> Nobody, lead |-> 0, deal |-> 0,
           depth |-> 0, hops |-> 0, todo |-> {}, acts |-> <<>>, ok |-> FALSE, said |-> FALSE, fresh |-> FALSE]
Away   == [kind |-> "none", on |-> 0, before |-> "none", after |-> "none"]

Init ==
    /\ means \in RuleScenes
    /\ active = means.before /\ limit = Cardinality(Rules)
    /\ leads = [l \in Leads |-> NoLead] /\ deals = [d \in Deals |-> NoDeal]
    /\ work = [j \in Handlers |-> Idle] /\ user = [u \in Users |-> Away]
    /\ runs = {} /\ answered = {} /\ twice = {} /\ ran = {}
    /\ heard = [d \in Deals |-> "none"]
    /\ mingled = {} /\ unrecorded = {} /\ hurried = {} /\ clashed = {} /\ untold = {}

Spend(kind) == means[kind] > 0 /\ means' = [means EXCEPT ![kind] = @ - 1]
Put(j, record) == work' = [work EXCEPT ![j] = record]

New(f) == CHOOSE x \in DOMAIN f : f[x] \in {NoLead, NoDeal} /\ \A y \in DOMAIN f : f[y] \in {NoLead, NoDeal} => x <= y
Room(f) == \E x \in DOMAIN f : f[x] \in {NoLead, NoDeal}

\* An event on the bus, once some rule may listen to it; a free handler of table takes it.
Heard(trigger) == \E r \in Rules : TriggerOf[r] = trigger
Event(trigger, c, p, l, d, depth, hops) ==
    [Idle EXCEPT !.step = "start", !.trigger = trigger, !.conversation = c, !.person = p, !.lead = l, !.deal = d,
                 !.depth = depth, !.hops = hops, !.fresh = TRUE]
Emit(table, event) ==
    IF Heard(event.trigger)
    THEN LET j == CHOOSE k \in Handlers : table[k] = Idle IN [table EXCEPT ![j] = event]
    ELSE table
Slot(n) == Cardinality({j \in Handlers : work[j] = Idle}) >= n

-----------------------------------------------------------------------------
(* Events of the world. *)

\* A message is stored and heard.
MessageReceived(c) ==
    /\ Slot(1) /\ Spend("messages")
    /\ work' = Emit(work, Event("message", c, PersonOf[c], 0, 0, 0, 0))
    /\ mingled' = IF \E j \in Handlers : work[j].trigger = "message" /\ work[j].conversation = c
                  THEN mingled \cup {c} ELSE mingled
    /\ UNCHANGED <<rulebook, crm, replies, user, ran, heard, unrecorded, hurried, clashed, untold>>

\* A lead of the contact that is new, contacted or qualified.
OpenLead(p) == \E l \in Leads : leads[l].status = "open" /\ leads[l].person = p

\* Somebody opens a lead of contact p who has one, or for whom a rule found none just now.
Crowded(p) == OpenLead(p) \/ \E j \in Handlers : work[j].step = "lead" /\ work[j].person = p
Opens(p)   == hurried' = IF Crowded(p) THEN hurried \cup {p} ELSE hurried

\* LeadsService.create, which looks for no open lead.
createLead(p) ==
    /\ Room(leads) /\ Slot(1) /\ Spend("leads")
    /\ leads' = [leads EXCEPT ![New(leads)] = [status |-> "open", person |-> p, hops |-> 0]]
    /\ work' = Emit(work, Event("lead", Nobody, p, New(leads), 0, 0, 0))
    /\ Opens(p)
    /\ UNCHANGED <<rulebook, deals, replies, user, ran, heard, mingled, unrecorded, clashed, untold>>

\* A lead that is there is given a status.
SetLead(l, status) ==
    /\ leads' = [leads EXCEPT ![l].status = status]
    /\ IF status = "open" /\ leads[l].status # "open" THEN Opens(leads[l].person) ELSE UNCHANGED hurried

\* LeadsService.update and remove.
editLead(l, status) ==
    /\ leads[l].status \notin {"none", "gone"} /\ Spend("edits")
    /\ SetLead(l, status)
    /\ UNCHANGED <<rulebook, deals, replies, work, user, ran, heard, mingled, unrecorded, clashed, untold>>

\* DealsService.remove.
removeDeal(d) ==
    /\ deals[d].stage \notin {"none", "gone"} /\ Spend("edits")
    /\ deals' = [deals EXCEPT ![d].stage = "gone"]
    /\ UNCHANGED <<rulebook, leads, replies, work, user, ran, heard, excuses>>

\* AutomationsService.update of isActive, and remove.
toggle(r) ==
    /\ Spend("toggles")
    /\ active' = IF r \in active THEN active \ {r} ELSE active \cup {r}
    /\ ran' = {} /\ work' = [j \in Handlers |-> [work[j] EXCEPT !.fresh = FALSE]]
    /\ UNCHANGED <<limit, crm, replies, user, heard, excuses>>

\* The account changes its plan.
changePlan(n) ==
    /\ Spend("plans")
    /\ limit' = n
    /\ ran' = {} /\ work' = [j \in Handlers |-> [work[j] EXCEPT !.fresh = FALSE]]
    /\ UNCHANGED <<active, crm, replies, user, heard, excuses>>

\* The cooldown of a rule ends in a conversation.
CooldownEnds(pair) ==
    /\ pair \in runs /\ Spend("expiries")
    /\ runs' = runs \ {pair} /\ answered' = answered \ {pair}
    /\ UNCHANGED <<rulebook, crm, twice, work, user, ran, heard, excuses>>

-----------------------------------------------------------------------------
(* The engine. *)

\* eligibleAutomations: active rules of the trigger among the oldest the plan runs.
Allowed(trigger) ==
    {r \in active : TriggerOf[r] = trigger /\ Cardinality({s \in active : s < r}) < limit}

TooDeep(depth) == depth >= MaxDepth

\* process.
Start(j) ==
    /\ work[j].step = "start"
    /\ IF TooDeep(work[j].depth) \/ Allowed(work[j].trigger) = {} THEN Put(j, Idle)
       ELSE Put(j, [work[j] EXCEPT !.step = "next", !.todo = Allowed(work[j].trigger)])
    /\ UNCHANGED <<rulebook, crm, replies, user, ran, heard, excuses, means>>

\* The rules are taken in the order of their creation.
Rule(j) == CHOOSE r \in work[j].todo : \A s \in work[j].todo : r <= s
Left(j) == work[j].todo \ {Rule(j)}
Pair(j) == <<Rule(j), work[j].conversation>>

\* Mutant of Cooling: runs are not looked at.
CoolingNever(j) == FALSE

\* inCooldown.
Cooling(j) == work[j].trigger = "message" /\ Pair(j) \in runs

NextRule(j) ==
    /\ work[j].step = "next"
    /\ IF work[j].todo = {} THEN Put(j, Idle) /\ UNCHANGED ran
       ELSE IF Cooling(j) THEN Put(j, [work[j] EXCEPT !.todo = Left(j)]) /\ UNCHANGED ran
       ELSE /\ Put(j, [work[j] EXCEPT !.step = "act", !.acts = ActionsOf[Rule(j)], !.ok = FALSE, !.said = FALSE])
            /\ ran' = IF work[j].fresh THEN ran \cup {Rule(j)} ELSE ran
    /\ UNCHANGED <<rulebook, crm, replies, user, heard, excuses, means>>

InRule(j) == work[j].step \in {"act", "lead", "deal"}
Acting(j, action) == work[j].step = "act" /\ work[j].acts # <<>> /\ Head(work[j].acts).does = action
Acted(j, ok) == [work[j] EXCEPT !.step = "act", !.acts = Tail(@), !.ok = @ \/ ok]

\* An action throws: the run goes on with the next one.
ActionFails(j) ==
    /\ InRule(j) /\ work[j].acts # <<>> /\ Spend("faults")
    /\ Put(j, Acted(j, FALSE))
    /\ UNCHANGED <<rulebook, crm, replies, user, ran, heard, excuses>>

\* AUTO_REPLY, never in a comment.  Only a reply after one of an earlier run is one too many.
Reply(j) ==
    /\ Acting(j, "reply")
    /\ IF work[j].conversation \in Conversations \ Posts
       THEN /\ answered' = answered \cup {Pair(j)}
            /\ twice' = IF Pair(j) \in answered /\ ~work[j].said THEN twice \cup {Pair(j)} ELSE twice
            /\ Put(j, [Acted(j, TRUE) EXCEPT !.said = TRUE])
       ELSE Put(j, Acted(j, FALSE)) /\ UNCHANGED <<answered, twice>>
    /\ UNCHANGED <<rulebook, crm, runs, user, ran, heard, excuses, means>>

\* UPDATE_STATUS of the event's conversation, whose status is no state of this module.
UpdateConversation(j) ==
    /\ Acting(j, "status") /\ Head(work[j].acts).target = "conversation"
    /\ Put(j, Acted(j, work[j].conversation # Nobody))
    /\ UNCHANGED <<rulebook, crm, replies, user, ran, heard, excuses, means>>

\* Of the event's lead: to any status, from any.
UpdateLead(j) ==
    /\ Acting(j, "status") /\ Head(work[j].acts).target = "lead"
    /\ LET l == work[j].lead IN
         /\ IF l # 0 /\ leads[l].status \notin {"none", "gone"} THEN SetLead(l, Head(work[j].acts).to) ELSE UNCHANGED <<leads, hurried>>
         /\ Put(j, Acted(j, l # 0))
    /\ UNCHANGED <<rulebook, deals, replies, user, ran, heard, mingled, unrecorded, clashed, untold, means>>

\* Of the event's deal: to any stage, and no event says so.
UpdateDeal(j) ==
    /\ Acting(j, "status") /\ Head(work[j].acts).target = "deal"
    /\ LET d == work[j].deal   to == Head(work[j].acts).to   there == d # 0 /\ deals[d].stage \notin {"none", "gone"} IN
         /\ deals' = IF there THEN [deals EXCEPT ![d].stage = to] ELSE deals
         /\ untold' = IF there /\ deals[d].stage # to THEN untold \cup {d} ELSE untold
         /\ Put(j, Acted(j, d # 0))
    /\ UNCHANGED <<rulebook, leads, replies, user, ran, heard, mingled, unrecorded, hurried, clashed, means>>

\* ASSIGN_AGENT, ADD_TAG, CREATE_TASK, SEND_NOTIFICATION, SEND_WEBHOOK.
OtherAction(j) ==
    /\ Acting(j, "other")
    /\ Put(j, Acted(j, TRUE))
    /\ UNCHANGED <<rulebook, crm, replies, user, ran, heard, excuses, means>>

\* A handler at step `step' for the same contact.
Beside(j, step) == \E k \in Handlers \ {j} : work[k].step = step /\ work[k].person = work[j].person

\* CREATE_LEAD: the search for an open lead.
AskLead(j) ==
    /\ Acting(j, "lead")
    /\ Put(j, IF OpenLead(work[j].person) THEN Acted(j, TRUE) ELSE [work[j] EXCEPT !.step = "lead"])
    /\ hurried' = IF Beside(j, "lead") THEN hurried \cup {work[j].person} ELSE hurried
    /\ UNCHANGED <<rulebook, crm, replies, user, ran, heard, mingled, unrecorded, clashed, untold, means>>

\* Its creation, and the event one hop deeper.
MakeLead(j) ==
    /\ work[j].step = "lead" /\ Room(leads) /\ Slot(1)
    /\ leads' = [leads EXCEPT ![New(leads)] = [status |-> "open", person |-> work[j].person, hops |-> work[j].hops + 1]]
    /\ work' = Emit([work EXCEPT ![j] = Acted(j, TRUE)],
                   Event("lead", Nobody, work[j].person, New(leads), 0, work[j].depth + 1, work[j].hops + 1))
    /\ UNCHANGED <<rulebook, deals, replies, user, ran, heard, excuses, means>>

OpenDeal(p) == \E d \in Deals : deals[d].stage = "open" /\ deals[d].person = p

\* CREATE_DEAL: the search for an open deal.
AskDeal(j) ==
    /\ Acting(j, "deal")
    /\ Put(j, IF OpenDeal(work[j].person) THEN Acted(j, TRUE) ELSE [work[j] EXCEPT !.step = "deal"])
    /\ UNCHANGED <<rulebook, crm, replies, user, ran, heard, excuses, means>>

MakeDeal(j) ==
    /\ work[j].step = "deal" /\ Room(deals)
    /\ deals' = [deals EXCEPT ![New(deals)] = [stage |-> "open", person |-> work[j].person, lead |-> work[j].lead, by |-> "rule"]]
    /\ heard' = [heard EXCEPT ![New(deals)] = "open"]
    /\ Put(j, Acted(j, TRUE))
    /\ UNCHANGED <<rulebook, leads, replies, user, ran, excuses, means>>

\* The run counts for the cooldown whatever became of its actions.
Recorded(j) == IF work[j].conversation # Nobody THEN runs \cup {Pair(j)} ELSE runs

RecordRun(j) ==
    /\ work[j].step = "act" /\ work[j].acts = <<>>
    /\ runs' = Recorded(j)
    /\ Put(j, [work[j] EXCEPT !.step = "next", !.todo = Left(j)])
    /\ UNCHANGED <<rulebook, crm, answered, twice, user, ran, heard, excuses, means>>

\* The database fails outside an action: the event is dropped with the rules it had left.
JobFails(j) ==
    /\ \/ work[j].step \in {"start", "next"}
       \/ work[j].step = "act" /\ work[j].acts = <<>>
    /\ Spend("faults")
    /\ unrecorded' = IF InRule(j) THEN unrecorded \cup {Pair(j)} ELSE unrecorded
    /\ Put(j, Idle)
    /\ UNCHANGED <<rulebook, crm, replies, user, ran, heard, mingled, hurried, clashed, untold>>

-----------------------------------------------------------------------------
(* Users: a lead becomes a deal, a deal moves. *)

Enter(u, record) == user' = [user EXCEPT ![u] = record]

\* A deal of the lead, at whatever stage.
Already(l) == \E d \in Deals : deals[d].lead = l /\ deals[d].stage # "gone"

\* convertToDeal.
convertToDeal(u, l) ==
    /\ user[u] = Away /\ leads[l].status \notin {"none", "gone"} /\ ~Already(l) /\ Spend("conversions")
    /\ Enter(u, [Away EXCEPT !.kind = "convert", !.on = l])
    /\ clashed' = IF \E v \in Users : user[v].kind = "convert" /\ user[v].on = l THEN clashed \cup {<<"lead", l>>} ELSE clashed
    /\ UNCHANGED <<rulebook, crm, replies, work, ran, heard, mingled, unrecorded, hurried, untold>>

ConvertDeal(u) ==
    /\ user[u].kind = "convert" /\ Room(deals)
    /\ deals' = [deals EXCEPT ![New(deals)] = [stage |-> "open", person |-> leads[user[u].on].person, lead |-> user[u].on, by |-> "user"]]
    /\ heard' = [heard EXCEPT ![New(deals)] = "open"]
    /\ Enter(u, [user[u] EXCEPT !.kind = "mark"])
    /\ UNCHANGED <<rulebook, leads, replies, work, ran, excuses, means>>

\* The lead is saved as converted, when it is still there.
MarkLead(u) ==
    /\ user[u].kind = "mark"
    /\ leads' = IF leads[user[u].on].status = "gone" THEN leads ELSE [leads EXCEPT ![user[u].on].status = "converted"]
    /\ Enter(u, Away)
    /\ UNCHANGED <<rulebook, deals, replies, work, ran, heard, excuses, means>>

\* DealsService.update of the stage: the stage before is read first.
moveDeal(u, d, stage) ==
    /\ user[u] = Away /\ deals[d].stage \notin {"none", "gone"} /\ Spend("moves")
    /\ Enter(u, [kind |-> "move", on |-> d, before |-> deals[d].stage, after |-> stage])
    /\ clashed' = IF \E v \in Users : user[v].kind \in {"move", "tell"} /\ user[v].on = d
                  THEN clashed \cup {<<"deal", d>>} ELSE clashed
    /\ UNCHANGED <<rulebook, crm, replies, work, ran, heard, mingled, unrecorded, hurried, untold>>

Changed(u) == user[u].before # user[u].after

\* The update; a stage that is another one is about to be told.
MoveDeal(u) ==
    /\ user[u].kind = "move"
    /\ LET d == user[u].on   there == deals[d].stage # "gone" IN
         /\ deals' = IF there THEN [deals EXCEPT ![d].stage = user[u].after] ELSE deals
         /\ untold' = IF there /\ Changed(u) THEN untold \ {d} ELSE untold
         /\ Enter(u, IF there THEN [user[u] EXCEPT !.kind = "tell"] ELSE Away)
    /\ UNCHANGED <<rulebook, leads, replies, work, ran, heard, mingled, unrecorded, hurried, clashed, means>>

\* DEAL_UPDATED, and DEAL_STAGE_CHANGED when the stage is another one.
Told(u) ==
    LET d == user[u].on
        updated == Emit(work, Event("updated", Nobody, deals[d].person, 0, d, 0, 0)) IN
    IF Changed(u) THEN Emit(updated, Event("stage", Nobody, deals[d].person, 0, d, 0, 0)) ELSE updated

TellDeal(u) ==
    /\ user[u].kind = "tell" /\ Slot(IF Heard("updated") /\ Heard("stage") THEN 2 ELSE 1)
    /\ work' = Told(u)
    /\ heard' = IF Changed(u) THEN [heard EXCEPT ![user[u].on] = user[u].after] ELSE heard
    /\ Enter(u, Away)
    /\ UNCHANGED <<rulebook, crm, replies, ran, excuses, means>>

\* A request's call fails, or its answer is lost: what was still to come does not.
RequestFails(u) ==
    /\ user[u] # Away /\ Spend("faults")
    /\ Enter(u, Away)
    /\ untold' = IF user[u].kind = "tell" /\ Changed(u) THEN untold \cup {user[u].on} ELSE untold
    /\ UNCHANGED <<rulebook, crm, replies, work, ran, heard, mingled, unrecorded, hurried, clashed>>

\* The process ends; nobody emits its events again.
Crash ==
    /\ Spend("crashes")
    /\ unrecorded' = unrecorded \cup {Pair(j) : j \in {k \in Handlers : InRule(k)}}
    /\ untold' = untold \cup {user[u].on : u \in {v \in Users : user[v].kind = "tell" /\ Changed(v)}}
    /\ work' = [j \in Handlers |-> Idle] /\ user' = [u \in Users |-> Away]
    /\ UNCHANGED <<rulebook, crm, replies, ran, heard, mingled, hurried, clashed>>

-----------------------------------------------------------------------------
Work(j) ==
    \/ Start(j) \/ NextRule(j) \/ Reply(j) \/ OtherAction(j)
    \/ UpdateConversation(j) \/ UpdateLead(j) \/ UpdateDeal(j)
    \/ AskLead(j) \/ MakeLead(j) \/ AskDeal(j) \/ MakeDeal(j) \/ RecordRun(j)

Answer(u) == ConvertDeal(u) \/ MarkLead(u) \/ MoveDeal(u) \/ TellDeal(u)

Next ==
    \/ \E c \in Conversations : MessageReceived(c)
    \/ \E p \in People : createLead(p)
    \/ \E l \in Leads, s \in {"open", "lost", "converted", "gone"} : editLead(l, s)
    \/ \E d \in Deals : removeDeal(d)
    \/ \E r \in Rules : toggle(r)
    \/ \E n \in Plans : changePlan(n)
    \/ \E pair \in runs : CooldownEnds(pair)
    \/ \E j \in Handlers : Work(j) \/ ActionFails(j) \/ JobFails(j)
    \/ \E u \in Users :
         \/ \E l \in Leads : convertToDeal(u, l)
         \/ \E d \in Deals, s \in {"open", "closed"} : moveDeal(u, d, s)
         \/ Answer(u) \/ RequestFails(u)
    \/ Crash

AutomationsSpec == Init /\ [][Next]_automationVars

-----------------------------------------------------------------------------
\* Handlers carry a rule while they act, and the records are the code's.
TypeOK ==
    /\ active \subseteq Rules /\ limit \in Nat
    /\ \A l \in Leads : leads[l].status \in {"none", "open", "lost", "converted", "gone"}
    /\ \A d \in Deals : deals[d].stage \in {"none", "open", "closed", "gone"} /\ deals[d].lead \in Leads \cup {0}
    /\ \A j \in Handlers : work[j].step \in {"act", "lead", "deal"} => work[j].todo # {} /\ Rule(j) \in Rules
    /\ runs \cup answered \subseteq Rules \X Conversations

\* A rule answers a conversation once within its cooldown: unless two messages of it
\* were at work at once, or the run that answered was cut off before it was recorded.
RepliesOnce == \A pair \in twice : pair[2] \in mingled \/ pair \in unrecorded

\* "The same rule is not fired again for the same conversation within the cooldown":
\* the same without the exceptions.
RepliesOnceAlways == twice = {}

\* A rule that creates a lead leaves the contact with one open lead: a contact has two
\* only where two handlers looked for one at once, or where a user or a rule opened one
\* by hand (create, update, UPDATE_STATUS) beside another, or beside a rule that had
\* just found none.
OneOpenLead ==
    \A l, k \in Leads : l # k /\ leads[l].status = "open" /\ leads[k].status = "open"
                        /\ leads[l].person = leads[k].person => leads[l].person \in hurried

\* Two conversions of one lead make one deal, unless they ran at once.
ConvertsOnce ==
    \A d, e \in Deals : d # e /\ deals[d].by = "user" /\ deals[e].by = "user" /\ deals[d].lead = deals[e].lead
                        /\ "gone" \notin {deals[d].stage, deals[e].stage} => <<"lead", deals[d].lead>> \in clashed

\* "Converting twice would duplicate the deal": the same without the exception.
ConvertsOnceAlways ==
    \A d, e \in Deals : d # e /\ deals[d].by = "user" /\ deals[e].by = "user" /\ deals[d].lead = deals[e].lead
                        => "gone" \in {deals[d].stage, deals[e].stage}

\* As long as neither the rules nor the plan change, no more rules act than the plan runs.
PlanBoundsRules == Cardinality(ran) <= limit

\* A lead made by rules is at most MaxDepth hops from an event of the world.
ShortChains == \A l \in Leads : leads[l].hops <= MaxDepth

\* The last stage the rules were told of is the deal's, while no user is about to tell
\* one: unless two users moved the deal at once or, since a user last changed its stage,
\* a rule set it (which tells nobody) or the request failed between update and event.
Telling(d) == \E u \in Users : user[u].kind = "tell" /\ user[u].on = d
StageIsTold ==
    \A d \in Deals : deals[d].stage \in {"open", "closed"} /\ ~Telling(d) /\ d \notin untold /\ <<"deal", d>> \notin clashed
                     => heard[d] = deals[d].stage

\* Rules, users and the chains they set off do a thing once (an answer within the
\* cooldown, a contact's lead, a lead's deal), hear of the stages users give, and end: by
\* the plan's share and by the depth of an event.  Each part names what is excepted.
RulesInOrder ==
    /\ TypeOK /\ RepliesOnce /\ OneOpenLead /\ ConvertsOnce
    /\ StageIsTold /\ PlanBoundsRules /\ ShortChains
=============================================================================
