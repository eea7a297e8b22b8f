----------------------------- MODULE MCServices -----------------------------
(* A small instance of three parts of an account that share no state: its     *)
(* quotes (Quotes), its mailboxes (MailAccounts) and its rules (Automations). *)
(* In a behaviour one of the three is at work: part says which.               *)
EXTENDS MCQuotes, Sequences, TLC

CONSTANTS MaxBoxes, Places, Addresses, Limit, Calls,  \* of the mailboxes
          MaxRules, TriggerOf, ActionsOf, Conversations, Posts, PersonOf, Nobody, MaxLeads, MaxDeals, MaxDepth, Plans,
          Handlers, Users,                            \* of the rules
          MailScenes, RuleScenes, Parts

VARIABLES
    boxes, loops, reading, mails, call, overlapped, doubled, missed, late, unsettled, doing,
    active, limit, runs, leads, deals, work, user, answered, twice, ran, heard, mingled, unrecorded, hurried, clashed,
    untold, means,
    part

Boxes == 1..MaxBoxes
Rules == 1..MaxRules
Leads == 1..MaxLeads
Deals == 1..MaxDeals

M == INSTANCE MailAccounts
A == INSTANCE Automations

Budget(kinds, f) == [k \in kinds |-> IF k \in DOMAIN f THEN f[k] ELSE 0]

-----------------------------------------------------------------------------
MailKinds == {"connects", "defaults", "disconnects", "removals", "syncs", "ticks", "faults", "crashes"}
Mailed(f, b) == Budget(MailKinds, b) @@ [before |-> f]
Box(main, p, a) == [status |-> "connected", main |-> main, place |-> p, address |-> a]
Two   == 1 :> Box(TRUE, w1, "a1") @@ 2 :> Box(FALSE, w1, "a2")
Apart == 1 :> Box(TRUE, w1, "a1") @@ 2 :> Box(TRUE, w2, "a2")
Off   == 1 :> Box(TRUE, w1, "a1") @@ 2 :> [Box(FALSE, w1, "a2") EXCEPT !.status = "disconnected"]
\* First mailboxes; two of one place, or of two; one disconnected before; calls that fail.
AllMail == {
    Mailed(<<>>, [connects |-> 2]),
    Mailed(<<>>, [connects |-> 1, faults |-> 1, crashes |-> 1]),
    Mailed(Two, [disconnects |-> 1, defaults |-> 1, crashes |-> 1]),
    Mailed(Two, [removals |-> 1, ticks |-> 1, crashes |-> 1]),
    Mailed(Two, [defaults |-> 2, crashes |-> 1]),
    Mailed(Apart, [removals |-> 1, syncs |-> 1]),
    Mailed(Off, [connects |-> 2]),
    Mailed(Two, [disconnects |-> 1, connects |-> 1]),
    Mailed(Two, [disconnects |-> 1, faults |-> 1, defaults |-> 1]),
    Mailed(Two, [removals |-> 2, faults |-> 1]),
    Mailed(Off, [connects |-> 1, faults |-> 1, crashes |-> 1])}
Defaults  == {Mailed(Two, [disconnects |-> 1, defaults |-> 1])}
FirstMail == {Mailed(<<>>, [connects |-> 2])}
Removal   == {Mailed(Two, [removals |-> 1, ticks |-> 1])}

\* An account begins with mailboxes, connected or not, each with an address of its own
\* and as many connected as the plan has.
BeginsWith(before) ==
    /\ \E n \in 0..MaxBoxes :
         before \in [1..n -> [status : {"connected", "disconnected"}, main : BOOLEAN, place : Places, address : Addresses]]
    /\ \A b, c \in DOMAIN before : before[b].address = before[c].address => b = c
    /\ Cardinality({b \in DOMAIN before : before[b].status = "connected"}) <= Limit

ASSUME MailAssumption ==
    /\ MaxBoxes \in Nat /\ Limit \in Nat /\ Places # {} /\ Addresses # {} /\ M!Boot \notin Calls
    /\ \A scene \in MailScenes : BeginsWith(scene.before)

-----------------------------------------------------------------------------
Does(action)    == [does |-> action, target |-> "none", to |-> "none"]
SetTo(what, to) == [does |-> "status", target |-> what, to |-> to]
RuleActions ==
    {Does(action) : action \in {"reply", "lead", "deal", "other"}} \cup {SetTo("conversation", "none")}
    \cup {SetTo("lead", to) : to \in {"open", "lost", "converted"}} \cup {SetTo("deal", to) : to \in {"open", "closed"}}

\* Two rules for messages, three for leads and three for deals; two conversations of one
\* person, and a comment of another.
TheTriggers == <<"message", "message", "lead", "lead", "stage", "updated", "lead", "stage">>
TheActions  == << <<Does("reply"), Does("lead")>>, <<Does("other"), SetTo("conversation", "none")>>,
                  <<SetTo("lead", "lost"), Does("lead")>>, <<Does("deal")>>, <<Does("other")>>,
                  <<SetTo("deal", "closed")>>, <<Does("other"), SetTo("lead", "open")>>, <<SetTo("deal", "open")>> >>
ThePeople   == [c \in {"c1", "c2", "c3"} |-> IF c = "c3" THEN "p2" ELSE "p1"]

RuleKinds == {"messages", "leads", "conversions", "moves", "edits", "expiries", "plans", "toggles", "faults", "crashes"}
Ruled(rules, b) == Budget(RuleKinds, b) @@ [before |-> rules]
\* Two messages within a cooldown; a chain of leads; a fault or a crash under a run;
\* a smaller plan; a rule paused; conversions; a deal that users move, and rules, one of
\* them back; a rule that opens a lead again.
AllRules == {
    Ruled({1}, [messages |-> 2, expiries |-> 1]),
    Ruled({1, 3}, [messages |-> 1, edits |-> 1]),
    Ruled({1}, [messages |-> 2, faults |-> 1]),
    Ruled({1}, [messages |-> 2, crashes |-> 1]),
    Ruled({2, 4}, [leads |-> 1, messages |-> 1, plans |-> 1]),
    Ruled({1, 4}, [messages |-> 1, toggles |-> 1]),
    Ruled({}, [leads |-> 1, conversions |-> 2, moves |-> 1, edits |-> 1, crashes |-> 1]),
    Ruled({5}, [leads |-> 1, conversions |-> 1, moves |-> 2, faults |-> 1]),
    Ruled({6}, [leads |-> 1, conversions |-> 1, moves |-> 2]),
    Ruled({8}, [leads |-> 1, conversions |-> 1, moves |-> 2, crashes |-> 1]),
    Ruled({1, 7}, [leads |-> 1, messages |-> 1, edits |-> 1])}
Twice      == {Ruled({1}, [messages |-> 2])}
Conversion == {Ruled({}, [leads |-> 1, conversions |-> 2])}

\* An account begins with some of its rules active.
ASSUME RulesAssumption ==
    /\ MaxRules \in Nat /\ MaxLeads \in Nat /\ MaxDeals \in Nat /\ MaxDepth \in Nat /\ Plans \subseteq Nat
    /\ TriggerOf \in [Rules -> {"message", "lead", "updated", "stage"}]
    /\ ActionsOf \in [Rules -> Seq(RuleActions)]
    /\ Nobody \notin Conversations
    /\ \A scene \in RuleScenes : scene.before \subseteq Rules

-----------------------------------------------------------------------------
mailVars == <<boxes, loops, reading, mails, call, overlapped, doubled, missed, late, unsettled, doing>>
ruleVars == <<active, limit, runs, leads, deals, work, user, answered, twice, ran, heard, mingled, unrecorded, hurried,
              clashed, untold, means>>

\* A part that is not at work has one scene.
MCInit ==
    /\ TracedInit /\ M!Init /\ A!Init /\ part \in Parts
    /\ part # "mail" => doing = CHOOSE scene \in MailScenes : TRUE
    /\ part # "rules" => means = CHOOSE scene \in RuleScenes : TRUE

Quoting   == part = "quotes" /\ TracedNext /\ UNCHANGED <<mailVars, ruleVars, part>>
Mailing   == part = "mail"   /\ M!Next /\ UNCHANGED <<vars, crossed, lost, ruleVars, part>>
Ruling    == part = "rules"  /\ A!Next /\ UNCHANGED <<vars, crossed, lost, mailVars, part>>
MCNext == Quoting \/ Mailing \/ Ruling

\* The fairness of the part at work.
MCFairness == /\ WF_mailVars(part = "mail" /\ M!Going)

MCSpec == MCInit /\ [][MCNext]_<<vars, crossed, lost, mailVars, ruleVars, part>> /\ MCFairness

-----------------------------------------------------------------------------
\* The loop of a mailbox that is not connected ends.
LoopsEnd == M!LoopsEnd
\* A place has one default mailbox, whatever requests overlap.
OneDefaultAlways == M!OneDefaultAlways
\* An address is unique in the account.
AddressUnique == M!AddressUnique
\* A removal takes the mails, whatever syncs are at work.
RemovedTakesMailsAlways == M!RemovedTakesMailsAlways

\* A rule answers once within its cooldown, whatever overlaps.
RepliesOnceAlways == A!RepliesOnceAlways
\* A lead is converted once, whatever overlaps.
ConvertsOnceAlways == A!ConvertsOnceAlways

\* Mailboxes obey their rules where requests did not meet and none failed half way
\* (connect, ensureDefault, remove).
MailboxesInOrder == M!MailboxesInOrder
\* Rules act once, hear of the stages users give, and end (handle, run, execute).
RulesInOrder == A!RulesInOrder
=============================================================================
