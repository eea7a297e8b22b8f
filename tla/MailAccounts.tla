---------------------------- MODULE MailAccounts ----------------------------
(***************************************************************************)
(* The mailboxes of an account: connecting, choosing the default one,      *)
(* disconnecting and removing (EmailIntegrationsService), the loop that    *)
(* reads each of them (EmailsService.startAutoSync) and the repairs of a   *)
(* start-up (EmailsService.bootstrap), which begin while requests are      *)
(* already served.  The reads a request begins with are one step, every    *)
(* later await is a step of its own.  What a reading stores is Mailbox's   *)
(* subject: here it only leaves mails behind or none.                      *)
(***************************************************************************)
EXTENDS Naturals, FiniteSets

CONSTANTS
    Boxes,             \* 1..n, in the order of their creation
    Places,            \* workspaces
    Addresses,
    Limit,             \* connected mailboxes in the plan
    Calls,             \* requests at work at once
    MailScenes

Boot    == 0           \* the start-up, a worker beside the requests
Actors == Calls \cup {Boot}
Doings  == {"connects", "defaults", "disconnects", "removals", "syncs", "ticks", "faults", "crashes"}

VARIABLES
    boxes,             \* the EmailIntegration documents
    loops,             \* syncIntervals: mailboxes with a loop
    reading,           \* what each mailbox's sync is doing
    mails,             \* mailboxes with stored mails
    call,              \* requests and the start-up at work
    overlapped, doubled, missed, late, unsettled,  \* history
    doing

records         == <<boxes, loops, reading, mails>>
past            == <<overlapped, doubled, missed, late, unsettled>>
mailAccountVars == <<records, call, past, doing>>

Exists(b)    == boxes[b].status \notin {"unborn", "gone"}
Connected(b) == boxes[b].status = "connected"
In(p)        == {b \in Boxes : Exists(b) /\ boxes[b].place = p}
Oldest(S)    == CHOOSE b \in S : \A c \in S : b <= c

Unborn(p) == [status |-> "unborn", main |-> FALSE, place |-> p, address |-> CHOOSE a \in Addresses : TRUE]
Free      == [kind |-> "none", step |-> "rest", box |-> 0, place |-> CHOOSE p \in Places : TRUE,
              address |-> CHOOSE a \in Addresses : TRUE, status |-> "none", main |-> FALSE, keep |-> 0, left |-> {}]
Starting  == [Free EXCEPT !.kind = "boot", !.step = "scopes"]

\* A scene's mailboxes are as an earlier run of the program left them.
Init ==
    /\ doing \in MailScenes
    /\ boxes = [b \in Boxes |-> IF b \in DOMAIN doing.before THEN doing.before[b] ELSE Unborn(CHOOSE p \in Places : TRUE)]
    /\ loops = {} /\ mails = {b \in Boxes : Exists(b)}
    /\ reading = [b \in Boxes |-> "rest"]
    /\ call = [w \in Actors |-> IF w = Boot /\ \E b \in Boxes : Exists(b) THEN Starting ELSE Free]
    /\ overlapped = {} /\ doubled = FALSE /\ missed = {} /\ late = {} /\ unsettled = {}

Spend(kind) == doing[kind] > 0 /\ doing' = [doing EXCEPT ![kind] = @ - 1]
Put(w, record) == call' = [call EXCEPT ![w] = record]
Go(w, step) == Put(w, [call[w] EXCEPT !.step = step])

Working(p) == {w \in Actors : call[w] # Free /\ (w = Boot \/ call[w].place = p)}
\* A call on place p begins while another is at work there.
Meet(p) == overlapped' = IF Working(p) # {} THEN overlapped \cup {p} ELSE overlapped

-----------------------------------------------------------------------------
(* The requests' first reads. *)

\* The duplicate check, over all the account's mailboxes.
Taken(a, b) == \E c \in Boxes \ {b} : Exists(c) /\ boxes[c].address = a

\* assertCanConnectEmail: for a new mailbox or a disconnected one.
Room(b) == (b # 0 /\ boxes[b].status # "disconnected") \/ Cardinality({c \in Boxes : Connected(c)}) < Limit

\* A call that begins knows the mailbox as it is now.
Begin(w, kind, step, b) ==
    /\ Put(w, [Free EXCEPT !.kind = kind, !.step = step, !.box = b, !.place = boxes[b].place, !.keep = b,
                           !.address = boxes[b].address, !.status = boxes[b].status, !.main = boxes[b].main])
    /\ Meet(boxes[b].place)

\* connect, of a new mailbox (b = 0) or an existing one.
connect(w, b, p, a) ==
    /\ call[w] = Free /\ Spend("connects")
    /\ b # 0 => Exists(b) /\ p = boxes[b].place
    /\ ~Taken(a, b) /\ Room(b)
    /\ Put(w, [Free EXCEPT !.kind = "connect", !.step = "test", !.box = b, !.place = p, !.address = a,
                           !.status = IF b = 0 THEN "none" ELSE boxes[b].status,
                           !.main = b # 0 /\ boxes[b].main])
    /\ Meet(p)
    /\ doubled' = (doubled \/ \E v \in Calls : call[v].kind = "connect")
    /\ UNCHANGED <<records, missed, late, unsettled>>

\* setDefault, of a connected mailbox only.
setDefault(w, b) ==
    /\ call[w] = Free /\ Connected(b) /\ Spend("defaults")
    /\ Begin(w, "default", "clear", b)
    /\ UNCHANGED <<records, doubled, missed, late, unsettled>>

disconnect(w, b) ==
    /\ call[w] = Free /\ Exists(b) /\ Spend("disconnects")
    /\ Begin(w, "disconnect", "close", b)
    /\ UNCHANGED <<records, doubled, missed, late, unsettled>>

\* remove: the loop stops before the mails go; a sync at work goes on.
remove(w, b) ==
    /\ call[w] = Free /\ Exists(b) /\ Spend("removals")
    /\ Begin(w, "remove", "mails", b)
    /\ loops' = loops \ {b}
    /\ late' = IF reading[b] = "reading" THEN late \cup {b} ELSE late
    /\ UNCHANGED <<boxes, reading, mails, doubled, missed, unsettled>>

-----------------------------------------------------------------------------
(* A call fails, and the request with it, or the start-up. *)

\* Places whose default is left as the call finds it: a write came before, and
\* ensureDefault, or the second update of two, does not come any more.
Undecided(w) ==
    LET c == call[w] IN
    {p \in Places :
       \/ w = Boot /\ (c.step = "scopes" \/ p \in c.left)
       \/ p = c.place /\ c.step \in {"stop", "look", "clear", "mark"} /\ ~(c.kind = "default" /\ c.step = "clear")}

\* Mailboxes whose loop is not started, or was stopped before.
Unlooped(w) ==
    IF w = Boot THEN {b \in Boxes : Connected(b)}
    ELSE {b \in Boxes : b = call[w].box /\ call[w].kind \in {"connect", "remove"} /\ call[w].step # "test"}

\* testConnection refuses, or the database fails.  A call that did its work and whose
\* answer is lost is one that fails at the next step.
CallFails(w) ==
    /\ call[w] # Free /\ Spend("faults")
    /\ Put(w, Free)
    /\ unsettled' = unsettled \cup Undecided(w)
    /\ missed' = missed \cup Unlooped(w)
    /\ UNCHANGED <<records, overlapped, doubled, late>>

-----------------------------------------------------------------------------
(* connect and disconnect: test, save. *)

NewBox == Cardinality({b \in Boxes : boxes[b].status # "unborn"}) + 1

CreateBox(w) ==
    /\ call[w].step = "test" /\ call[w].box = 0 /\ NewBox \in Boxes
    /\ boxes' = [boxes EXCEPT ![NewBox] = [status |-> "connected", main |-> FALSE, place |-> call[w].place,
                                          address |-> call[w].address]]
    /\ Put(w, [call[w] EXCEPT !.step = "look", !.box = NewBox])
    /\ UNCHANGED <<loops, reading, mails, past, doing>>

\* The save writes what differs from the document as it was read; it fails when the
\* document is gone.
SaveBox(w) ==
    /\ call[w].step = "test" /\ call[w].box # 0
    /\ IF Exists(call[w].box)
       THEN /\ boxes' = [boxes EXCEPT ![call[w].box].address = call[w].address,
                                      ![call[w].box].status = IF call[w].status = "connected" THEN @ ELSE "connected"]
            /\ Go(w, "look")
       ELSE Put(w, Free) /\ UNCHANGED boxes
    /\ UNCHANGED <<loops, reading, mails, past, doing>>

CloseBox(w) ==
    /\ call[w].step = "close"
    /\ IF Exists(call[w].box)
       THEN /\ boxes' = [boxes EXCEPT ![call[w].box].status = IF call[w].status = "disconnected" THEN @ ELSE "disconnected",
                                      ![call[w].box].main = IF call[w].main THEN FALSE ELSE @]
            /\ Go(w, "stop")
       ELSE Put(w, Free) /\ UNCHANGED boxes
    /\ UNCHANGED <<loops, reading, mails, past, doing>>

\* stopAutoSync.
StopLoop(w) ==
    /\ call[w].step = "stop"
    /\ loops' = loops \ {call[w].box} /\ Go(w, "look")
    /\ UNCHANGED <<boxes, reading, mails, past, doing>>

\* deleteAllForIntegration.
Cleared(b) == mails \ {b}

DeleteMails(w) ==
    /\ call[w].step = "mails"
    /\ mails' = Cleared(call[w].box) /\ Go(w, "delete")
    /\ UNCHANGED <<boxes, loops, reading, past, doing>>

DeleteBox(w) ==
    /\ call[w].step = "delete"
    /\ boxes' = [boxes EXCEPT ![call[w].box] = [@ EXCEPT !.status = "gone", !.main = FALSE]]
    /\ Go(w, "look")
    /\ UNCHANGED <<loops, reading, mails, past, doing>>

-----------------------------------------------------------------------------
(* ensureDefault, and what follows it. *)

Open(p)  == {b \in In(p) : Connected(b)}
Mains(p) == {b \in Open(p) : boxes[b].main}

Keep(p) == IF Mains(p) # {} THEN Oldest(Mains(p)) ELSE Oldest(Open(p))

\* Mutant of Settled: an account whose places all have a default, or more, is left alone.
SettledWithAny(p) == Open(p) = {} \/ Mains(p) # {}

Settled(p) == Open(p) = {} \/ Cardinality(Mains(p)) = 1

\* What a worker does after ensureDefault.
After(kind) == CASE kind = "connect" -> "start" [] kind = "boot" -> "scope" [] OTHER -> "done"
Done(w) ==
    /\ IF After(call[w].kind) = "done" THEN Put(w, Free) ELSE Go(w, After(call[w].kind))
    /\ unsettled' = unsettled \ {call[w].place}

Look(w) ==
    /\ call[w].step = "look"
    /\ IF Settled(call[w].place) THEN Done(w)
       ELSE Put(w, [call[w] EXCEPT !.step = "clear", !.keep = Keep(call[w].place)]) /\ UNCHANGED unsettled
    /\ UNCHANGED <<records, overlapped, doubled, missed, late, doing>>

\* The first update: no other mailbox of the place is the default (setDefault begins here).
ClearOthers(w) ==
    /\ call[w].step = "clear"
    /\ boxes' = [b \in Boxes |-> IF b \in In(call[w].place) /\ b # call[w].keep
                                 THEN [boxes[b] EXCEPT !.main = FALSE] ELSE boxes[b]]
    /\ Go(w, "mark")
    /\ UNCHANGED <<loops, reading, mails, past, doing>>

\* The second one.  setDefault saves the document it read: nothing when that was the
\* default already.
MarkKept(w) ==
    /\ call[w].step = "mark"
    /\ boxes' = [boxes EXCEPT ![call[w].keep].main =
                    IF Exists(call[w].keep) /\ ~(call[w].kind = "default" /\ call[w].main) THEN TRUE ELSE @]
    /\ Done(w)
    /\ UNCHANGED <<loops, reading, mails, overlapped, doubled, missed, late, doing>>

\* startAutoSync.
Looped(w) == loops \cup {call[w].box}

\* connect reads its mailbox again and starts the loop.
StartLoop(w) ==
    /\ call[w].step = "start"
    /\ loops' = IF Exists(call[w].box) THEN Looped(w) ELSE loops
    /\ missed' = IF reading[call[w].box] = "ending" THEN missed \cup {call[w].box} ELSE missed \ {call[w].box}
    /\ Put(w, Free)
    /\ UNCHANGED <<boxes, reading, mails, overlapped, doubled, late, unsettled, doing>>

-----------------------------------------------------------------------------
(* The loops. *)

\* Removals of b at work before its document goes.
Removing(b) == \E w \in Calls : call[w].box = b /\ call[w].step \in {"mails", "delete"}

StartReading(b) ==
    /\ reading' = [reading EXCEPT ![b] = "reading"]
    /\ late' = IF Removing(b) THEN late \cup {b} ELSE late

\* A tick of the loop: resolveConnected finds the mailbox or refuses.
Tick(b) ==
    /\ b \in loops /\ reading[b] = "rest" /\ Connected(b) /\ Spend("ticks")
    /\ StartReading(b)
    /\ UNCHANGED <<boxes, loops, mails, call, overlapped, doubled, missed, unsettled>>

\* Mutant of Refused: a failing sync never ends the loop.
RefusedNever(b) == FALSE

Refused(b) == ~Connected(b)

TickRefused(b) ==
    /\ b \in loops /\ reading[b] = "rest" /\ Refused(b)
    /\ reading' = [reading EXCEPT ![b] = "ending"]
    /\ UNCHANGED <<boxes, loops, mails, call, past, doing>>

\* The loop whose tick was refused is stopped: the one the mailbox has by now.
EndLoop(b) ==
    /\ reading[b] = "ending"
    /\ loops' = loops \ {b} /\ reading' = [reading EXCEPT ![b] = "rest"]
    /\ UNCHANGED <<boxes, mails, call, past, doing>>

\* A sync by hand.
syncAllFolders(b) ==
    /\ reading[b] = "rest" /\ Connected(b) /\ Spend("syncs")
    /\ StartReading(b)
    /\ UNCHANGED <<boxes, loops, mails, call, overlapped, doubled, missed, unsettled>>

EndReading(b) ==
    /\ reading[b] = "reading"
    /\ mails' \in {mails, mails \cup {b}}
    /\ reading' = [reading EXCEPT ![b] = "rest"]
    /\ UNCHANGED <<boxes, loops, call, past, doing>>

-----------------------------------------------------------------------------
(* The start-up: migrateLegacyAccounts for every place, then the loops. *)

BootScopes ==
    /\ call[Boot].step = "scopes"
    /\ Put(Boot, [call[Boot] EXCEPT !.step = "scope", !.left = {p \in Places : In(p) # {}}])
    /\ UNCHANGED <<records, past, doing>>

BootScope ==
    /\ call[Boot].step = "scope" /\ call[Boot].left # {}
    /\ \E p \in call[Boot].left :
         Put(Boot, [call[Boot] EXCEPT !.step = "look", !.place = p, !.left = @ \ {p}])
    /\ UNCHANGED <<records, past, doing>>

\* initAutoSyncForAllTenants.
BootLoops ==
    /\ call[Boot].step = "scope" /\ call[Boot].left = {}
    /\ loops' = loops \cup {b \in Boxes : Connected(b)}
    /\ Put(Boot, Free)
    /\ UNCHANGED <<boxes, reading, mails, past, doing>>

\* The process ends and starts again.
Crash ==
    /\ Spend("crashes")
    /\ loops' = {} /\ reading' = [b \in Boxes |-> "rest"]
    /\ call' = [w \in Actors |-> IF w = Boot THEN Starting ELSE Free]
    /\ overlapped' = {} /\ missed' = {} /\ unsettled' = {}
    /\ late' = late \cup {b \in Boxes : Removing(b)}
    /\ UNCHANGED <<boxes, mails, doubled>>

-----------------------------------------------------------------------------
Request(w) ==
    \/ \E b \in Boxes \cup {0}, p \in Places, a \in Addresses : connect(w, b, p, a)
    \/ \E b \in Boxes : setDefault(w, b) \/ disconnect(w, b) \/ remove(w, b)

Step(w) ==
    \/ CreateBox(w) \/ SaveBox(w) \/ CloseBox(w) \/ StopLoop(w) \/ DeleteMails(w) \/ DeleteBox(w)
    \/ Look(w) \/ ClearOthers(w) \/ MarkKept(w) \/ StartLoop(w)

Booting == BootScopes \/ BootScope \/ BootLoops

\* What goes on by itself: every await comes back and every timer fires.
Going ==
    \/ \E w \in Actors : Step(w)
    \/ \E b \in Boxes : TickRefused(b) \/ EndLoop(b) \/ EndReading(b)
    \/ Booting

Next ==
    \/ \E w \in Calls : Request(w)
    \/ \E w \in Actors : CallFails(w)
    \/ \E b \in Boxes : Tick(b) \/ syncAllFolders(b)
    \/ Going
    \/ Crash

Fairness == WF_mailAccountVars(Going)

MailAccountsSpec == Init /\ [][Next]_mailAccountVars /\ Fairness

-----------------------------------------------------------------------------
\* Nothing is at work on place p, and the start-up is over.
Quiet(p) == Working(p) = {}

\* Every update of a default names a mailbox, and every record is one of the code's.
TypeOK ==
    /\ \A b \in Boxes : /\ boxes[b].status \in {"unborn", "connected", "disconnected", "gone"}
                        /\ boxes[b].place \in Places /\ boxes[b].address \in Addresses /\ boxes[b].main \in BOOLEAN
    /\ loops \subseteq Boxes /\ mails \subseteq Boxes
    /\ reading \in [Boxes -> {"rest", "reading", "ending"}]
    /\ \A w \in Actors : call[w].step \in {"clear", "mark"} => call[w].keep \in Boxes

\* A place with connected mailboxes has exactly one default among them, once nothing is
\* at work on it, whatever a crash interrupted: unless since the program started two
\* requests, or one and the start-up, worked on the place at once, or a call failed
\* between the write of a request and its ensureDefault, or within that, and no request
\* has seen to the default since.
OneDefault ==
    \A p \in Places : Quiet(p) /\ p \notin overlapped \cup unsettled /\ Open(p) # {} => Cardinality(Mains(p)) = 1

\* "Make sure a scope ... with connected accounts has exactly one default": the same
\* without the exception.
OneDefaultAlways == \A p \in Places : Quiet(p) /\ Open(p) # {} => Cardinality(Mains(p)) = 1

\* An address belongs to one mailbox of the account, unless two were connected at once.
AddressOnce ==
    ~doubled => \A b, c \in Boxes : b # c /\ Exists(b) /\ Exists(c) => boxes[b].address # boxes[c].address

\* "Unique per tenant": the same without the exception.
AddressUnique ==
    \A b, c \in Boxes : b # c /\ Exists(b) /\ Exists(c) => boxes[b].address # boxes[c].address

\* The plan bounds the connected mailboxes, unless two were connected at once.
MailboxesWithinPlan == ~doubled => Cardinality({b \in Boxes : Connected(b)}) <= Limit

\* Once nothing is at work, every connected mailbox has a loop: unless requests
\* overlapped, an older loop's refused tick stopped the new one, or the request that was
\* to start it, or that had stopped it to remove the mailbox, failed.
ConnectedIsRead ==
    \A b \in Boxes : Connected(b) /\ Quiet(boxes[b].place) /\ boxes[b].place \notin overlapped /\ b \notin missed
                     => b \in loops

\* A removed mailbox leaves no mails, unless a sync of it was at work or a crash came first.
RemovedTakesMails == \A b \in Boxes : boxes[b].status = "gone" /\ b \notin late => b \notin mails

\* "Permanently remove a mailbox together with its locally cached messages": the same
\* without the exception.
RemovedTakesMailsAlways == \A b \in Boxes : boxes[b].status = "gone" => b \notin mails

Stale == {b \in loops : ~Connected(b)}

\* The loops of mailboxes that are not connected any more end.
LoopsEnd == Stale # {} ~> Stale = {}

\* Where requests did not meet and none failed half way: one default among the mailboxes
\* of a place, one mailbox of an address, no more than the plan has, each with a loop,
\* and no mails of a mailbox that is gone.
MailboxesInOrder ==
    TypeOK /\ OneDefault /\ AddressOnce /\ MailboxesWithinPlan /\ ConnectedIsRead /\ RemovedTakesMails
=============================================================================
