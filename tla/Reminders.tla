------------------------------ MODULE Reminders ------------------------------
(***************************************************************************)
(* What the program tells by the clock: the tasks that fall due            *)
(* (ActivitiesService.remindDueTasks) and the billing notices              *)
(* (BillingNoticesService), with the migration of old accounts that a      *)
(* start-up runs before its own round of notices.                          *)
(***************************************************************************)
EXTENDS Naturals, FiniteSets

CONSTANTS
    Tasks,
    Batch,             \* tasks of one pass (200)
    Accounts,          \* tenants on a paid plan
    Nothing,
    ClockScenes

Rounds == {"daily", "boot"}
Turns  == {"edits", "rearms", "hours", "payments", "days", "faults", "crashes", "dailies"}

VARIABLES
    tasks,             \* status, when it is due, remindedAt
    pass,              \* the pass over the tasks at work
    tenants,           \* status, trial, grace periods given, notices, registered before billing
    round,             \* the rounds of notices at work
    told, repeated,    \* tasks told since they were armed, and told again since
    mailed, remailed,  \* notices mailed, and mailed again
    rearmed, blurred, paid, undone,  \* history
    turn

taskVars     == <<tasks, pass, told, repeated, rearmed>>
history      == <<paid, undone>>
noticeVars   == <<tenants, round, mailed, remailed, history>>
reminderVars == <<taskVars, noticeVars, blurred, turn>>

NoPass  == [step |-> "rest", left |-> {}, on |-> Nothing]
NoRound == [step |-> "rest", left |-> {}, on |-> Nothing, seen |-> [t \in {} |-> Nothing]]

\* A scene says how its tasks and tenants begin; every start runs the migration.
Init ==
    /\ turn \in ClockScenes
    /\ tasks = [k \in Tasks |-> turn.tasks[k]] /\ pass = NoPass
    /\ tenants = [a \in Accounts |-> turn.tenants[a]]
    /\ round = [n \in Rounds |-> IF n = "boot" /\ turn.boots THEN [NoRound EXCEPT !.step = "migrate"] ELSE NoRound]
    /\ told = {} /\ repeated = {} /\ mailed = {} /\ remailed = {}
    /\ rearmed = {} /\ blurred = {} /\ paid = {} /\ undone = {}

Spend(kind) == turn[kind] > 0 /\ turn' = [turn EXCEPT ![kind] = @ - 1]

-----------------------------------------------------------------------------
(* Tasks. *)

\* An hour passes: what was due later is due within the quarter.
TimePasses ==
    /\ Spend("hours")
    /\ tasks' = [k \in Tasks |-> [tasks[k] EXCEPT !.due = IF @ = "later" THEN "soon" ELSE @]]
    /\ UNCHANGED <<pass, told, repeated, rearmed, noticeVars, blurred>>

\* updateTask of the status, and removeTask.
updateTask(k, status) ==
    /\ tasks[k].status # "gone" /\ Spend("edits")
    /\ tasks' = [tasks EXCEPT ![k].status = status]
    /\ UNCHANGED <<pass, told, repeated, rearmed, noticeVars, blurred>>

\* Mutant of Armed: a new date leaves the reminder as it is.
ArmedAsBefore(k) == tasks[k].reminded

Armed(k) == FALSE

\* updateTask with a new date.
rearmTask(k) ==
    /\ tasks[k].status # "gone" /\ Spend("rearms")
    /\ tasks' = [tasks EXCEPT ![k].due = "later", ![k].reminded = Armed(k)]
    /\ told' = told \ {k} /\ repeated' = repeated \ {k}
    /\ rearmed' = IF k \in pass.left \/ pass.on = k THEN rearmed \cup {k} ELSE rearmed \ {k}
    /\ UNCHANGED <<pass, noticeVars, blurred>>

\* Mutant of Due: a pass also takes the tasks it told of before.
DueAgain(k) == tasks[k].status = "open" /\ tasks[k].due = "soon"

Due(k) == tasks[k].status = "open" /\ tasks[k].due = "soon" /\ ~tasks[k].reminded

\* remindDueTasks finds a batch of due tasks.
FindDue ==
    /\ pass = NoPass /\ \E k \in Tasks : Due(k)
    /\ \E batch \in SUBSET {k \in Tasks : Due(k)} :
         /\ Cardinality(batch) = IF Cardinality({k \in Tasks : Due(k)}) < Batch
                                 THEN Cardinality({k \in Tasks : Due(k)}) ELSE Batch
         /\ pass' = [step |-> "tell", left |-> batch, on |-> Nothing]
    /\ UNCHANGED <<tasks, told, repeated, rearmed, noticeVars, blurred, turn>>

\* It tells of one as it was found.
TellTask ==
    /\ pass.step = "tell" /\ pass.left # {}
    /\ \E k \in pass.left :
         /\ pass' = [step |-> "save", left |-> pass.left \ {k}, on |-> k]
         /\ told' = told \cup {k}
         /\ repeated' = IF k \in told THEN repeated \cup {k} ELSE repeated
    /\ UNCHANGED <<tasks, rearmed, noticeVars, blurred, turn>>

\* Its save fails when the task was removed, and the rest waits for the next pass.
SaveTask ==
    /\ pass.step = "save"
    /\ IF tasks[pass.on].status = "gone"
       THEN pass' = NoPass /\ UNCHANGED tasks
       ELSE /\ tasks' = [tasks EXCEPT ![pass.on].reminded = TRUE]
            /\ pass' = [pass EXCEPT !.step = "tell", !.on = Nothing]
    /\ UNCHANGED <<told, repeated, rearmed, noticeVars, blurred, turn>>

EndPass ==
    /\ pass.step = "tell" /\ pass.left = {}
    /\ pass' = NoPass
    /\ UNCHANGED <<tasks, told, repeated, rearmed, noticeVars, blurred, turn>>

\* The database refuses a save.
PassFails ==
    /\ pass.step = "save" /\ Spend("faults")
    /\ pass' = NoPass /\ blurred' = blurred \cup {pass.on}
    /\ UNCHANGED <<tasks, told, repeated, rearmed, noticeVars>>

-----------------------------------------------------------------------------
(* Billing notices. *)

\* Days pass: a trial comes to its last days, and then to its end.
DaysPass(a) ==
    /\ tenants[a].trial \in {"running", "ending"} /\ Spend("days")
    /\ tenants' = [tenants EXCEPT ![a].trial = IF @ = "running" THEN "ending" ELSE "over"]
    /\ UNCHANGED <<taskVars, round, mailed, remailed, history, blurred>>

\* Stripe tells of a payment, or of one that failed.
Pay(a, status) ==
    /\ tenants[a].status # status /\ Spend("payments")
    /\ tenants' = [tenants EXCEPT ![a].status = status, ![a].stripe = TRUE]
    /\ paid' = paid \cup {a}
    /\ undone' = IF \E n \in Rounds : a \in round[n].left \cup {round[n].on} THEN undone \cup {a} ELSE undone
    /\ UNCHANGED <<taskVars, round, mailed, remailed, blurred>>

\* The stamp is the day the trial ends: a grace period has another one.
Key(seen, kind) == <<kind, seen.graces>>

\* dueNotice of the tenant as it was read: none, or the notice's key.
DueNotice(seen) ==
    CASE seen.status = "past_due" -> <<"past_due", 0>>
      [] seen.status = "trialing" /\ seen.trial = "ending" -> Key(seen, "ending")
      [] seen.status = "trialing" /\ seen.trial = "over" -> Key(seen, "expired")
      [] OTHER -> <<"none", 0>>

Turn(n, record) == round' = [round EXCEPT ![n] = record]
Snapshot(S) == [a \in S |-> tenants[a]]

\* A round reads the tenants while the other one is at work.
Met(n) == IF \E m \in Rounds \ {n} : round[m].step \in {"migrating", "check", "record"}
          THEN blurred \cup Accounts ELSE blurred

Legacy(a) == ~tenants[a].marked

\* migrateLegacyTenants finds the tenants without its mark.
FindLegacy ==
    /\ round["boot"].step = "migrate" /\ round["boot"].on = Nothing
    /\ LET S == {a \in Accounts : Legacy(a)} IN
         Turn("boot", [step |-> "migrating", left |-> S, on |-> Nothing, seen |-> Snapshot(S)])
    /\ blurred' = Met("boot")
    /\ UNCHANGED <<taskVars, tenants, mailed, remailed, history, turn>>

\* Only who was on trial, or has no status, is on trial afterwards.
Status(seen) == seen.status

\* An expired trial that Stripe knows nothing of gets a grace period.
Graced(seen) == ~seen.stripe /\ seen.status = "trialing" /\ seen.trial = "over"

\* The save writes the whole subscription, as it was read, and the mark.
Migrated(account, seen) ==
    [account EXCEPT !.marked = TRUE, !.status = Status(seen), !.stripe = seen.stripe, !.notices = seen.notices,
                    !.trial = IF Graced(seen) THEN "running" ELSE @,
                    !.graces = IF Graced(seen) THEN @ + 1 ELSE @]

MigrateOne ==
    /\ round["boot"].step = "migrating" /\ round["boot"].left # {}
    /\ \E a \in round["boot"].left :
         LET seen == round["boot"].seen[a] IN
         /\ tenants' = [tenants EXCEPT ![a] = Migrated(tenants[a], seen)]
         /\ Turn("boot", [round["boot"] EXCEPT !.left = @ \ {a}])
    /\ UNCHANGED <<taskVars, mailed, remailed, history, blurred, turn>>

\* runDailyChecks: at nine, and after the migration of a start-up.
FindTenants(n) ==
    /\ \/ n = "daily" /\ round[n] = NoRound /\ Spend("dailies")
       \/ n = "boot" /\ round[n].step = "migrating" /\ round[n].left = {} /\ UNCHANGED turn
    /\ LET S == {a \in Accounts : tenants[a].status \in {"trialing", "past_due"}} IN
         Turn(n, [step |-> "check", left |-> S, on |-> Nothing, seen |-> Snapshot(S)])
    /\ blurred' = Met(n)
    /\ UNCHANGED <<taskVars, tenants, mailed, remailed, history>>

\* Nothing is due, or it was recorded when the round read the tenant.
Known(seen) == DueNotice(seen)[1] = "none" \/ DueNotice(seen) \in seen.notices

\* checkTenant: the mail goes out, or the mailer says it did not.
MailNotice(n) ==
    /\ round[n].step = "check" /\ round[n].left # {}
    /\ \E a \in round[n].left :
         LET seen == round[n].seen[a]   notice == <<a, DueNotice(seen)>> IN
         \/ /\ Known(seen)
            /\ Turn(n, [round[n] EXCEPT !.left = @ \ {a}])
            /\ UNCHANGED <<mailed, remailed, turn>>
         \/ /\ ~Known(seen)
            /\ Turn(n, [round[n] EXCEPT !.step = "record", !.left = @ \ {a}, !.on = a])
            /\ \/ /\ mailed' = mailed \cup {notice} /\ UNCHANGED turn
                  /\ remailed' = IF notice \in mailed THEN remailed \cup {notice} ELSE remailed
               \/ Spend("faults") /\ UNCHANGED <<mailed, remailed>>
    /\ UNCHANGED <<taskVars, tenants, history, blurred>>

\* The save writes all the notices the round knows of.
RecordNotice(n) ==
    /\ round[n].step = "record"
    /\ LET a == round[n].on   seen == round[n].seen[a] IN
         /\ tenants' = [tenants EXCEPT ![a].notices = seen.notices \cup {DueNotice(seen)}]
         /\ Turn(n, [round[n] EXCEPT !.step = "check", !.on = Nothing])
    /\ UNCHANGED <<taskVars, mailed, remailed, history, blurred, turn>>

EndRound(n) ==
    /\ round[n].step = "check" /\ round[n].left = {}
    /\ Turn(n, NoRound)
    /\ UNCHANGED <<taskVars, tenants, mailed, remailed, history, blurred, turn>>

-----------------------------------------------------------------------------
\* The process ends and starts again.
Crash ==
    /\ Spend("crashes")
    /\ pass' = NoPass
    /\ round' = [n \in Rounds |-> IF n = "boot" THEN [NoRound EXCEPT !.step = "migrate"] ELSE NoRound]
    /\ blurred' = blurred \cup ({pass.on, round["daily"].on, round["boot"].on} \ {Nothing})
    /\ UNCHANGED <<tasks, told, repeated, rearmed, tenants, mailed, remailed, history>>

Passing  == FindDue \/ TellTask \/ SaveTask \/ EndPass
Booting  == FindLegacy \/ MigrateOne
Going(n) == MailNotice(n) \/ RecordNotice(n) \/ EndRound(n)

Next ==
    \/ TimePasses
    \/ \E k \in Tasks : rearmTask(k) \/ \E s \in {"open", "done", "gone"} : updateTask(k, s)
    \/ Passing \/ PassFails
    \/ \E a \in Accounts : DaysPass(a) \/ \E s \in {"active", "past_due"} : Pay(a, s)
    \/ Booting
    \/ \E n \in Rounds : FindTenants(n) \/ Going(n)
    \/ Crash

\* The pass over the tasks comes every five minutes and each await comes back.
Fairness == WF_reminderVars(Passing)

RemindersSpec == Init /\ [][Next]_reminderVars /\ Fairness

-----------------------------------------------------------------------------
\* A round works on tenants it has read, and the records are the code's.
TypeOK ==
    /\ \A k \in Tasks : /\ tasks[k].status \in {"open", "done", "gone"}
                        /\ tasks[k].due \in {"none", "later", "soon"} /\ tasks[k].reminded \in BOOLEAN
    /\ pass.left \subseteq Tasks /\ pass.on \in Tasks \cup {Nothing}
    /\ \A a \in Accounts : /\ tenants[a].status \in {"trialing", "active", "past_due"}
                           /\ tenants[a].trial \in {"running", "ending", "over"}
    /\ \A n \in Rounds : round[n].left \cup ({round[n].on} \ {Nothing}) \subseteq DOMAIN round[n].seen

\* A task is told of once for each date it is given, unless its save failed, a crash
\* came between or the date changed under the pass.
TaskOnce == \A k \in repeated : k \in blurred \/ k \in rearmed

\* Open tasks that are due and have not been told of, unless their date changed under a pass.
Untold == {k \in Tasks \ (told \cup rearmed) : tasks[k].status = "open" /\ tasks[k].due = "soon"}

\* Open tasks that fall due are told of.
DueIsTold == Untold # {} ~> Untold = {}

\* "A new due date re-arms the reminder": the same without the exception.
NewDateIsTold ==
    \A k \in Tasks : (tasks[k].status = "open" /\ tasks[k].due = "soon")
                     ~> (k \in told \/ tasks[k].status # "open" \/ tasks[k].due # "soon")

\* A notice is mailed once for each end of a trial and for a failed payment, unless two
\* rounds met or a crash came before it was recorded.
NoticeOnce == \A notice \in remailed : notice[1] \in blurred

\* "Keyed to avoid duplicates": the same without the exceptions.
NoticeOnceAlways == remailed = {}

\* The migration gives a grace period once, however often the program starts.
GraceOnce == \A a \in Accounts : tenants[a].graces <= 1

\* Who pays, or ought to, is not on trial again, unless Stripe told of it while a round
\* was at work on the account.
PaidIsKept == \A a \in paid \ undone : tenants[a].status # "trialing"

\* "Tenants created before real billing existed": only those get a grace period.
GraceIsForLegacy == \A a \in Accounts : tenants[a].graces > 0 => tenants[a].old

\* Rounds and start-ups that come again do nothing twice: reminders, notices, the grace
\* period of the migration; and they take nothing back from who pays.
RoundsInOrder == TypeOK /\ TaskOnce /\ NoticeOnce /\ GraceOnce /\ PaidIsKept
=============================================================================
