------------------------------ MODULE Sessions ------------------------------
(***************************************************************************)
(* The password of a user: the links that reset it, the sessions opened    *)
(* with it, and what a change of it does to them (AuthService, JwtStrategy,*)
(* UsersService).                                                          *)
(*                                                                         *)
(* Time is counted in ticks, Second of them to a second: a token says in   *)
(* which second it was signed, a password the very moment it was changed.  *)
(***************************************************************************)
EXTENDS Naturals, FiniteSets

CONSTANTS
    MaxLinks,     \* bound of the reset links that are created
    Slots,        \* requests in progress at once
    Second, AccessLife, RefreshLife,  \* durations, in ticks
    Gap, LinkLife,                    \* a minute and an hour, on a coarser clock
    Scenes        \* bounds on what happens

Ids   == 1 .. MaxLinks
Kinds == {"logins", "refreshes", "forgets", "changes", "updates", "faults", "losses", "expiries",
          "ticks", "forgotten"}

VARIABLES
    now,
    password,   \* how often it was set; what the user types is one of them
    epoch,      \* history: how often a change of it was dated
    changedAt,  \* user.passwordChangedAt
    links,      \* PasswordReset documents: id and age
    made,       \* how many there were
    held,       \* links that reached the user
    uses,       \* history: what each link changed
    tokens,     \* signed tokens; history: when it and its session were opened, and in which epoch
    changes,    \* history: when the password was changed
    work,       \* what each slot is doing
    crossed,    \* history: a request for a link came while another was at it
    budget

vars == <<now, password, epoch, changedAt, links, made, held, uses, tokens, changes, work, crossed, budget>>
NoToken == [kind |-> "none", iat |-> 0, at |-> 0, born |-> 0, epoch |-> 0, raced |-> FALSE]
Free    == [step |-> "idle", id |-> 0, seen |-> 0, since |-> 0, token |-> NoToken]

Init ==
    /\ now = Second /\ password = 1 /\ epoch = 1 /\ changedAt = 0
    /\ links = {} /\ made = 0 /\ held = {} /\ uses = [i \in Ids |-> 0]
    /\ tokens = {} /\ changes = {}
    /\ work = [r \in Slots |-> Free]
    /\ crossed = FALSE
    /\ budget \in Scenes

Spend(kind) == budget[kind] > 0 /\ budget' = [budget EXCEPT ![kind] = @ - 1]
At(r, step) == work[r].step = step
Goto(r, f)  == work' = [work EXCEPT ![r] = f]
Finish(r)   == Goto(r, Free)

user     == <<password, epoch, changedAt, changes>>
recovery == <<links, made, held, uses, crossed>>

Alive(l) == l.age < LinkLife

\* Time passes; that a link grows too old on its way has a bound.
Tick ==
    /\ Spend("ticks") /\ now' = now + 1
    /\ UNCHANGED <<user, recovery, tokens, work>>

Age ==
    /\ \E l \in links : Alive(l)
    /\ links' = {[l EXCEPT !.age = IF Alive(l) THEN @ + 1 ELSE @] : l \in links}
    /\ IF \E l \in links : l.age + 1 = LinkLife /\ (l.id \in held \/ \E r \in Slots : work[r].id = l.id) THEN Spend("expiries") ELSE UNCHANGED budget
    /\ UNCHANGED <<now, user, made, held, uses, crossed, tokens, work>>

-----------------------------------------------------------------------------
(* Sessions. *)

SecondOf(t) == (t \div Second) * Second

Token(kind, born, ep, raced) ==
    [kind |-> kind, iat |-> SecondOf(now), at |-> now, born |-> born, epoch |-> ep, raced |-> raced]

\* What JwtStrategy and refreshTokens refuse: signed before the last change,
\* with a second of grace.
ChangedSince(iat, changed) == changed > 0 /\ iat + Second < changed

Live(t) == now < t.iat + IF t.kind = "access" THEN AccessLife ELSE RefreshLife

\* JwtStrategy.validate
Accepted(t) == t.kind = "access" /\ Live(t) /\ ~ChangedSince(t.iat, changedAt)

\* login: the user is loaded, his password compared, the tokens signed.
Login(r) ==
    /\ work[r] = Free /\ Spend("logins")
    /\ Goto(r, [Free EXCEPT !.step = "compare", !.seen = password, !.since = epoch])
    /\ UNCHANGED <<now, user, recovery, tokens>>

\* The right password is the one that was loaded.
Compared(r) ==
    /\ At(r, "compare")
    /\ tokens' = tokens \cup {Token(k, now, work[r].since, work[r].since # epoch) : k \in {"access", "refresh"}}
    /\ Finish(r)
    /\ UNCHANGED <<now, user, recovery, budget>>

RefreshChecks(t) == ~ChangedSince(t.iat, changedAt)

\* refreshTokens: the user is loaded, then the new token signed.
Refresh(r, t) ==
    /\ work[r] = Free /\ t.kind = "refresh" /\ Live(t) /\ Spend("refreshes")
    /\ IF RefreshChecks(t) THEN Goto(r, [Free EXCEPT !.step = "sign", !.since = epoch, !.token = t])
                           ELSE UNCHANGED work
    /\ UNCHANGED <<now, user, recovery, tokens>>

Sign(r) ==
    LET t == work[r].token IN
    /\ At(r, "sign")
    /\ tokens' = tokens \cup {Token("access", t.born, t.epoch, t.raced \/ work[r].since # epoch)}
    /\ Finish(r)
    /\ UNCHANGED <<now, user, recovery, budget>>

-----------------------------------------------------------------------------
(* The password. *)

changePassword ==
    /\ password' = password + 1 /\ epoch' = epoch + 1
    /\ changedAt' = now /\ changes' = changes \cup {now}

\* An admin sets it for the user.
AdminChange ==
    /\ Spend("changes") /\ changePassword
    /\ UNCHANGED <<now, recovery, tokens, work>>

\* update writes a new password too, but no date.
UpdateUser ==
    /\ Spend("updates")
    /\ password' = password + 1
    /\ UNCHANGED <<now, epoch, changedAt, changes, recovery, tokens, work>>

-----------------------------------------------------------------------------
(* Links. *)

\* Mutant of TooSoon: any link keeps a new one from being sent.
TooSoonForAny == links # {}

TooSoon == \E l \in links : l.age < Gap

\* Requests for a link that are on their way.
Asking == {r \in Slots : work[r].step \in {"delete", "create", "mail"}}

forgotPassword(r) ==
    /\ work[r] = Free /\ ~TooSoon
    /\ Goto(r, [Free EXCEPT !.step = "delete"])
    /\ crossed' = (crossed \/ \E s \in Slots : work[s].step \in {"delete", "create"})
    /\ UNCHANGED <<now, user, links, made, held, uses, tokens>>

\* Asking again although a link may come, and asking because there is none.
AskAgain(r)     == made + Cardinality(Asking) < MaxLinks /\ Spend("forgets") /\ forgotPassword(r)
AskForOne(r) == /\ budget.forgotten > 0 /\ held = {} /\ Asking = {} /\ \A i \in Ids : uses[i] = 0
                /\ \A s \in Slots : work[s].step \notin {"change", "others"}
                /\ made < MaxLinks
                /\ forgotPassword(r) /\ UNCHANGED budget

Remaining == {}

DeleteOld(r) ==
    /\ At(r, "delete")
    /\ links' = Remaining
    /\ Goto(r, [work[r] EXCEPT !.step = "create"])
    /\ UNCHANGED <<now, user, made, held, uses, crossed, tokens, budget>>

CreateLink(r) ==
    /\ At(r, "create") /\ made < MaxLinks
    /\ made' = made + 1
    /\ links' = links \cup {[id |-> made', age |-> 0]}
    /\ Goto(r, [work[r] EXCEPT !.step = "mail", !.id = made'])
    /\ UNCHANGED <<now, user, held, uses, crossed, tokens, budget>>

\* A mail that cannot be sent is logged, nothing else.
SendLink(r) ==
    /\ At(r, "mail")
    /\ \/ held' = held \cup {work[r].id} /\ UNCHANGED budget
       \/ Spend("losses") /\ UNCHANGED held
    /\ Finish(r)
    /\ UNCHANGED <<now, user, links, made, uses, crossed, tokens>>

\* Mutant of Consumed: the link is found, and deleted at the end only.
ConsumedLater(l) == links

Consumed(l) == links \ {l}

\* resetPassword: the link is found and deleted at once; one that is not there
\* or too old is refused, and the user throws it away.
resetPassword(r, i) ==
    /\ work[r] = Free /\ i \in held
    /\ \/ \E l \in links : /\ l.id = i /\ Alive(l)
                           /\ links' = Consumed(l)
                           /\ Goto(r, [Free EXCEPT !.step = "change", !.id = i])
                           /\ UNCHANGED held
       \/ /\ \A l \in links : l.id = i => ~Alive(l)
          /\ held' = held \ {i}
          /\ UNCHANGED <<links, work>>
    /\ UNCHANGED <<now, user, made, uses, crossed, tokens, budget>>

ChangeByLink(r) ==
    /\ At(r, "change")
    /\ changePassword
    /\ uses' = [uses EXCEPT ![work[r].id] = @ + 1]
    /\ Goto(r, [work[r] EXCEPT !.step = "others"])
    /\ UNCHANGED <<now, links, made, held, crossed, tokens, budget>>

DeleteOthers(r) ==
    /\ At(r, "others")
    /\ links' = {}
    /\ Finish(r)
    /\ UNCHANGED <<now, user, made, held, uses, crossed, tokens, budget>>

\* Mongo deletes a link some time after it expired.
Purge ==
    /\ \E l \in links : ~Alive(l) /\ links' = links \ {l}
    /\ UNCHANGED <<now, user, made, held, uses, crossed, tokens, work, budget>>

\* The process dies in the middle of a request.
Fault(r) ==
    /\ work[r] # Free /\ Spend("faults")
    /\ Finish(r)
    /\ UNCHANGED <<now, user, recovery, tokens>>

-----------------------------------------------------------------------------

Step(r) == \/ Compared(r) \/ Sign(r) \/ DeleteOld(r) \/ CreateLink(r)
           \/ SendLink(r) \/ ChangeByLink(r) \/ DeleteOthers(r)

Next ==
    \/ Tick \/ Age \/ AdminChange \/ UpdateUser \/ Purge
    \/ \E r \in Slots : \/ Step(r) \/ Fault(r) \/ Login(r) \/ AskAgain(r) \/ AskForOne(r)
                        \/ \E t \in tokens : Refresh(r, t)
                        \/ \E i \in Ids : resetPassword(r, i)

\* Requests go on and time passes; a user who forgot his password asks for a
\* link when he holds none and uses the one he holds.
Fairness ==
    /\ WF_vars(Tick) /\ WF_vars(Age)
    /\ \A r \in Slots : WF_vars(Step(r))
    /\ WF_vars(\E r \in Slots : AskForOne(r))
    /\ WF_vars(\E r \in Slots, i \in Ids : resetPassword(r, i))

Spec == Init /\ [][Next]_vars /\ Fairness

-----------------------------------------------------------------------------
(* Properties. *)

\* "A password change / reset ends every session that was opened before it":
\* but for the two seconds a token's date is rounded by and allowed, and for a
\* login or refresh that had loaded the user before.
OldSessionsEnd ==
    \A t \in tokens : Accepted(t) /\ t.epoch < epoch /\ ~t.raced =>
        \E c \in changes, opened \in {t.born, t.at} : opened <= c /\ c < opened + 2 * Second

\* "one live link per user": unless two requests for one overlap.
OneLiveLink == ~crossed => Cardinality({l \in links : Alive(l)}) <= 1

\* "works once": a link changes the password once, whoever opens it twice.
LinkWorksOnce == \A i \in Ids : uses[i] <= 1

\* Who asks for a link gets a new password in the end, whatever mail is lost,
\* request dies or link grows old on the way.
PasswordRecovered == budget.forgotten > 0 => <>(\E i \in Ids : uses[i] > 0)

\* A change of the password by update is a change too: it ends no session.
UpdateEndsSessions ==
    [][password' # password => \A t \in tokens : Accepted(t)' => t.born + 2 * Second > now]_vars

\* Every variable keeps its type.
TypeOK ==
    /\ now \in Nat /\ password \in Nat /\ epoch \in Nat /\ changedAt \in Nat /\ made \in 0..MaxLinks
    /\ links \subseteq [id : Ids, age : 0..LinkLife] /\ held \subseteq Ids /\ uses \in [Ids -> Nat]
    /\ changes \subseteq 0..now /\ crossed \in BOOLEAN
    /\ \A k \in Kinds : budget[k] \in Nat

\* What a new password puts an end to: the link that set it, the links before that
\* one, and the sessions that were opened with the old one.
SessionsInOrder == TypeOK /\ OneLiveLink /\ LinkWorksOnce /\ OldSessionsEnd
=============================================================================
