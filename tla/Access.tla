------------------------------- MODULE Access -------------------------------
(***************************************************************************)
(* Who may enter an account and its workspaces: registration, invitations, *)
(* and the memberships that every request is checked against               *)
(* (AuthService, InvitationsService, MembershipsService, UsersController,  *)
(* MembershipsController).                                                 *)
(*                                                                         *)
(* There is one account.  A request occupies a slot and every await in it  *)
(* is a step, so two requests interleave and one may die half way.         *)
(***************************************************************************)
EXTENDS Naturals, FiniteSets

CONSTANTS
    People,      \* e-mail addresses
    Invites,     \* invitations that can be created
    Workspaces,
    Slots,       \* requests in progress at once
    Offers,      \* what an invitation says: to whom, which role, which workspaces
    Scenes       \* initial contents of the account and bounds on what happens

None == "none"
Here == "here"      \* user.tenantId is this account
Away == "away"      \* it is another one

UserRoles    == {"admin", "manager", "agent", "viewer"}
AccountRoles == UserRoles \cup {"owner"}
Managers     == {"owner", "admin"}

Kinds == {"uses", "invites", "cancels", "grants", "revokes", "roles", "faults", "expiries"}

ASSUME AccessAssumption ==
    /\ None \notin People \cup Invites \cup Workspaces
    /\ Offers \subseteq [to : People, role : UserRoles, wks : SUBSET Workspaces]
    /\ Scenes \subseteq [tenant   : BOOLEAN,
                         home     : [People -> {None, Here, Away}],
                         userRole : [People -> UserRoles],
                         member   : [People -> AccountRoles \cup {None}],
                         budget   : [Kinds -> Nat]]

VARIABLES
    tenant,              \* the account is there and its slug taken
    home, userRole,      \* users
    member,              \* AccountMember: role of who has a record
    access,              \* WorkspaceMember: status
    invite,              \* invitations
    request,             \* what each slot is doing
    allowed,             \* history: access somebody decided to give
    overlapped, crowded, \* history: a request came between look and write of another
    demoted,             \* history: an owner accepted an invitation
    budget

users   == <<home, userRole>>
records == <<member, access>>
history == <<allowed, overlapped, crowded, demoted>>
vars    == <<tenant, users, records, invite, request, history, budget>>

NoOffer == [to |-> None, role |-> "agent", wks |-> {}]
Blank  == [to |-> None, role |-> "agent", wks |-> {}, status |-> None, old |-> FALSE]
Idle   == [kind |-> None, step |-> "idle", who |-> None, inv |-> None, ws |-> None,
           offer |-> NoOffer, new |-> None, role |-> None, left |-> {}]

Init ==
    /\ \E s \in Scenes : /\ tenant = s.tenant /\ home = s.home /\ userRole = s.userRole
                         /\ member = s.member /\ budget = s.budget
    /\ access = [p \in People |-> [w \in Workspaces |-> None]]
    /\ invite = [i \in Invites |-> Blank]
    /\ request = [r \in Slots |-> Idle]
    /\ allowed = {} /\ overlapped = FALSE /\ crowded = FALSE /\ demoted = FALSE

Spend(kind) == budget[kind] > 0 /\ budget' = [budget EXCEPT ![kind] = @ - 1]

At(r, kind, step)  == request[r].kind = kind /\ request[r].step = step
Become(r, f)       == request' = [request EXCEPT ![r] = f]
GoTo(r, step)      == request' = [request EXCEPT ![r].step = step]
End(r)             == Become(r, Idle)
Start(r, f)        == request[r] = Idle /\ Become(r, f)
Asked(kind, p)     == [Idle EXCEPT !.kind = kind, !.step = "member", !.who = p]

\* Requests between the look at a membership and the write of it.
Deciding(r) == request[r].step \in {"backfill", "owner?", "join", "owner"}

HasOwner == \E p \in People : member[p] = "owner"

-----------------------------------------------------------------------------
(* What the other services call. *)

\* ensureAccountMember: an upsert that writes the role whatever it was.
ensureAccountMember(p, role) ==
    member' = [member EXCEPT ![p] = role]

\* setWorkspaceAccess: an upsert too, of a record that may have been suspended.
setWorkspaceAccess(p, w) == access' = [access EXCEPT ![p][w] = "active"]

\* Decisions that a request still on its way stands for.
Underway(p) == {w \in Workspaces : \E r \in Slots :
                   /\ request[r].who = p /\ request[r].step # "idle"
                   /\ \/ request[r].kind = "accept" /\ w \in invite[request[r].inv].wks
                      \/ request[r].step \in {"join", "all", "each"}}

-----------------------------------------------------------------------------
(* Registration. *)

RegisterTenant(r, p) ==
    /\ ~tenant
    /\ Start(r, [Idle EXCEPT !.kind = "register", !.step = "user", !.who = p])
    /\ tenant' = TRUE
    /\ UNCHANGED <<users, records, invite, history, budget>>

RegisterUser(r) ==
    LET p == request[r].who IN
    /\ At(r, "register", "user")
    /\ \/ /\ home[p] = None
          /\ home' = [home EXCEPT ![p] = Here] /\ userRole' = [userRole EXCEPT ![p] = "admin"]
          /\ GoTo(r, "owner")
       \/ home[p] # None /\ End(r) /\ UNCHANGED users
    /\ UNCHANGED <<tenant, records, invite, history, budget>>

RegisterOwner(r) ==
    /\ At(r, "register", "owner")
    /\ ensureAccountMember(request[r].who, "owner")
    /\ End(r)
    /\ UNCHANGED <<tenant, users, access, invite, history, budget>>

-----------------------------------------------------------------------------
(* Every other request of a user starts with findActiveAccountMember.      *)

\* Mutant of NeedsBackfill: whoever asks is written again from his user.
NeedsBackfillAlways(p) == TRUE

\* Only backfill when there is no record at all.
NeedsBackfill(p) == member[p] = None

findActiveAccountMember(r) ==
    LET p == request[r].who IN
    /\ request[r].step = "member"
    /\ IF NeedsBackfill(p)
         THEN GoTo(r, "backfill") /\ overlapped' = (overlapped \/ \E s \in Slots \ {r} : Deciding(s))
         ELSE Become(r, [request[r] EXCEPT !.step = "checked", !.role = member[p]]) /\ UNCHANGED overlapped
    /\ UNCHANGED <<tenant, users, records, invite, allowed, crowded, demoted, budget>>

toAccountRole(role) == IF role \in {"admin", "manager", "agent"} THEN role ELSE "viewer"

\* The roles backfillLegacyMember chooses.
LegacyRole(role)    == IF role = "manager" THEN "manager" ELSE "agent"

backfillLegacyMember(r) ==
    LET p == request[r].who IN
    /\ request[r].step = "backfill"
    /\ \/ home[p] # Here /\ End(r)
       \/ home[p] = Here /\ userRole[p] = "admin" /\ GoTo(r, "owner?")
       \/ /\ home[p] = Here /\ userRole[p] # "admin"
          /\ Become(r, [request[r] EXCEPT !.step = "join", !.role = LegacyRole(userRole[p])])
    /\ allowed' = allowed \cup IF home[p] = Here /\ userRole[p] # "admin" THEN {p} \X Workspaces ELSE {}
    /\ UNCHANGED <<tenant, users, records, invite, overlapped, crowded, demoted, budget>>

\* The first admin of a legacy account becomes the owner.
RoleOfAdmin == IF HasOwner THEN "admin" ELSE "owner"

LookForOwner(r) ==
    /\ request[r].step = "owner?"
    /\ Become(r, [request[r] EXCEPT !.step = "join", !.role = RoleOfAdmin])
    /\ UNCHANGED <<tenant, users, records, invite, history, budget>>

Join(r) ==
    /\ request[r].step = "join"
    /\ ensureAccountMember(request[r].who, request[r].role)
    /\ GoTo(r, IF request[r].role \in Managers THEN "checked" ELSE "all")
    /\ UNCHANGED <<tenant, users, access, invite, history, budget>>

\* Access to the workspaces there are, one after the other.
FindWorkspaces(r) ==
    /\ request[r].step = "all"
    /\ Become(r, [request[r] EXCEPT !.step = "each", !.left = Workspaces])
    /\ UNCHANGED <<tenant, users, records, invite, history, budget>>

BackfillAccess(r) ==
    /\ request[r].step = "each"
    /\ \/ \E w \in request[r].left : /\ setWorkspaceAccess(request[r].who, w)
                                     /\ Become(r, [request[r] EXCEPT !.left = @ \ {w}])
       \/ request[r].left = {} /\ GoTo(r, "checked") /\ UNCHANGED access
    /\ UNCHANGED <<tenant, users, member, invite, history, budget>>

-----------------------------------------------------------------------------
(* What the requests are. *)

\* WorkspaceScopeGuard of a request for a workspace, whichever, and switchAccount.
assertUsable(r, p) ==
    /\ Spend("uses") /\ home[p] # None
    /\ Start(r, Asked("use", p))
    /\ UNCHANGED <<tenant, users, records, invite, history>>

\* assertCanAccessWorkspace, or the tokens of switchAccount: nothing is written.
Checked(r) ==
    /\ At(r, "use", "checked")
    /\ End(r)
    /\ UNCHANGED <<tenant, users, records, invite, history, budget>>

\* assertCanManageAccount: what follows is for owners and admins.
Manage(r, f) ==
    /\ home[f.who] # None
    /\ Start(r, f)
    /\ UNCHANGED <<tenant, users, records, invite, history>>

assertCanManageAccount(r, kind) == At(r, kind, "checked") /\ request[r].role \in Managers

Forbidden(r) ==
    /\ request[r].step = "checked" /\ request[r].kind # "use"
    /\ request[r].role \notin Managers
    /\ End(r)
    /\ UNCHANGED <<tenant, users, records, invite, history, budget>>

AskInvite(r, p, o) == Spend("invites") /\ Manage(r, [Asked("invite", p) EXCEPT !.offer = o])

Pending(p) == \E i \in Invites : invite[i].to = p /\ invite[i].status = "pending"

\* create: looks for a pending invitation of the same address, then saves one.
LookForInvitation(r) ==
    /\ assertCanManageAccount(r, "invite")
    /\ IF Pending(request[r].offer.to) THEN End(r) ELSE GoTo(r, "save")
    /\ crowded' = (crowded \/ \E s \in Slots \ {r} :
                      At(s, "invite", "save") /\ request[s].offer.to = request[r].offer.to)
    /\ UNCHANGED <<tenant, users, records, invite, allowed, overlapped, demoted, budget>>

SaveInvitation(r, i) ==
    /\ At(r, "invite", "save") /\ invite[i] = Blank
    /\ invite' = [invite EXCEPT ![i] = [to |-> request[r].offer.to, role |-> request[r].offer.role,
                                        wks |-> request[r].offer.wks, status |-> "pending", old |-> FALSE]]
    /\ End(r)
    /\ UNCHANGED <<tenant, users, records, history, budget>>

AskCancel(r, p, i) == Spend("cancels") /\ invite[i] # Blank /\ Manage(r, [Asked("cancel", p) EXCEPT !.inv = i])

\* cancel writes CANCELLED whatever the status was.
CancelInvitation(r) ==
    /\ assertCanManageAccount(r, "cancel")
    /\ invite' = [invite EXCEPT ![request[r].inv].status = "cancelled"]
    /\ End(r)
    /\ UNCHANGED <<tenant, users, records, history, budget>>

AskGrant(r, p, q, w) == Spend("grants") /\ home[q] # None
                        /\ Manage(r, [Asked("grant", p) EXCEPT !.inv = q, !.ws = w])

GrantAccess(r) ==
    /\ assertCanManageAccount(r, "grant")
    /\ setWorkspaceAccess(request[r].inv, request[r].ws)
    /\ allowed' = allowed \cup {<<request[r].inv, request[r].ws>>}
    /\ End(r)
    /\ UNCHANGED <<tenant, users, member, invite, overlapped, crowded, demoted, budget>>

AskRevoke(r, p, q, w) == Spend("revokes") /\ home[q] # None
                         /\ Manage(r, [Asked("revoke", p) EXCEPT !.inv = q, !.ws = w])

\* revokeWorkspaceAccess: only of an active record.
RevokeAccess(r) ==
    LET q == request[r].inv  w == request[r].ws IN
    /\ assertCanManageAccount(r, "revoke")
    /\ \/ /\ access[q][w] = "active"
          /\ access' = [access EXCEPT ![q][w] = "suspended"]
          /\ allowed' = IF w \in Underway(q) THEN allowed ELSE allowed \ {<<q, w>>}
       \/ access[q][w] # "active" /\ UNCHANGED <<access, allowed>>
    /\ End(r)
    /\ UNCHANGED <<tenant, users, member, invite, overlapped, crowded, demoted, budget>>

AskRole(r, p, q, role) == Spend("roles") /\ home[q] = Here
                          /\ Manage(r, [Asked("role", p) EXCEPT !.inv = q, !.new = role])

\* changeRole: of the user, not of his membership.
changeRole(r) ==
    /\ assertCanManageAccount(r, "role")
    /\ userRole' = [userRole EXCEPT ![request[r].inv] = request[r].new]
    /\ overlapped' = (overlapped \/ \E s \in Slots : request[s].who = request[r].inv /\ Deciding(s))
    /\ End(r)
    /\ UNCHANGED <<tenant, home, records, invite, allowed, crowded, demoted, budget>>

-----------------------------------------------------------------------------
(* Accepting an invitation. *)

\* Mutant of Open: the link of an invitation works for ever.
OpenForever(i) == invite[i] # Blank /\ ~invite[i].old

Open(i) == invite[i].status = "pending" /\ ~invite[i].old

\* The invited person opens the link; findByToken also closes an old one.
acceptInvite(r, i) ==
    /\ Open(i)
    /\ Start(r, [Idle EXCEPT !.kind = "accept", !.step = "find", !.who = invite[i].to, !.inv = i])
    /\ allowed' = allowed \cup IF invite[i].status = "pending" THEN {invite[i].to} \X invite[i].wks ELSE {}
    /\ UNCHANGED <<tenant, users, records, invite, overlapped, crowded, demoted, budget>>

Expire(i) ==
    /\ invite[i].status = "pending" /\ ~invite[i].old /\ Spend("expiries")
    /\ invite' = [invite EXCEPT ![i].old = TRUE]
    /\ UNCHANGED <<tenant, users, records, request, history>>

\* findByToken of an old invitation, or cleanupExpired.
CloseExpired(i) ==
    /\ invite[i].status = "pending" /\ invite[i].old
    /\ invite' = [invite EXCEPT ![i].status = "expired"]
    /\ UNCHANGED <<tenant, users, records, request, history, budget>>

\* Mutant of StepFor: an account is created for every acceptance.
StepForAll(p) == "create"

StepFor(p) == IF home[p] = None THEN "create" ELSE "enter"

FindUser(r) ==
    /\ At(r, "accept", "find")
    /\ GoTo(r, StepFor(request[r].who))
    /\ UNCHANGED <<tenant, users, records, invite, history, budget>>

\* users.create refuses an address that exists by then.
CreateUser(r) ==
    LET p == request[r].who IN
    /\ At(r, "accept", "create")
    /\ \/ /\ home[p] = None
          /\ home' = [home EXCEPT ![p] = Here]
          /\ userRole' = [userRole EXCEPT ![p] = invite[request[r].inv].role]
          /\ GoTo(r, "enter")
       \/ home[p] # None /\ End(r) /\ UNCHANGED users
    /\ UNCHANGED <<tenant, records, invite, history, budget>>

AfterEntering(r) == [request[r] EXCEPT !.step = "grant", !.left = invite[request[r].inv].wks]

Enter(r) ==
    LET i == request[r].inv IN
    /\ At(r, "accept", "enter")
    /\ ensureAccountMember(request[r].who, toAccountRole(invite[i].role))
    /\ Become(r, AfterEntering(r))
    /\ demoted' = (demoted \/ member[request[r].who] = "owner")
    /\ UNCHANGED <<tenant, users, access, invite, allowed, overlapped, crowded, budget>>

\* Promise.all of setWorkspaceAccess, in any order.
GrantChosen(r) ==
    /\ At(r, "accept", "grant")
    /\ \/ \E w \in request[r].left : /\ setWorkspaceAccess(request[r].who, w)
                                     /\ Become(r, [request[r] EXCEPT !.left = @ \ {w}])
       \/ request[r].left = {} /\ GoTo(r, "mark") /\ UNCHANGED access
    /\ UNCHANGED <<tenant, users, member, invite, history, budget>>

\* markAsAccepted writes ACCEPTED whatever the status is by now.
markAsAccepted(r) ==
    /\ At(r, "accept", "mark")
    /\ invite' = [invite EXCEPT ![request[r].inv].status = "accepted"]
    /\ End(r)
    /\ UNCHANGED <<tenant, users, records, history, budget>>

\* The process dies or the database refuses: what was written stays.
Fault(r) ==
    /\ request[r] # Idle /\ Spend("faults")
    /\ End(r)
    /\ UNCHANGED <<tenant, users, records, invite, history>>

-----------------------------------------------------------------------------

Step(r) ==
    \/ RegisterUser(r) \/ RegisterOwner(r)
    \/ findActiveAccountMember(r) \/ backfillLegacyMember(r) \/ LookForOwner(r)
    \/ Join(r) \/ FindWorkspaces(r) \/ BackfillAccess(r)
    \/ Checked(r) \/ Forbidden(r)
    \/ LookForInvitation(r) \/ (\E i \in Invites : SaveInvitation(r, i)) \/ CancelInvitation(r)
    \/ GrantAccess(r) \/ RevokeAccess(r) \/ changeRole(r)
    \/ FindUser(r) \/ CreateUser(r) \/ Enter(r) \/ GrantChosen(r) \/ markAsAccepted(r)

Ask(r) ==
    \/ \E i \in Invites : acceptInvite(r, i)
    \/ \E p \in People :
         \/ RegisterTenant(r, p) \/ assertUsable(r, p)
         \/ \E o \in Offers : AskInvite(r, p, o)
         \/ \E i \in Invites : AskCancel(r, p, i)
         \/ \E q \in People, w \in Workspaces : AskGrant(r, p, q, w) \/ AskRevoke(r, p, q, w)
         \/ \E q \in People, role \in {"admin", "agent"} : AskRole(r, p, q, role)

Next == \/ \E r \in Slots : Step(r) \/ Ask(r) \/ Fault(r)
        \/ \E i \in Invites : Expire(i) \/ CloseExpired(i)

\* A request goes on by itself; an invited person keeps trying.
Fairness ==
    /\ \A r \in Slots : WF_vars(Step(r))
    /\ \A i \in Invites : WF_vars(\E r \in Slots : acceptInvite(r, i))
    /\ \A i \in Invites : WF_vars(CloseExpired(i))

Spec == Init /\ [][Next]_vars /\ Fairness

-----------------------------------------------------------------------------
(* Properties. *)

Requests ==
    [kind : {None, "register", "use", "invite", "cancel", "grant", "revoke", "role", "accept"},
     step : {"idle", "user", "owner", "member", "checked", "backfill", "owner?", "join", "all", "each",
             "save", "find", "create", "enter", "grant", "mark"},
     who : People \cup {None}, inv : Invites \cup People \cup {None}, ws : Workspaces \cup {None},
     offer : Offers \cup {NoOffer}, new : UserRoles \cup {None}, role : AccountRoles \cup {None}, left : SUBSET Workspaces]

\* Every variable keeps its type.
TypeOK ==
    /\ tenant \in BOOLEAN
    /\ home \in [People -> {None, Here, Away}] /\ userRole \in [People -> UserRoles]
    /\ member \in [People -> AccountRoles \cup {None}]
    /\ access \in [People -> [Workspaces -> {None, "active", "suspended"}]]
    /\ invite \in [Invites -> [to : People \cup {None}, role : UserRoles, wks : SUBSET Workspaces,
                               status : {None, "pending", "accepted", "cancelled", "expired"}, old : BOOLEAN]]
    /\ request \in [Slots -> Requests]
    /\ allowed \subseteq People \X Workspaces
    /\ overlapped \in BOOLEAN /\ crowded \in BOOLEAN /\ demoted \in BOOLEAN
    /\ budget \in [Kinds -> Nat]

\* An account has one owner, unless two first requests of legacy users
\* overlapped: the search for an owner and the upsert are two awaits.
OneOwner == ~overlapped => \A p, q \in People : member[p] = "owner" /\ member[q] = "owner" => p = q

\* Once there is an owner there always is one, unless he accepted an invitation,
\* which nothing keeps from being sent to him, or first requests overlapped.
OwnerStays == [][HasOwner /\ ~demoted' /\ ~overlapped => HasOwner']_vars

\* "The first admin of a legacy tenant becomes the owner; later admins stay
\* admins": not when he opens two pages at once.  The second request sees the
\* owner the first one made, himself, and writes his record again as an admin.
FirstAdminStaysOwner == [][HasOwner /\ ~demoted' => HasOwner']_vars

\* A workspace is open to those it was given to: by a manager, by an invitation
\* pending when it was opened, or as a legacy user on his first request.  What
\* was revoked stays revoked unless a request on its way restores it.
OnlyWhatWasGiven ==
    \A p \in People, w \in Workspaces : access[p][w] = "active" => <<p, w>> \in allowed

\* There is one pending invitation of an address, unless two managers sent it at
\* once: no index keeps the second one out.
OnePending == ~crowded => \A i, j \in Invites :
    invite[i].status = "pending" /\ invite[j].status = "pending" /\ invite[i].to = invite[j].to => i = j

\* Who accepted is in: the invitation is marked last, so a fault before leaves it
\* pending and the link works again.
AcceptedMeansIn ==
    \A i \in Invites : invite[i].status = "accepted" =>
        /\ home[invite[i].to] # None /\ member[invite[i].to] # None
        /\ \A w \in invite[i].wks : access[invite[i].to][w] # None

\* An invited person who tries again gets in or is told the link is closed,
\* whatever failed the first time and whoever tried at once.
InvitationSettled == \A i \in Invites : (invite[i].status = "pending") ~> (invite[i].status # "pending")

\* Who belongs to an account, and where: one owner, workspaces open to those they were
\* given to, one pending invitation of an address, accepted ones that let their
\* guest in; with the reservations of the four parts.
MembersInOrder == TypeOK /\ OneOwner /\ OnlyWhatWasGiven /\ OnePending /\ AcceptedMeansIn
=============================================================================
