---------------------------- MODULE AccessProofs ----------------------------
(***************************************************************************)
(* Who may enter an account, for any number of people, invitations,        *)
(* workspaces and requests at once: one owner, workspaces open to those    *)
(* they were given to, one pending invitation of an address, and guests    *)
(* that are in when their invitation says so (Access).  Then what a new    *)
(* password ends (Sessions), and the names, the limit and the adoptions of *)
(* the workspaces of an account (Workspaces), beside them.                 *)
(***************************************************************************)
EXTENDS MCAccess, Integers, FiniteSetTheorems, WellFoundedInduction, TLAPS

USE AccessAssumption

\* What an account starts with: no two owners, and nobody in one that is not there.
Plausible ==
    \A s \in Scenes :
        /\ \A p, q \in People : s.member[p] = "owner" /\ s.member[q] = "owner" => p = q
        /\ ~s.tenant => \A p \in People : s.home[p] # Here /\ s.member[p] = None

-----------------------------------------------------------------------------
(* The invariant. *)

AcceptSteps   == {"find", "create", "enter", "grant", "mark"}
RegisterSteps == {"user", "owner"}
OwnSteps      == {"member", "checked", "backfill", "owner?", "join", "all", "each", "save"}

\* What a request is about, at every step of it.
Shaped(r) ==
    LET q == request[r] IN
    /\ q.step \in RegisterSteps <=> q.kind = "register"
    /\ q.step \in AcceptSteps <=> q.kind = "accept"
    /\ q.step # "idle" => q.who \in People
    /\ q.step \in OwnSteps => home[q.who] # None
    /\ q.step = "join" => q.role # None
    /\ q.kind = "accept" => /\ q.inv \in Invites /\ invite[q.inv].status # None /\ invite[q.inv].to = q.who
                            /\ invite[q.inv].to \in People
    /\ q.kind = "invite" => q.offer \in Offers
    /\ q.kind = "cancel" => q.inv \in Invites /\ invite[q.inv].status # None
    /\ q.kind \in {"grant", "revoke", "role"} => q.inv \in People
    /\ q.kind \in {"grant", "revoke"} => q.ws \in Workspaces
    /\ q.kind = "role" => q.new \in UserRoles

WellFormed ==
    /\ TypeOK
    /\ \A r \in Slots : Shaped(r)
    /\ \A i \in Invites : invite[i] = Blank \/ (invite[i].status # None /\ invite[i].to \in People)

\* Nobody is in an account before its first user.
Vacant ==
    /\ \A p \in People : home[p] # Here /\ member[p] = None
    /\ \A r \in Slots : request[r].step \in {"idle", "member", "backfill", "user"}
    /\ \A i \in Invites : invite[i].status = None

Registers(r) == request[r].kind = "register"

Founded ==
    /\ ~tenant => Vacant /\ \A r \in Slots : ~Registers(r)
    /\ \A r \in Slots : request[r].step = "user" => Vacant
    /\ \A r, s \in Slots : Registers(r) /\ Registers(s) => r = s

\* Requests that are about to decide who belongs to the account.
Choosing(r) == \/ request[r].step \in {"owner?", "join", "owner"}
               \/ request[r].step = "backfill" /\ home[request[r].who] = Here
Crowning(r) == \/ request[r].step = "owner"
               \/ request[r].step = "join" /\ request[r].role = "owner"

\* As long as none overlapped they are alone; whoever is being decided on is not
\* the owner, and who is about to become the owner finds none.
Owned ==
    ~overlapped =>
        /\ \A r, s \in Slots : Choosing(r) /\ Choosing(s) => r = s
        /\ \A p, q \in People : member[p] = "owner" /\ member[q] = "owner" => p = q
        /\ \A r \in Slots : Choosing(r) => member[request[r].who] # "owner"
        /\ \A r \in Slots : Crowning(r) => \A p \in People : member[p] # "owner"

\* What is about to be written into the workspaces was given.
Opening(r) == \/ request[r].step \in {"all", "each"}
              \/ request[r].step = "join" /\ request[r].role \notin Managers

Opens(r) == Opening(r) => \A w \in Workspaces : <<request[r].who, w>> \in allowed
Serves(r) ==
    request[r].kind = "accept" =>
        /\ \A w \in invite[request[r].inv].wks : <<request[r].who, w>> \in allowed
        /\ request[r].step = "grant" => request[r].left \subseteq invite[request[r].inv].wks

Given == OnlyWhatWasGiven /\ \A r \in Slots : Opens(r) /\ Serves(r)

\* Who is about to save an invitation has found none of that address.
Saving(r) == At(r, "invite", "save")

Alone ==
    ~crowded => /\ \A i, j \in Invites : invite[i].status = "pending" /\ invite[j].status = "pending"
                                         /\ invite[i].to = invite[j].to => i = j
                /\ \A r \in Slots : Saving(r) => ~Pending(request[r].offer.to)
                /\ \A r, s \in Slots : Saving(r) /\ Saving(s) /\ request[r].offer.to = request[s].offer.to => r = s

\* How far an acceptance has come.
Arrived(r) ==
    LET q == request[r] IN
    q.kind = "accept" =>
        /\ q.step \in {"enter", "grant", "mark"} => home[q.who] # None
        /\ q.step \in {"grant", "mark"} =>
              /\ member[q.who] # None
              /\ \A w \in invite[q.inv].wks : w \in q.left \/ access[q.who][w] # None
        /\ q.step = "mark" => q.left = {}

Welcomed == AcceptedMeansIn /\ \A r \in Slots : Arrived(r)

IInv == WellFormed /\ Founded /\ Owned /\ Given /\ Alone /\ Welcomed

-----------------------------------------------------------------------------
(* Types. *)

Steps == {"idle", "user", "owner", "member", "checked", "backfill", "owner?", "join", "all", "each",
          "save", "find", "create", "enter", "grant", "mark"}
Kinded == {"use", "invite", "cancel", "grant", "revoke", "role"}

LEMMA IdleRequest == Idle \in Requests
  BY DEF Idle, Requests, NoOffer

LEMMA AskedRequest ==
    ASSUME NEW k \in Kinded, NEW p \in People
    PROVE  Asked(k, p) \in Requests
  BY IdleRequest DEF Asked, Kinded, Requests

LEMMA SteppedRequest ==
    ASSUME NEW q \in Requests, NEW step \in Steps
    PROVE  [q EXCEPT !.step = step] \in Requests
  BY DEF Requests, Steps

LEMMA ChosenRequest ==
    ASSUME NEW q \in Requests, NEW step \in Steps, NEW role \in AccountRoles \cup {None}
    PROVE  [q EXCEPT !.step = step, !.role = role] \in Requests
<1>1. [[q EXCEPT !.step = step] EXCEPT !.role = role] \in Requests BY SteppedRequest DEF Requests
<1>2. [q EXCEPT !.step = step, !.role = role] = [[q EXCEPT !.step = step] EXCEPT !.role = role] OBVIOUS
<1>3. QED BY <1>1, <1>2

LEMMA ListedRequest ==
    ASSUME NEW q \in Requests, NEW step \in Steps, NEW left \in SUBSET Workspaces
    PROVE  [q EXCEPT !.step = step, !.left = left] \in Requests
<1>1. [[q EXCEPT !.step = step] EXCEPT !.left = left] \in Requests BY SteppedRequest DEF Requests
<1>2. [q EXCEPT !.step = step, !.left = left] = [[q EXCEPT !.step = step] EXCEPT !.left = left] OBVIOUS
<1>3. QED BY <1>1, <1>2

LEMMA AimedRequest ==
    ASSUME NEW q \in Requests, NEW p \in People
    PROVE  /\ \A w \in Workspaces : [q EXCEPT !.inv = p, !.ws = w] \in Requests
           /\ \A role \in UserRoles : [q EXCEPT !.inv = p, !.new = role] \in Requests
<1>1. [q EXCEPT !.inv = p] \in Requests BY DEF Requests
<1>2. \A w \in Workspaces : [[q EXCEPT !.inv = p] EXCEPT !.ws = w] \in Requests BY <1>1 DEF Requests
<1>3. \A role \in UserRoles : [[q EXCEPT !.inv = p] EXCEPT !.new = role] \in Requests BY <1>1 DEF Requests
<1>4. \A w : [q EXCEPT !.inv = p, !.ws = w] = [[q EXCEPT !.inv = p] EXCEPT !.ws = w] OBVIOUS
<1>5. \A role : [q EXCEPT !.inv = p, !.new = role] = [[q EXCEPT !.inv = p] EXCEPT !.new = role] OBVIOUS
<1>6. QED BY <1>2, <1>3, <1>4, <1>5

LEMMA Became ==
    ASSUME NEW r \in Slots, NEW f, request \in [Slots -> Requests], Become(r, f)
    PROVE  request'[r] = f /\ \A s \in Slots \ {r} : request'[s] = request[s]
  BY DEF Become

LEMMA TypedRequest ==
    ASSUME NEW r \in Slots, NEW f \in Requests, request \in [Slots -> Requests], Become(r, f)
    PROVE  request' \in [Slots -> Requests]
  BY DEF Become

LEMMA TypedAccess ==
    ASSUME NEW p \in People, NEW w \in Workspaces, NEW x \in {None, "active", "suspended"},
           access \in [People -> [Workspaces -> {None, "active", "suspended"}]],
           access' = [access EXCEPT ![p][w] = x]
    PROVE  access' \in [People -> [Workspaces -> {None, "active", "suspended"}]]
<1>1. [access[p] EXCEPT ![w] = x] \in [Workspaces -> {None, "active", "suspended"}] OBVIOUS
<1>2. QED BY <1>1

Invitations == [to : People \cup {None}, role : UserRoles, wks : SUBSET Workspaces,
                status : {None, "pending", "accepted", "cancelled", "expired"}, old : BOOLEAN]

LEMMA TypedInvite ==
    ASSUME NEW i \in Invites, NEW x \in {None, "pending", "accepted", "cancelled", "expired"},
           invite \in [Invites -> Invitations],
           \/ invite' = [invite EXCEPT ![i].status = x]
           \/ invite' = [invite EXCEPT ![i].old = TRUE]
    PROVE  invite' \in [Invites -> Invitations]
<1>0. invite[i] \in Invitations OBVIOUS
<1>1. [invite[i] EXCEPT !.status = x] \in Invitations BY <1>0 DEF Invitations
<1>2. [invite[i] EXCEPT !.old = TRUE] \in Invitations BY <1>0, Zenon DEF Invitations
<1>3. QED BY <1>1, <1>2

LEMMA TypedStays ==
    ASSUME WellFormed, Next
    PROVE  TypeOK'
<1> DEFINE Folk  == /\ tenant \in BOOLEAN
                    /\ home \in [People -> {None, Here, Away}] /\ userRole \in [People -> UserRoles]
           Ranks == member \in [People -> AccountRoles \cup {None}]
           Doors == access \in [People -> [Workspaces -> {None, "active", "suspended"}]]
           Letters == invite \in [Invites -> Invitations]
           Works == request \in [Slots -> Requests]
           Past  == allowed \subseteq People \X Workspaces
           Flags == overlapped \in BOOLEAN /\ crowded \in BOOLEAN /\ demoted \in BOOLEAN
           Cost  == budget \in [Kinds -> Nat]
<1>0. Folk /\ Ranks /\ Doors /\ Letters /\ Works /\ Past /\ Flags /\ Cost BY DEF WellFormed, TypeOK, Invitations
<1>a. Folk' /\ Ranks' /\ Doors' /\ Letters' /\ Works' /\ Past' /\ Flags' /\ Cost' => TypeOK' BY DEF TypeOK, Invitations
<1>b. \A k \in Kinds : Spend(k) => Cost' BY <1>0 DEF Spend
<1>c. Idle \in Requests BY IdleRequest
<1>d. \A r \in Slots : request[r] \in Requests /\ Shaped(r) BY <1>0 DEF WellFormed
<1>e. UNCHANGED budget => Cost' BY <1>0
<1>f. UNCHANGED <<tenant, users>> => Folk' BY <1>0 DEF users
<1>g. (UNCHANGED member => Ranks') /\ (UNCHANGED access => Doors') /\ (UNCHANGED records => Ranks' /\ Doors')
  BY <1>0 DEF records
<1>h. UNCHANGED invite => Letters' BY <1>0
<1>i. UNCHANGED history => Past' /\ Flags' BY <1>0 DEF history
<1>j. UNCHANGED <<overlapped, crowded, demoted>> => Flags' BY <1>0
<1>k. \A r \in Slots : End(r) => Works' BY <1>0, <1>c, TypedRequest DEF End
<1>l. \A r \in Slots, step \in Steps : GoTo(r, step) => Works'
  <2> SUFFICES ASSUME NEW r \in Slots, NEW step \in Steps, GoTo(r, step) PROVE Works' OBVIOUS
  <2>1. [request[r] EXCEPT !.step = step] \in Requests BY <1>d, SteppedRequest
  <2>2. Become(r, [request[r] EXCEPT !.step = step]) BY DEF GoTo, Become
  <2>3. QED BY <1>0, <2>1, <2>2, TypedRequest
<1>m. \A r \in Slots, k \in Kinded, p \in People : Asked(k, p) \in Requests BY AskedRequest
<1>1. ASSUME NEW r \in Slots, NEW p \in People, RegisterTenant(r, p) PROVE TypeOK'
  <2>1. [Idle EXCEPT !.kind = "register", !.step = "user", !.who = p] \in Requests BY <1>c DEF Requests
  <2>2. Works' BY <1>1, <2>1, TypedRequest, <1>0, <1>k, <1>l DEF RegisterTenant, Start, Steps
  <2>3. Folk' BY <1>1, <1>0 DEF RegisterTenant, users
  <2>4. Cost' BY <1>1, <1>b, <1>e DEF RegisterTenant, Start, Kinds
  <2>5. QED BY <1>1, <2>2, <2>3, <2>4, <1>0, <1>a, <1>f, <1>g, <1>h, <1>i, <1>j DEF RegisterTenant, Start
<1>2. ASSUME NEW r \in Slots, RegisterUser(r) PROVE TypeOK'
  <2>1. Works' BY <1>2, <1>k, <1>l DEF RegisterUser, Steps
  <2>2. request[r].who \in People BY <1>2, <1>d DEF RegisterUser, At, Shaped
  <2>3. Folk' BY <1>2, <2>2, <1>0 DEF RegisterUser, users, UserRoles
  <2>4. Cost' BY <1>2, <1>b, <1>e DEF RegisterUser, Kinds
  <2>5. QED BY <1>2, <2>1, <2>3, <2>4, <1>0, <1>a, <1>f, <1>g, <1>h, <1>i, <1>j DEF RegisterUser
<1>3. ASSUME NEW r \in Slots, RegisterOwner(r) PROVE TypeOK'
  <2>1. Works' BY <1>3, <1>k, <1>l DEF RegisterOwner, Steps
  <2>2. Ranks' BY <1>3, <1>0 DEF RegisterOwner, ensureAccountMember, AccountRoles
  <2>3. Cost' BY <1>3, <1>b, <1>e DEF RegisterOwner, Kinds
  <2>4. QED BY <1>3, <2>1, <2>2, <2>3, <1>0, <1>a, <1>f, <1>g, <1>h, <1>i, <1>j DEF RegisterOwner
<1>4. ASSUME NEW r \in Slots, findActiveAccountMember(r) PROVE TypeOK'
  <2>1. request[r].who \in People BY <1>4, <1>d DEF findActiveAccountMember, Shaped
  <2>2. [request[r] EXCEPT !.step = "checked", !.role = member[request[r].who]] \in Requests BY <2>1, <1>0, <1>d, ChosenRequest DEF Steps
  <2>3. Works' BY <1>4, <2>1, <2>2, TypedRequest, <1>0, <1>k, <1>l DEF findActiveAccountMember, Steps
  <2>4. Flags' BY <1>4, <1>0 DEF findActiveAccountMember
  <2>5. Cost' BY <1>4, <1>b, <1>e DEF findActiveAccountMember, Kinds
  <2>6. QED BY <1>4, <2>3, <2>4, <2>5, <1>0, <1>a, <1>f, <1>g, <1>h, <1>i, <1>j DEF findActiveAccountMember
<1>5. ASSUME NEW r \in Slots, backfillLegacyMember(r) PROVE TypeOK'
  <2>1. LegacyRole(userRole[request[r].who]) \in AccountRoles BY DEF LegacyRole, AccountRoles, UserRoles
  <2>2. [request[r] EXCEPT !.step = "join", !.role = LegacyRole(userRole[request[r].who])] \in Requests BY <2>1, <1>d, ChosenRequest DEF Steps
  <2>3. Works' BY <1>5, <2>1, <2>2, TypedRequest, <1>0, <1>k, <1>l DEF backfillLegacyMember, Steps
  <2>4. request[r].who \in People BY <1>5, <1>d DEF backfillLegacyMember, Shaped
  <2>5. Past' BY <1>5, <2>4, <1>0 DEF backfillLegacyMember
  <2>6. Cost' BY <1>5, <1>b, <1>e DEF backfillLegacyMember, Kinds
  <2>7. QED BY <1>5, <2>3, <2>5, <2>6, <1>0, <1>a, <1>f, <1>g, <1>h, <1>i, <1>j DEF backfillLegacyMember
<1>6. ASSUME NEW r \in Slots, LookForOwner(r) PROVE TypeOK'
  <2>1. RoleOfAdmin \in AccountRoles BY DEF RoleOfAdmin, AccountRoles, UserRoles
  <2>2. [request[r] EXCEPT !.step = "join", !.role = RoleOfAdmin] \in Requests BY <2>1, <1>d, ChosenRequest DEF Steps
  <2>3. Works' BY <1>6, <2>1, <2>2, TypedRequest, <1>0, <1>k, <1>l DEF LookForOwner, Steps
  <2>4. Cost' BY <1>6, <1>b, <1>e DEF LookForOwner, Kinds
  <2>5. QED BY <1>6, <2>3, <2>4, <1>0, <1>a, <1>f, <1>g, <1>h, <1>i, <1>j DEF LookForOwner
<1>7. ASSUME NEW r \in Slots, Join(r) PROVE TypeOK'
  <2>1. Works' BY <1>7, <1>k, <1>l DEF Join, Steps
  <2>2. request[r].role \in AccountRoles BY <1>7, <1>d DEF Join, Shaped, Requests
  <2>3. Ranks' BY <1>7, <2>2, <1>0 DEF Join, ensureAccountMember
  <2>4. Cost' BY <1>7, <1>b, <1>e DEF Join, Kinds
  <2>5. QED BY <1>7, <2>1, <2>3, <2>4, <1>0, <1>a, <1>f, <1>g, <1>h, <1>i, <1>j DEF Join
<1>8. ASSUME NEW r \in Slots, FindWorkspaces(r) PROVE TypeOK'
  <2>1. [request[r] EXCEPT !.step = "each", !.left = Workspaces] \in Requests BY <1>d, ListedRequest DEF Steps
  <2>2. Works' BY <1>8, <2>1, TypedRequest, <1>0, <1>k, <1>l DEF FindWorkspaces, Steps
  <2>3. Cost' BY <1>8, <1>b, <1>e DEF FindWorkspaces, Kinds
  <2>4. QED BY <1>8, <2>2, <2>3, <1>0, <1>a, <1>f, <1>g, <1>h, <1>i, <1>j DEF FindWorkspaces
<1>9. ASSUME NEW r \in Slots, BackfillAccess(r) PROVE TypeOK'
  <2>1. \A w \in request[r].left : [request[r] EXCEPT !.left = @ \ {w}] \in Requests BY <1>d DEF Requests
  <2>2. Works' BY <1>9, <2>1, TypedRequest, <1>0, <1>k, <1>l DEF BackfillAccess, Steps
  <2>3. request[r].who \in People /\ request[r].left \subseteq Workspaces BY <1>9, <1>d DEF BackfillAccess, Shaped, Requests
  <2>4. Doors' BY <1>9, <2>3, <1>0, TypedAccess DEF BackfillAccess, setWorkspaceAccess
  <2>5. Cost' BY <1>9, <1>b, <1>e DEF BackfillAccess, Kinds
  <2>6. QED BY <1>9, <2>2, <2>4, <2>5, <1>0, <1>a, <1>f, <1>g, <1>h, <1>i, <1>j DEF BackfillAccess
<1>10. ASSUME NEW r \in Slots, Checked(r) PROVE TypeOK'
  <2>1. Works' BY <1>10, <1>k, <1>l DEF Checked, Steps
  <2>2. Cost' BY <1>10, <1>b, <1>e DEF Checked, Kinds
  <2>3. QED BY <1>10, <2>1, <2>2, <1>0, <1>a, <1>f, <1>g, <1>h, <1>i, <1>j DEF Checked
<1>11. ASSUME NEW r \in Slots, Forbidden(r) PROVE TypeOK'
  <2>1. Works' BY <1>11, <1>k, <1>l DEF Forbidden, Steps
  <2>2. Cost' BY <1>11, <1>b, <1>e DEF Forbidden, Kinds
  <2>3. QED BY <1>11, <2>1, <2>2, <1>0, <1>a, <1>f, <1>g, <1>h, <1>i, <1>j DEF Forbidden
<1>12. ASSUME NEW r \in Slots, LookForInvitation(r) PROVE TypeOK'
  <2>1. Works' BY <1>12, <1>k, <1>l DEF LookForInvitation, Steps
  <2>2. Flags' BY <1>12, <1>0 DEF LookForInvitation
  <2>3. Cost' BY <1>12, <1>b, <1>e DEF LookForInvitation, Kinds
  <2>4. QED BY <1>12, <2>1, <2>2, <2>3, <1>0, <1>a, <1>f, <1>g, <1>h, <1>i, <1>j DEF LookForInvitation
<1>13. ASSUME NEW r \in Slots, NEW i \in Invites, SaveInvitation(r, i) PROVE TypeOK'
  <2>1. Works' BY <1>13, <1>k, <1>l DEF SaveInvitation, Steps
  <2>2. request[r].offer \in Offers BY <1>13, <1>d DEF SaveInvitation, At, Shaped
  <2>3. [to |-> request[r].offer.to, role |-> request[r].offer.role, wks |-> request[r].offer.wks, status |-> "pending", old |-> FALSE] \in Invitations BY <2>2 DEF Invitations
  <2>4. Letters' BY <1>13, <2>3, <1>0 DEF SaveInvitation
  <2>5. Cost' BY <1>13, <1>b, <1>e DEF SaveInvitation, Kinds
  <2>6. QED BY <1>13, <2>1, <2>4, <2>5, <1>0, <1>a, <1>f, <1>g, <1>h, <1>i, <1>j DEF SaveInvitation
<1>14. ASSUME NEW r \in Slots, CancelInvitation(r) PROVE TypeOK'
  <2>1. Works' BY <1>14, <1>k, <1>l DEF CancelInvitation, Steps
  <2>2. request[r].inv \in Invites BY <1>14, <1>d DEF CancelInvitation, assertCanManageAccount, At, Shaped
  <2>3. Letters' BY <1>14, <2>2, <1>0, TypedInvite DEF CancelInvitation
  <2>4. Cost' BY <1>14, <1>b, <1>e DEF CancelInvitation, Kinds
  <2>5. QED BY <1>14, <2>1, <2>3, <2>4, <1>0, <1>a, <1>f, <1>g, <1>h, <1>i, <1>j DEF CancelInvitation
<1>15. ASSUME NEW r \in Slots, GrantAccess(r) PROVE TypeOK'
  <2>1. Works' BY <1>15, <1>k, <1>l DEF GrantAccess, Steps
  <2>2. request[r].inv \in People /\ request[r].ws \in Workspaces BY <1>15, <1>d DEF GrantAccess, assertCanManageAccount, At, Shaped
  <2>3. Doors' BY <1>15, <2>2, <1>0, TypedAccess DEF GrantAccess, setWorkspaceAccess
  <2>4. Past' BY <1>15, <2>2, <1>0 DEF GrantAccess
  <2>5. Cost' BY <1>15, <1>b, <1>e DEF GrantAccess, Kinds
  <2>6. QED BY <1>15, <2>1, <2>3, <2>4, <2>5, <1>0, <1>a, <1>f, <1>g, <1>h, <1>i, <1>j DEF GrantAccess
<1>16. ASSUME NEW r \in Slots, RevokeAccess(r) PROVE TypeOK'
  <2>1. Works' BY <1>16, <1>k, <1>l DEF RevokeAccess, Steps
  <2>2. request[r].inv \in People /\ request[r].ws \in Workspaces BY <1>16, <1>d DEF RevokeAccess, assertCanManageAccount, At, Shaped
  <2>3. Doors' BY <1>16, <2>2, <1>0, TypedAccess DEF RevokeAccess
  <2>4. Past' BY <1>16, <1>0 DEF RevokeAccess
  <2>5. Cost' BY <1>16, <1>b, <1>e DEF RevokeAccess, Kinds
  <2>6. QED BY <1>16, <2>1, <2>3, <2>4, <2>5, <1>0, <1>a, <1>f, <1>g, <1>h, <1>i, <1>j DEF RevokeAccess
<1>17. ASSUME NEW r \in Slots, changeRole(r) PROVE TypeOK'
  <2>1. Works' BY <1>17, <1>k, <1>l DEF changeRole, Steps
  <2>2. Folk' BY <1>17, <1>0, <1>d DEF changeRole, users, assertCanManageAccount, At, Shaped
  <2>3. Flags' BY <1>17, <1>0 DEF changeRole
  <2>4. Cost' BY <1>17, <1>b, <1>e DEF changeRole, Kinds
  <2>5. QED BY <1>17, <2>1, <2>2, <2>3, <2>4, <1>0, <1>a, <1>f, <1>g, <1>h, <1>i, <1>j DEF changeRole
<1>18. ASSUME NEW r \in Slots, FindUser(r) PROVE TypeOK'
  <2>1. Works' BY <1>18, <1>k, <1>l DEF FindUser, StepFor, Steps
  <2>2. Cost' BY <1>18, <1>b, <1>e DEF FindUser, StepFor, Kinds
  <2>3. QED BY <1>18, <2>1, <2>2, <1>0, <1>a, <1>f, <1>g, <1>h, <1>i, <1>j DEF FindUser, StepFor
<1>19. ASSUME NEW r \in Slots, CreateUser(r) PROVE TypeOK'
  <2>1. Works' BY <1>19, <1>k, <1>l DEF CreateUser, Steps
  <2>2. request[r].who \in People /\ request[r].inv \in Invites BY <1>19, <1>d DEF CreateUser, At, Shaped
  <2>3. invite[request[r].inv].role \in UserRoles BY <2>2, <1>0 DEF Invitations
  <2>4. Folk' BY <1>19, <2>2, <2>3, <1>0 DEF CreateUser, users
  <2>5. Cost' BY <1>19, <1>b, <1>e DEF CreateUser, Kinds
  <2>6. QED BY <1>19, <2>1, <2>4, <2>5, <1>0, <1>a, <1>f, <1>g, <1>h, <1>i, <1>j DEF CreateUser
<1>20. ASSUME NEW r \in Slots, Enter(r) PROVE TypeOK'
  <2>1. request[r].inv \in Invites BY <1>20, <1>d DEF Enter, At, Shaped
  <2>2. [request[r] EXCEPT !.step = "grant", !.left = invite[request[r].inv].wks] \in Requests BY <2>1, <1>0, <1>d, ListedRequest DEF Steps, Invitations
  <2>3. Works' BY <1>20, <2>1, <2>2, TypedRequest, <1>0, <1>k, <1>l DEF Enter, AfterEntering, Steps
  <2>4. toAccountRole(invite[request[r].inv].role) \in AccountRoles BY DEF toAccountRole, AccountRoles, UserRoles
  <2>5. Ranks' BY <1>20, <2>4, <1>0 DEF Enter, ensureAccountMember
  <2>6. Flags' BY <1>20, <1>0 DEF Enter
  <2>7. Cost' BY <1>20, <1>b, <1>e DEF Enter, AfterEntering, Kinds
  <2>8. QED BY <1>20, <2>3, <2>5, <2>6, <2>7, <1>0, <1>a, <1>f, <1>g, <1>h, <1>i, <1>j DEF Enter, AfterEntering
<1>21. ASSUME NEW r \in Slots, GrantChosen(r) PROVE TypeOK'
  <2>1. \A w \in request[r].left : [request[r] EXCEPT !.left = @ \ {w}] \in Requests BY <1>d DEF Requests
  <2>2. Works' BY <1>21, <2>1, TypedRequest, <1>0, <1>k, <1>l DEF GrantChosen, Steps
  <2>3. request[r].who \in People /\ request[r].left \subseteq Workspaces BY <1>21, <1>d DEF GrantChosen, At, Shaped, Requests
  <2>4. Doors' BY <1>21, <2>3, <1>0, TypedAccess DEF GrantChosen, setWorkspaceAccess
  <2>5. Cost' BY <1>21, <1>b, <1>e DEF GrantChosen, Kinds
  <2>6. QED BY <1>21, <2>2, <2>4, <2>5, <1>0, <1>a, <1>f, <1>g, <1>h, <1>i, <1>j DEF GrantChosen
<1>22. ASSUME NEW r \in Slots, markAsAccepted(r) PROVE TypeOK'
  <2>1. Works' BY <1>22, <1>k, <1>l DEF markAsAccepted, Steps
  <2>2. request[r].inv \in Invites BY <1>22, <1>d DEF markAsAccepted, At, Shaped
  <2>3. Letters' BY <1>22, <2>2, <1>0, TypedInvite DEF markAsAccepted
  <2>4. Cost' BY <1>22, <1>b, <1>e DEF markAsAccepted, Kinds
  <2>5. QED BY <1>22, <2>1, <2>3, <2>4, <1>0, <1>a, <1>f, <1>g, <1>h, <1>i, <1>j DEF markAsAccepted
<1>23. ASSUME NEW r \in Slots, Fault(r) PROVE TypeOK'
  <2>1. Works' BY <1>23, <1>k, <1>l DEF Fault, Steps
  <2>2. Cost' BY <1>23, <1>b, <1>e DEF Fault, Kinds
  <2>3. QED BY <1>23, <2>1, <2>2, <1>0, <1>a, <1>f, <1>g, <1>h, <1>i, <1>j DEF Fault
<1>24. ASSUME NEW r \in Slots, NEW i \in Invites, acceptInvite(r, i) PROVE TypeOK'
  <2>1. invite[i].to \in People \cup {None} BY <1>0 DEF Invitations
  <2>2. [Idle EXCEPT !.kind = "accept", !.step = "find", !.who = invite[i].to, !.inv = i] \in Requests BY <2>1, <1>c DEF Requests
  <2>3. Works' BY <1>24, <2>1, <2>2, TypedRequest, <1>0, <1>k, <1>l DEF acceptInvite, Start, Steps
  <2>4. invite[i].to \in People /\ invite[i].wks \subseteq Workspaces BY <1>24, <1>0 DEF acceptInvite, Open, WellFormed, Invitations, None, Blank
  <2>5. Past' BY <1>24, <2>4, <1>0 DEF acceptInvite
  <2>6. Cost' BY <1>24, <1>b, <1>e DEF acceptInvite, Start, Kinds
  <2>7. QED BY <1>24, <2>3, <2>5, <2>6, <1>0, <1>a, <1>f, <1>g, <1>h, <1>i, <1>j DEF acceptInvite, Start
<1>25. ASSUME NEW r \in Slots, NEW p \in People, assertUsable(r, p) PROVE TypeOK'
  <2>1. Asked("use", p) \in Requests BY <1>m DEF Kinded
  <2>2. Works' BY <1>25, <2>1, TypedRequest, <1>0, <1>k, <1>l DEF assertUsable, Start, Steps
  <2>3. Cost' BY <1>25, <1>b, <1>e DEF assertUsable, Start, Kinds
  <2>4. QED BY <1>25, <2>2, <2>3, <1>0, <1>a, <1>f, <1>g, <1>h, <1>i, <1>j DEF assertUsable, Start
<1>26. ASSUME NEW r \in Slots, NEW p \in People, NEW o \in Offers, AskInvite(r, p, o) PROVE TypeOK'
  <2>1. [Asked("invite", p) EXCEPT !.offer = o] \in Requests BY <1>m DEF Kinded, Requests
  <2>2. Works' BY <1>26, <2>1, TypedRequest, <1>0, <1>k, <1>l DEF AskInvite, Manage, Start, Steps
  <2>3. Cost' BY <1>26, <1>b, <1>e DEF AskInvite, Manage, Start, Kinds
  <2>4. QED BY <1>26, <2>2, <2>3, <1>0, <1>a, <1>f, <1>g, <1>h, <1>i, <1>j DEF AskInvite, Manage, Start
<1>27. ASSUME NEW r \in Slots, NEW p \in People, NEW i \in Invites, AskCancel(r, p, i) PROVE TypeOK'
  <2>1. [Asked("cancel", p) EXCEPT !.inv = i] \in Requests BY <1>m DEF Kinded, Requests
  <2>2. Works' BY <1>27, <2>1, TypedRequest, <1>0, <1>k, <1>l DEF AskCancel, Manage, Start, Steps
  <2>3. Cost' BY <1>27, <1>b, <1>e DEF AskCancel, Manage, Start, Kinds
  <2>4. QED BY <1>27, <2>2, <2>3, <1>0, <1>a, <1>f, <1>g, <1>h, <1>i, <1>j DEF AskCancel, Manage, Start
<1>28. ASSUME NEW r \in Slots, NEW p \in People, NEW q \in People, NEW w \in Workspaces, AskGrant(r, p, q, w) PROVE TypeOK'
  <2>1. [Asked("grant", p) EXCEPT !.inv = q, !.ws = w] \in Requests BY <1>m, AimedRequest DEF Kinded
  <2>2. Works' BY <1>28, <2>1, TypedRequest, <1>0, <1>k, <1>l DEF AskGrant, Manage, Start, Steps
  <2>3. Cost' BY <1>28, <1>b, <1>e DEF AskGrant, Manage, Start, Kinds
  <2>4. QED BY <1>28, <2>2, <2>3, <1>0, <1>a, <1>f, <1>g, <1>h, <1>i, <1>j DEF AskGrant, Manage, Start
<1>29. ASSUME NEW r \in Slots, NEW p \in People, NEW q \in People, NEW w \in Workspaces, AskRevoke(r, p, q, w) PROVE TypeOK'
  <2>1. [Asked("revoke", p) EXCEPT !.inv = q, !.ws = w] \in Requests BY <1>m, AimedRequest DEF Kinded
  <2>2. Works' BY <1>29, <2>1, TypedRequest, <1>0, <1>k, <1>l DEF AskRevoke, Manage, Start, Steps
  <2>3. Cost' BY <1>29, <1>b, <1>e DEF AskRevoke, Manage, Start, Kinds
  <2>4. QED BY <1>29, <2>2, <2>3, <1>0, <1>a, <1>f, <1>g, <1>h, <1>i, <1>j DEF AskRevoke, Manage, Start
<1>30. ASSUME NEW r \in Slots, NEW p \in People, NEW q \in People, NEW role \in {"admin", "agent"}, AskRole(r, p, q, role) PROVE TypeOK'
  <2>1. [Asked("role", p) EXCEPT !.inv = q, !.new = role] \in Requests BY <1>m, AimedRequest DEF Kinded, UserRoles
  <2>2. Works' BY <1>30, <2>1, TypedRequest, <1>0, <1>k, <1>l DEF AskRole, Manage, Start, Steps
  <2>3. Cost' BY <1>30, <1>b, <1>e DEF AskRole, Manage, Start, Kinds
  <2>4. QED BY <1>30, <2>2, <2>3, <1>0, <1>a, <1>f, <1>g, <1>h, <1>i, <1>j DEF AskRole, Manage, Start
<1>31. ASSUME NEW i \in Invites, Expire(i) PROVE TypeOK'
  <2>1. Letters' BY <1>31, <1>0, TypedInvite DEF Expire
  <2>2. Cost' BY <1>31, <1>b, <1>e DEF Expire, Kinds
  <2>3. QED BY <1>31, <2>1, <2>2, <1>0, <1>a, <1>f, <1>g, <1>i DEF Expire
<1>32. ASSUME NEW i \in Invites, CloseExpired(i) PROVE TypeOK'
  <2>1. Letters' BY <1>32, <1>0, TypedInvite DEF CloseExpired
  <2>2. Cost' BY <1>32, <1>b, <1>e DEF CloseExpired, Kinds
  <2>3. QED BY <1>32, <2>1, <2>2, <1>0, <1>a, <1>f, <1>g, <1>i DEF CloseExpired
<1>33. QED
  BY <1>1, <1>2, <1>3, <1>4, <1>5, <1>6, <1>7, <1>8, <1>9, <1>10, <1>11, <1>12, <1>13, <1>14, <1>15, <1>16, <1>17, <1>18, <1>19, <1>20, <1>21, <1>22, <1>23, <1>24, <1>25, <1>26, <1>27, <1>28, <1>29, <1>30, <1>31, <1>32
  DEF Next, Step, Ask

-----------------------------------------------------------------------------
(* What a step does to a request, and what it never takes back. *)

Same(q, f)   == /\ f.kind = q.kind /\ f.who = q.who /\ f.inv = q.inv /\ f.ws = q.ws
                /\ f.offer = q.offer /\ f.new = q.new
Apart(r)     == \A s \in Slots \ {r} : request'[s] = request[s]
Turns(r, step, role, left) ==
    /\ Apart(r) /\ Same(request[r], request'[r])
    /\ request'[r].step = step /\ request'[r].role = role /\ request'[r].left = left
Ends(r)      == Apart(r) /\ request'[r] = Idle

LEMMA Turned ==
    ASSUME NEW r \in Slots, request \in [Slots -> Requests]
    PROVE  /\ \A step : GoTo(r, step) => Turns(r, step, request[r].role, request[r].left)
           /\ \A step, role : Become(r, [request[r] EXCEPT !.step = step, !.role = role])
                                 => Turns(r, step, role, request[r].left)
           /\ \A step, left : Become(r, [request[r] EXCEPT !.step = step, !.left = left])
                                 => Turns(r, step, request[r].role, left)
           /\ \A left : Become(r, [request[r] EXCEPT !.left = left])
                                 => Turns(r, request[r].step, request[r].role, left)
           /\ End(r) => Ends(r)
<1>0. request[r] \in Requests OBVIOUS
<1>1. ASSUME NEW step, GoTo(r, step) PROVE Turns(r, step, request[r].role, request[r].left)
  BY <1>0, <1>1 DEF GoTo, Turns, Apart, Same, Requests
<1>2. ASSUME NEW step, NEW role, Become(r, [request[r] EXCEPT !.step = step, !.role = role])
      PROVE  Turns(r, step, role, request[r].left)
  <2> DEFINE g == [request[r] EXCEPT !.step = step]
             f == [g EXCEPT !.role = role]
  <2>1. f = [request[r] EXCEPT !.step = step, !.role = role] OBVIOUS
  <2>2. request'[r] = f /\ Apart(r) BY <1>2, <2>1, Became DEF Apart
  <2>3. Same(request[r], g) /\ g.step = step /\ g.role = request[r].role /\ g.left = request[r].left
    BY <1>0 DEF Same, Requests
  <2>4. Same(g, f) /\ f.step = g.step /\ f.left = g.left /\ f.role = role
    BY <1>0 DEF Same, Requests
  <2>5. QED BY <2>2, <2>3, <2>4 DEF Turns, Same
<1>3. ASSUME NEW step, NEW left, Become(r, [request[r] EXCEPT !.step = step, !.left = left])
      PROVE  Turns(r, step, request[r].role, left)
  <2> DEFINE g == [request[r] EXCEPT !.step = step]
             f == [g EXCEPT !.left = left]
  <2>1. f = [request[r] EXCEPT !.step = step, !.left = left] OBVIOUS
  <2>2. request'[r] = f /\ Apart(r) BY <1>3, <2>1, Became DEF Apart
  <2>3. Same(request[r], g) /\ g.step = step /\ g.role = request[r].role /\ g.left = request[r].left
    BY <1>0 DEF Same, Requests
  <2>4. Same(g, f) /\ f.step = g.step /\ f.role = g.role /\ f.left = left
    BY <1>0 DEF Same, Requests
  <2>5. QED BY <2>2, <2>3, <2>4 DEF Turns, Same
<1>4. ASSUME NEW left, Become(r, [request[r] EXCEPT !.left = left])
      PROVE  Turns(r, request[r].step, request[r].role, left)
  BY <1>0, <1>4, Became DEF Turns, Apart, Same, Requests
<1>5. End(r) => Ends(r) BY Became DEF End, Ends, Apart
<1>6. QED BY <1>1, <1>2, <1>3, <1>4, <1>5

Lasts ==
    /\ \A p \in People : home[p] # None => home'[p] = home[p]
    /\ \A p \in People : member[p] # None => member'[p] # None
    /\ \A p \in People, w \in Workspaces : access[p][w] # None => access'[p][w] # None
    /\ \A i \in Invites : invite[i].status # None =>
          /\ invite'[i].status # None /\ invite'[i].to = invite[i].to
          /\ invite'[i].wks = invite[i].wks /\ invite'[i].role = invite[i].role

LEMMA EverythingLasts ==
    ASSUME WellFormed, Next
    PROVE  Lasts
<1> DEFINE Homes == \A p \in People : home[p] # None => home'[p] = home[p]
           Ranks == \A p \in People : member[p] # None => member'[p] # None
           Doors == \A p \in People, w \in Workspaces : access[p][w] # None => access'[p][w] # None
           Letters == \A i \in Invites : invite[i].status # None =>
                        /\ invite'[i].status # None /\ invite'[i].to = invite[i].to
                        /\ invite'[i].wks = invite[i].wks /\ invite'[i].role = invite[i].role
<1>0. /\ home \in [People -> {None, Here, Away}] /\ userRole \in [People -> UserRoles]
      /\ member \in [People -> AccountRoles \cup {None}]
      /\ access \in [People -> [Workspaces -> {None, "active", "suspended"}]]
      /\ invite \in [Invites -> Invitations] /\ request \in [Slots -> Requests]
  BY DEF WellFormed, TypeOK, Invitations
<1>a. Homes /\ Ranks /\ Doors /\ Letters => Lasts BY DEF Lasts
<1>b. UNCHANGED users => Homes BY DEF users
<1>c. UNCHANGED home => Homes OBVIOUS
<1>d. (UNCHANGED member => Ranks) /\ (UNCHANGED access => Doors) /\ (UNCHANGED records => Ranks /\ Doors) BY DEF records
<1>e. UNCHANGED invite => Letters OBVIOUS
<1>f. \A p \in People : \A role : role # None /\ ensureAccountMember(p, role) => Ranks BY <1>0 DEF ensureAccountMember
<1>g. \A p \in People, w \in Workspaces : \A x : x # None /\ access' = [access EXCEPT ![p][w] = x] => Doors BY <1>0
<1>h. \A i \in Invites : \A x : x # None /\ invite' = [invite EXCEPT ![i].status = x] => Letters BY <1>0 DEF Invitations
<1>i. \A r \in Slots : Shaped(r) /\ request[r] \in Requests BY <1>0 DEF WellFormed
<1>1. ASSUME NEW r \in Slots, NEW p \in People, RegisterTenant(r, p) PROVE Lasts
  BY <1>1, <1>a, <1>b, <1>c, <1>d, <1>e DEF RegisterTenant
<1>2. ASSUME NEW r \in Slots, RegisterUser(r) PROVE Lasts
  <2>1. Homes BY <1>2, <1>0 DEF RegisterUser, users
  <2>2. QED BY <1>2, <2>1, <1>a, <1>b, <1>c, <1>d, <1>e DEF RegisterUser
<1>3. ASSUME NEW r \in Slots, RegisterOwner(r) PROVE Lasts
  <2>1. request[r].who \in People BY <1>3, <1>i DEF RegisterOwner, At, Shaped
  <2>2. Ranks BY <1>3, <2>1, <1>f DEF RegisterOwner, None
  <2>3. QED BY <1>3, <2>1, <2>2, <1>a, <1>b, <1>c, <1>d, <1>e DEF RegisterOwner
<1>4. ASSUME NEW r \in Slots, findActiveAccountMember(r) PROVE Lasts
  BY <1>4, <1>a, <1>b, <1>c, <1>d, <1>e DEF findActiveAccountMember
<1>5. ASSUME NEW r \in Slots, backfillLegacyMember(r) PROVE Lasts
  BY <1>5, <1>a, <1>b, <1>c, <1>d, <1>e DEF backfillLegacyMember
<1>6. ASSUME NEW r \in Slots, LookForOwner(r) PROVE Lasts
  BY <1>6, <1>a, <1>b, <1>c, <1>d, <1>e DEF LookForOwner
<1>7. ASSUME NEW r \in Slots, Join(r) PROVE Lasts
  <2>1. request[r].who \in People /\ request[r].role # None BY <1>7, <1>i DEF Join, Shaped
  <2>2. Ranks BY <1>7, <2>1, <1>f DEF Join
  <2>3. QED BY <1>7, <2>1, <2>2, <1>a, <1>b, <1>c, <1>d, <1>e DEF Join
<1>8. ASSUME NEW r \in Slots, FindWorkspaces(r) PROVE Lasts
  BY <1>8, <1>a, <1>b, <1>c, <1>d, <1>e DEF FindWorkspaces
<1>9. ASSUME NEW r \in Slots, BackfillAccess(r) PROVE Lasts
  <2>1. request[r].who \in People /\ request[r].left \subseteq Workspaces BY <1>9, <1>i DEF BackfillAccess, Shaped, Requests
  <2>2. Doors BY <1>9, <2>1, <1>g DEF BackfillAccess, setWorkspaceAccess, None
  <2>3. QED BY <1>9, <2>1, <2>2, <1>a, <1>b, <1>c, <1>d, <1>e DEF BackfillAccess
<1>10. ASSUME NEW r \in Slots, Checked(r) PROVE Lasts
  BY <1>10, <1>a, <1>b, <1>c, <1>d, <1>e DEF Checked
<1>11. ASSUME NEW r \in Slots, Forbidden(r) PROVE Lasts
  BY <1>11, <1>a, <1>b, <1>c, <1>d, <1>e DEF Forbidden
<1>12. ASSUME NEW r \in Slots, LookForInvitation(r) PROVE Lasts
  BY <1>12, <1>a, <1>b, <1>c, <1>d, <1>e DEF LookForInvitation
<1>13. ASSUME NEW r \in Slots, NEW i \in Invites, SaveInvitation(r, i) PROVE Lasts
  <2>1. Letters BY <1>13, <1>0 DEF SaveInvitation, Blank
  <2>2. QED BY <1>13, <2>1, <1>a, <1>b, <1>c, <1>d, <1>e DEF SaveInvitation
<1>14. ASSUME NEW r \in Slots, CancelInvitation(r) PROVE Lasts
  <2>1. request[r].inv \in Invites BY <1>14, <1>i DEF CancelInvitation, assertCanManageAccount, At, Shaped
  <2>2. Letters BY <1>14, <2>1, <1>h DEF CancelInvitation, None
  <2>3. QED BY <1>14, <2>1, <2>2, <1>a, <1>b, <1>c, <1>d, <1>e DEF CancelInvitation
<1>15. ASSUME NEW r \in Slots, GrantAccess(r) PROVE Lasts
  <2>1. request[r].inv \in People /\ request[r].ws \in Workspaces BY <1>15, <1>i DEF GrantAccess, assertCanManageAccount, At, Shaped
  <2>2. Doors BY <1>15, <2>1, <1>g DEF GrantAccess, setWorkspaceAccess, None
  <2>3. QED BY <1>15, <2>1, <2>2, <1>a, <1>b, <1>c, <1>d, <1>e DEF GrantAccess
<1>16. ASSUME NEW r \in Slots, RevokeAccess(r) PROVE Lasts
  <2>1. request[r].inv \in People /\ request[r].ws \in Workspaces BY <1>16, <1>i DEF RevokeAccess, assertCanManageAccount, At, Shaped
  <2>2. Doors BY <1>16, <2>1, <1>g DEF RevokeAccess, None
  <2>3. QED BY <1>16, <2>1, <2>2, <1>a, <1>b, <1>c, <1>d, <1>e DEF RevokeAccess
<1>17. ASSUME NEW r \in Slots, changeRole(r) PROVE Lasts
  BY <1>17, <1>a, <1>b, <1>c, <1>d, <1>e DEF changeRole
<1>18. ASSUME NEW r \in Slots, FindUser(r) PROVE Lasts
  BY <1>18, <1>a, <1>b, <1>c, <1>d, <1>e DEF FindUser
<1>19. ASSUME NEW r \in Slots, CreateUser(r) PROVE Lasts
  <2>1. Homes BY <1>19, <1>0 DEF CreateUser, users
  <2>2. QED BY <1>19, <2>1, <1>a, <1>b, <1>c, <1>d, <1>e DEF CreateUser
<1>20. ASSUME NEW r \in Slots, Enter(r) PROVE Lasts
  <2>1. request[r].who \in People BY <1>20, <1>i DEF Enter, At, Shaped
  <2>2. Ranks BY <1>20, <2>1, <1>f DEF Enter, toAccountRole, None
  <2>3. QED BY <1>20, <2>1, <2>2, <1>a, <1>b, <1>c, <1>d, <1>e DEF Enter
<1>21. ASSUME NEW r \in Slots, GrantChosen(r) PROVE Lasts
  <2>1. request[r].who \in People /\ request[r].left \subseteq Workspaces BY <1>21, <1>i DEF GrantChosen, At, Shaped, Requests
  <2>2. Doors BY <1>21, <2>1, <1>g DEF GrantChosen, setWorkspaceAccess, None
  <2>3. QED BY <1>21, <2>1, <2>2, <1>a, <1>b, <1>c, <1>d, <1>e DEF GrantChosen
<1>22. ASSUME NEW r \in Slots, markAsAccepted(r) PROVE Lasts
  <2>1. request[r].inv \in Invites BY <1>22, <1>i DEF markAsAccepted, At, Shaped
  <2>2. Letters BY <1>22, <2>1, <1>h DEF markAsAccepted, None
  <2>3. QED BY <1>22, <2>1, <2>2, <1>a, <1>b, <1>c, <1>d, <1>e DEF markAsAccepted
<1>23. ASSUME NEW r \in Slots, Fault(r) PROVE Lasts
  BY <1>23, <1>a, <1>b, <1>c, <1>d, <1>e DEF Fault
<1>24. ASSUME NEW r \in Slots, NEW i \in Invites, acceptInvite(r, i) PROVE Lasts
  BY <1>24, <1>a, <1>b, <1>c, <1>d, <1>e DEF acceptInvite
<1>25. ASSUME NEW r \in Slots, NEW p \in People, assertUsable(r, p) PROVE Lasts
  BY <1>25, <1>a, <1>b, <1>c, <1>d, <1>e DEF assertUsable
<1>26. ASSUME NEW r \in Slots, NEW p \in People, NEW o \in Offers, AskInvite(r, p, o) PROVE Lasts
  BY <1>26, <1>a, <1>b, <1>c, <1>d, <1>e DEF AskInvite, Manage
<1>27. ASSUME NEW r \in Slots, NEW p \in People, NEW i \in Invites, AskCancel(r, p, i) PROVE Lasts
  BY <1>27, <1>a, <1>b, <1>c, <1>d, <1>e DEF AskCancel, Manage
<1>28. ASSUME NEW r \in Slots, NEW p \in People, NEW q \in People, NEW w \in Workspaces, AskGrant(r, p, q, w) PROVE Lasts
  BY <1>28, <1>a, <1>b, <1>c, <1>d, <1>e DEF AskGrant, Manage
<1>29. ASSUME NEW r \in Slots, NEW p \in People, NEW q \in People, NEW w \in Workspaces, AskRevoke(r, p, q, w) PROVE Lasts
  BY <1>29, <1>a, <1>b, <1>c, <1>d, <1>e DEF AskRevoke, Manage
<1>30. ASSUME NEW r \in Slots, NEW p \in People, NEW q \in People, NEW role \in {"admin", "agent"}, AskRole(r, p, q, role) PROVE Lasts
  BY <1>30, <1>a, <1>b, <1>c, <1>d, <1>e DEF AskRole, Manage
<1>31. ASSUME NEW i \in Invites, Expire(i) PROVE Lasts
  <2>1. Letters BY <1>31, <1>0 DEF Expire, Invitations
  <2>2. QED BY <1>31, <2>1, <1>a, <1>b, <1>c, <1>d, <1>e DEF Expire
<1>32. ASSUME NEW i \in Invites, CloseExpired(i) PROVE Lasts
  <2>1. Letters BY <1>32, <1>h DEF CloseExpired, None
  <2>2. QED BY <1>32, <2>1, <1>a, <1>b, <1>c, <1>d, <1>e DEF CloseExpired
<1>33. QED
  BY <1>1, <1>2, <1>3, <1>4, <1>5, <1>6, <1>7, <1>8, <1>9, <1>10, <1>11, <1>12, <1>13, <1>14, <1>15, <1>16, <1>17, <1>18, <1>19, <1>20, <1>21, <1>22, <1>23, <1>24, <1>25, <1>26, <1>27, <1>28, <1>29, <1>30, <1>31, <1>32
  DEF Next, Step, Ask

LEMMA ShapesStay ==
    ASSUME WellFormed, Next
    PROVE  \A s \in Slots : Shaped(s)'
<1>0. /\ request \in [Slots -> Requests] /\ Lasts
      /\ invite \in [Invites -> Invitations]
      /\ userRole \in [People -> UserRoles]
      /\ member \in [People -> AccountRoles \cup {None}]
  BY EverythingLasts DEF WellFormed, TypeOK, Invitations
<1> DEFINE Goal == \A s \in Slots : Shaped(s)'
           Way(r, step) == /\ request[r].step # "idle"
                           /\ step \in RegisterSteps <=> request[r].step \in RegisterSteps
                           /\ step \in AcceptSteps <=> request[r].step \in AcceptSteps
                           /\ step \in OwnSteps => request[r].step \in OwnSteps
<1>i. \A r \in Slots : Shaped(r) BY DEF WellFormed
<1>a. \A s \in Slots : request'[s] = request[s] => Shaped(s)'
  BY <1>0, <1>i DEF Shaped, Lasts, OwnSteps, AcceptSteps, RegisterSteps
<1>b. \A r \in Slots : Apart(r) /\ Shaped(r)' => Goal BY <1>a DEF Apart
<1>c. ASSUME NEW r \in Slots, NEW step, NEW role, NEW left, Turns(r, step, role, left), Way(r, step),
             step = "join" => role # None
      PROVE  Goal
  <2>1. Shaped(r)' BY <1>c, <1>0, <1>i DEF Shaped, Lasts, Turns, Same, OwnSteps, AcceptSteps, RegisterSteps
  <2>2. QED BY <2>1, <1>b, <1>c DEF Turns
<1>d. ASSUME NEW r \in Slots, End(r) PROVE Goal
  <2>1. Ends(r) BY <1>d, <1>0, Turned
  <2>2. Shaped(r)' BY <2>1 DEF Ends, Shaped, Idle, OwnSteps, AcceptSteps, RegisterSteps, None
  <2>3. QED BY <2>1, <2>2, <1>b DEF Ends
<1>e. ASSUME NEW r \in Slots, NEW step, GoTo(r, step), Way(r, step), step # "join" PROVE Goal
  BY <1>c, <1>e, <1>0, Turned
<1>1. ASSUME NEW r \in Slots, NEW p \in People, RegisterTenant(r, p) PROVE Goal
  <2>1. Apart(r) /\ request'[r] = [Idle EXCEPT !.kind = "register", !.step = "user", !.who = p] BY <1>1, <1>0, Became DEF RegisterTenant, Start, Apart
  <2>2. Shaped(r)' BY <2>1 DEF Shaped, Idle, OwnSteps, AcceptSteps, RegisterSteps, None
  <2>3. Goal BY <2>1, <2>2, <1>b
  <2>4. QED BY <1>1, <2>1, <2>2, <2>3, <1>d, <1>e DEF RegisterTenant
<1>2. ASSUME NEW r \in Slots, RegisterUser(r) PROVE Goal
  <2>1. Way(r, "owner") BY <1>2, <1>0 DEF RegisterUser, At, OwnSteps, AcceptSteps, RegisterSteps
  <2>2. QED BY <1>2, <2>1, <1>d, <1>e DEF RegisterUser
<1>3. ASSUME NEW r \in Slots, RegisterOwner(r) PROVE Goal
  BY <1>3, <1>d, <1>e DEF RegisterOwner
<1>4. ASSUME NEW r \in Slots, findActiveAccountMember(r) PROVE Goal
  <2>1. Way(r, "backfill") /\ Way(r, "checked") BY <1>4 DEF findActiveAccountMember, OwnSteps, AcceptSteps, RegisterSteps
  <2>2. CASE GoTo(r, "backfill") BY <2>1, <2>2, <1>e
  <2>3. CASE Become(r, [request[r] EXCEPT !.step = "checked", !.role = member[request[r].who]])
    <3>1. Turns(r, "checked", member[request[r].who], request[r].left) BY <2>3, <1>0, Turned
    <3>2. QED BY <3>1, <2>1, <1>c
  <2>4. QED BY <1>4, <2>1, <2>2, <2>3, <1>d, <1>e DEF findActiveAccountMember
<1>5. ASSUME NEW r \in Slots, backfillLegacyMember(r) PROVE Goal
  <2>1. Way(r, "owner?") /\ Way(r, "join") BY <1>5 DEF backfillLegacyMember, OwnSteps, AcceptSteps, RegisterSteps
  <2>2. LegacyRole(userRole[request[r].who]) # None BY DEF LegacyRole, None
  <2>3. CASE Become(r, [request[r] EXCEPT !.step = "join", !.role = LegacyRole(userRole[request[r].who])])
    <3>1. Turns(r, "join", LegacyRole(userRole[request[r].who]), request[r].left) BY <2>3, <1>0, Turned
    <3>2. QED BY <3>1, <2>1, <2>2, <1>c
  <2>4. QED BY <1>5, <2>1, <2>2, <2>3, <1>d, <1>e DEF backfillLegacyMember
<1>6. ASSUME NEW r \in Slots, LookForOwner(r) PROVE Goal
  <2>1. Way(r, "join") BY <1>6 DEF LookForOwner, OwnSteps, AcceptSteps, RegisterSteps
  <2>2. RoleOfAdmin # None BY DEF RoleOfAdmin, None
  <2>3. Turns(r, "join", RoleOfAdmin, request[r].left) BY <1>6, <1>0, Turned DEF LookForOwner
  <2>4. Goal BY <2>1, <2>2, <2>3, <1>c
  <2>5. QED BY <1>6, <2>1, <2>2, <2>3, <2>4, <1>d, <1>e DEF LookForOwner
<1>7. ASSUME NEW r \in Slots, Join(r) PROVE Goal
  <2>1. Way(r, "checked") /\ Way(r, "all") BY <1>7 DEF Join, OwnSteps, AcceptSteps, RegisterSteps
  <2>2. QED BY <1>7, <2>1, <1>d, <1>e DEF Join
<1>8. ASSUME NEW r \in Slots, FindWorkspaces(r) PROVE Goal
  <2>1. Way(r, "each") BY <1>8 DEF FindWorkspaces, OwnSteps, AcceptSteps, RegisterSteps
  <2>2. Turns(r, "each", request[r].role, Workspaces) BY <1>8, <1>0, Turned DEF FindWorkspaces
  <2>3. Goal BY <2>1, <2>2, <1>c
  <2>4. QED BY <1>8, <2>1, <2>2, <2>3, <1>d, <1>e DEF FindWorkspaces
<1>9. ASSUME NEW r \in Slots, BackfillAccess(r) PROVE Goal
  <2>1. request[r].step = "each" /\ Way(r, "each") /\ Way(r, "checked") BY <1>9 DEF BackfillAccess, OwnSteps, AcceptSteps, RegisterSteps
  <2>2. ASSUME NEW w \in Workspaces, Become(r, [request[r] EXCEPT !.left = @ \ {w}]) PROVE Goal
    <3>1. Turns(r, request[r].step, request[r].role, request[r].left \ {w}) BY <2>2, <1>0, Turned
    <3>2. QED BY <3>1, <2>1, <1>c
  <2>3. request[r].left \subseteq Workspaces BY <1>0 DEF Requests
  <2>4. QED BY <1>9, <2>1, <2>2, <2>3, <1>d, <1>e DEF BackfillAccess
<1>10. ASSUME NEW r \in Slots, Checked(r) PROVE Goal
  BY <1>10, <1>d, <1>e DEF Checked
<1>11. ASSUME NEW r \in Slots, Forbidden(r) PROVE Goal
  BY <1>11, <1>d, <1>e DEF Forbidden
<1>12. ASSUME NEW r \in Slots, LookForInvitation(r) PROVE Goal
  <2>1. Way(r, "save") BY <1>12 DEF LookForInvitation, assertCanManageAccount, At, OwnSteps, AcceptSteps, RegisterSteps
  <2>2. QED BY <1>12, <2>1, <1>d, <1>e DEF LookForInvitation
<1>13. ASSUME NEW r \in Slots, NEW i \in Invites, SaveInvitation(r, i) PROVE Goal
  BY <1>13, <1>d, <1>e DEF SaveInvitation
<1>14. ASSUME NEW r \in Slots, CancelInvitation(r) PROVE Goal
  BY <1>14, <1>d, <1>e DEF CancelInvitation
<1>15. ASSUME NEW r \in Slots, GrantAccess(r) PROVE Goal
  BY <1>15, <1>d, <1>e DEF GrantAccess
<1>16. ASSUME NEW r \in Slots, RevokeAccess(r) PROVE Goal
  BY <1>16, <1>d, <1>e DEF RevokeAccess
<1>17. ASSUME NEW r \in Slots, changeRole(r) PROVE Goal
  BY <1>17, <1>d, <1>e DEF changeRole
<1>18. ASSUME NEW r \in Slots, FindUser(r) PROVE Goal
  <2>1. Way(r, "create") /\ Way(r, "enter") BY <1>18 DEF FindUser, At, OwnSteps, AcceptSteps, RegisterSteps
  <2>2. StepFor(request[r].who) \in {"create", "enter"} BY DEF StepFor
  <2>3. QED BY <1>18, <2>1, <2>2, <1>d, <1>e DEF FindUser
<1>19. ASSUME NEW r \in Slots, CreateUser(r) PROVE Goal
  <2>1. Way(r, "enter") BY <1>19 DEF CreateUser, At, OwnSteps, AcceptSteps, RegisterSteps
  <2>2. QED BY <1>19, <2>1, <1>d, <1>e DEF CreateUser
<1>20. ASSUME NEW r \in Slots, Enter(r) PROVE Goal
  <2>1. Way(r, "grant") BY <1>20 DEF Enter, At, OwnSteps, AcceptSteps, RegisterSteps
  <2>2. Turns(r, "grant", request[r].role, invite[request[r].inv].wks) BY <1>20, <1>0, Turned DEF Enter, AfterEntering
  <2>3. Goal BY <2>1, <2>2, <1>c
  <2>4. QED BY <1>20, <2>1, <2>2, <2>3, <1>d, <1>e DEF Enter
<1>21. ASSUME NEW r \in Slots, GrantChosen(r) PROVE Goal
  <2>1. request[r].step = "grant" /\ Way(r, "grant") /\ Way(r, "mark") BY <1>21 DEF GrantChosen, At, OwnSteps, AcceptSteps, RegisterSteps
  <2>2. ASSUME NEW w \in Workspaces, Become(r, [request[r] EXCEPT !.left = @ \ {w}]) PROVE Goal
    <3>1. Turns(r, request[r].step, request[r].role, request[r].left \ {w}) BY <2>2, <1>0, Turned
    <3>2. QED BY <3>1, <2>1, <1>c
  <2>3. request[r].left \subseteq Workspaces BY <1>0 DEF Requests
  <2>4. QED BY <1>21, <2>1, <2>2, <2>3, <1>d, <1>e DEF GrantChosen
<1>22. ASSUME NEW r \in Slots, markAsAccepted(r) PROVE Goal
  BY <1>22, <1>d, <1>e DEF markAsAccepted
<1>23. ASSUME NEW r \in Slots, Fault(r) PROVE Goal
  BY <1>23, <1>d, <1>e DEF Fault
<1>24. ASSUME NEW r \in Slots, NEW i \in Invites, acceptInvite(r, i) PROVE Goal
  <2>1. invite[i].status # None /\ invite[i].to \in People BY <1>24 DEF acceptInvite, Open, WellFormed, None, Blank
  <2>2. Apart(r) /\ request'[r] = [Idle EXCEPT !.kind = "accept", !.step = "find", !.who = invite[i].to, !.inv = i] BY <1>24, <1>0, Became DEF acceptInvite, Start, Apart
  <2>3. Shaped(r)' BY <2>1, <2>2, <1>0 DEF Shaped, Idle, Lasts, OwnSteps, AcceptSteps, RegisterSteps
  <2>4. Goal BY <2>2, <2>3, <1>b
  <2>5. QED BY <1>24, <2>1, <2>2, <2>3, <2>4, <1>d, <1>e DEF acceptInvite
<1>25. ASSUME NEW r \in Slots, NEW p \in People, assertUsable(r, p) PROVE Goal
  <2>1. Apart(r) /\ request'[r] = Asked("use", p) BY <1>25, <1>0, Became DEF assertUsable, Start, Apart
  <2>2. Shaped(r)' BY <1>25, <2>1, <1>0 DEF assertUsable, Start, Shaped, Asked, Idle, Lasts, OwnSteps, AcceptSteps, RegisterSteps, None, UserRoles
  <2>3. Goal BY <2>1, <2>2, <1>b
  <2>4. QED BY <1>25, <2>1, <2>2, <2>3, <1>d, <1>e DEF assertUsable
<1>26. ASSUME NEW r \in Slots, NEW p \in People, NEW o \in Offers, AskInvite(r, p, o) PROVE Goal
  <2>1. Apart(r) /\ request'[r] = [Asked("invite", p) EXCEPT !.offer = o] BY <1>26, <1>0, Became DEF AskInvite, Manage, Start, Apart
  <2>2. Shaped(r)' BY <1>26, <2>1, <1>0 DEF AskInvite, Manage, Start, Shaped, Asked, Idle, Lasts, OwnSteps, AcceptSteps, RegisterSteps, None, UserRoles
  <2>3. Goal BY <2>1, <2>2, <1>b
  <2>4. QED BY <1>26, <2>1, <2>2, <2>3, <1>d, <1>e DEF AskInvite, Manage
<1>27. ASSUME NEW r \in Slots, NEW p \in People, NEW i \in Invites, AskCancel(r, p, i) PROVE Goal
  <2>1. invite[i].status # None BY <1>27 DEF AskCancel, WellFormed
  <2>2. Apart(r) /\ request'[r] = [Asked("cancel", p) EXCEPT !.inv = i] BY <1>27, <1>0, Became DEF AskCancel, Manage, Start, Apart
  <2>3. Shaped(r)' BY <1>27, <2>1, <2>2, <1>0 DEF AskCancel, Manage, Start, Shaped, Asked, Idle, Lasts, OwnSteps, AcceptSteps, RegisterSteps, None, UserRoles
  <2>4. Goal BY <2>2, <2>3, <1>b
  <2>5. QED BY <1>27, <2>1, <2>2, <2>3, <2>4, <1>d, <1>e DEF AskCancel, Manage
<1>28. ASSUME NEW r \in Slots, NEW p \in People, NEW q \in People, NEW w \in Workspaces, AskGrant(r, p, q, w) PROVE Goal
  <2>1. Apart(r) /\ request'[r] = [Asked("grant", p) EXCEPT !.inv = q, !.ws = w] BY <1>28, <1>0, Became DEF AskGrant, Manage, Start, Apart
  <2>2. Shaped(r)' BY <1>28, <2>1, <1>0 DEF AskGrant, Manage, Start, Shaped, Asked, Idle, Lasts, OwnSteps, AcceptSteps, RegisterSteps, None, UserRoles
  <2>3. Goal BY <2>1, <2>2, <1>b
  <2>4. QED BY <1>28, <2>1, <2>2, <2>3, <1>d, <1>e DEF AskGrant, Manage
<1>29. ASSUME NEW r \in Slots, NEW p \in People, NEW q \in People, NEW w \in Workspaces, AskRevoke(r, p, q, w) PROVE Goal
  <2>1. Apart(r) /\ request'[r] = [Asked("revoke", p) EXCEPT !.inv = q, !.ws = w] BY <1>29, <1>0, Became DEF AskRevoke, Manage, Start, Apart
  <2>2. Shaped(r)' BY <1>29, <2>1, <1>0 DEF AskRevoke, Manage, Start, Shaped, Asked, Idle, Lasts, OwnSteps, AcceptSteps, RegisterSteps, None, UserRoles
  <2>3. Goal BY <2>1, <2>2, <1>b
  <2>4. QED BY <1>29, <2>1, <2>2, <2>3, <1>d, <1>e DEF AskRevoke, Manage
<1>30. ASSUME NEW r \in Slots, NEW p \in People, NEW q \in People, NEW role \in {"admin", "agent"}, AskRole(r, p, q, role) PROVE Goal
  <2>1. Apart(r) /\ request'[r] = [Asked("role", p) EXCEPT !.inv = q, !.new = role] BY <1>30, <1>0, Became DEF AskRole, Manage, Start, Apart
  <2>2. Shaped(r)' BY <1>30, <2>1, <1>0 DEF AskRole, Manage, Start, Shaped, Asked, Idle, Lasts, OwnSteps, AcceptSteps, RegisterSteps, None, UserRoles
  <2>3. Goal BY <2>1, <2>2, <1>b
  <2>4. QED BY <1>30, <2>1, <2>2, <2>3, <1>d, <1>e DEF AskRole, Manage
<1>31. ASSUME NEW i \in Invites, Expire(i) PROVE Goal
  BY <1>31, <1>a DEF Expire
<1>32. ASSUME NEW i \in Invites, CloseExpired(i) PROVE Goal
  BY <1>32, <1>a DEF CloseExpired
<1>33. QED
  BY <1>1, <1>2, <1>3, <1>4, <1>5, <1>6, <1>7, <1>8, <1>9, <1>10, <1>11, <1>12, <1>13, <1>14, <1>15, <1>16, <1>17, <1>18, <1>19, <1>20, <1>21, <1>22, <1>23, <1>24, <1>25, <1>26, <1>27, <1>28, <1>29, <1>30, <1>31, <1>32
  DEF Next, Step, Ask

LEMMA WellFormedStays ==
    ASSUME WellFormed, Next
    PROVE  WellFormed'
<1>0. /\ TypeOK' /\ (\A s \in Slots : Shaped(s)') /\ Lasts
      /\ invite \in [Invites -> Invitations] /\ request \in [Slots -> Requests]
  BY TypedStays, ShapesStay, EverythingLasts DEF WellFormed, TypeOK, Invitations
<1> DEFINE Goal == \A i \in Invites : invite'[i] = Blank \/ (invite'[i].status # None /\ invite'[i].to \in People)
<1>a. Goal => WellFormed' BY <1>0 DEF WellFormed
<1>b. UNCHANGED invite => Goal BY DEF WellFormed
<1>c. \A r \in Slots : Shaped(r) BY DEF WellFormed
<1>d. ASSUME NEW j \in Invites, invite[j].status # None, \A i \in Invites \ {j} : invite'[i] = invite[i] PROVE Goal
  <2>1. invite[j] # Blank BY <1>d DEF Blank
  <2>2. invite'[j].status # None /\ invite'[j].to \in People BY <1>d, <2>1, <1>0 DEF Lasts, WellFormed
  <2>3. QED BY <1>d, <2>2 DEF WellFormed
<1>1. ASSUME NEW r \in Slots, NEW p \in People, RegisterTenant(r, p) PROVE WellFormed'
  BY <1>1, <1>a, <1>b DEF RegisterTenant
<1>2. ASSUME NEW r \in Slots, RegisterUser(r) PROVE WellFormed'
  BY <1>2, <1>a, <1>b DEF RegisterUser
<1>3. ASSUME NEW r \in Slots, RegisterOwner(r) PROVE WellFormed'
  BY <1>3, <1>a, <1>b DEF RegisterOwner
<1>4. ASSUME NEW r \in Slots, findActiveAccountMember(r) PROVE WellFormed'
  BY <1>4, <1>a, <1>b DEF findActiveAccountMember
<1>5. ASSUME NEW r \in Slots, backfillLegacyMember(r) PROVE WellFormed'
  BY <1>5, <1>a, <1>b DEF backfillLegacyMember
<1>6. ASSUME NEW r \in Slots, LookForOwner(r) PROVE WellFormed'
  BY <1>6, <1>a, <1>b DEF LookForOwner
<1>7. ASSUME NEW r \in Slots, Join(r) PROVE WellFormed'
  BY <1>7, <1>a, <1>b DEF Join
<1>8. ASSUME NEW r \in Slots, FindWorkspaces(r) PROVE WellFormed'
  BY <1>8, <1>a, <1>b DEF FindWorkspaces
<1>9. ASSUME NEW r \in Slots, BackfillAccess(r) PROVE WellFormed'
  BY <1>9, <1>a, <1>b DEF BackfillAccess
<1>10. ASSUME NEW r \in Slots, Checked(r) PROVE WellFormed'
  BY <1>10, <1>a, <1>b DEF Checked
<1>11. ASSUME NEW r \in Slots, Forbidden(r) PROVE WellFormed'
  BY <1>11, <1>a, <1>b DEF Forbidden
<1>12. ASSUME NEW r \in Slots, LookForInvitation(r) PROVE WellFormed'
  BY <1>12, <1>a, <1>b DEF LookForInvitation
<1>13. ASSUME NEW r \in Slots, NEW i \in Invites, SaveInvitation(r, i) PROVE WellFormed'
  <2>1. request[r].offer \in Offers BY <1>13, <1>c DEF SaveInvitation, At, Shaped
  <2>2. invite'[i].to \in People /\ invite'[i].status # None BY <1>13, <2>1, <1>0 DEF SaveInvitation, None
  <2>3. Goal BY <1>13, <2>2, <1>0 DEF SaveInvitation, WellFormed
  <2>4. QED BY <1>13, <2>1, <2>2, <2>3, <1>a, <1>b DEF SaveInvitation
<1>14. ASSUME NEW r \in Slots, CancelInvitation(r) PROVE WellFormed'
  <2>1. request[r].inv \in Invites /\ invite[request[r].inv].status # None BY <1>14, <1>c DEF CancelInvitation, assertCanManageAccount, At, Shaped
  <2>2. Goal BY <1>14, <2>1, <1>0, <1>d DEF CancelInvitation
  <2>3. QED BY <1>14, <2>1, <2>2, <1>a, <1>b DEF CancelInvitation
<1>15. ASSUME NEW r \in Slots, GrantAccess(r) PROVE WellFormed'
  BY <1>15, <1>a, <1>b DEF GrantAccess
<1>16. ASSUME NEW r \in Slots, RevokeAccess(r) PROVE WellFormed'
  BY <1>16, <1>a, <1>b DEF RevokeAccess
<1>17. ASSUME NEW r \in Slots, changeRole(r) PROVE WellFormed'
  BY <1>17, <1>a, <1>b DEF changeRole
<1>18. ASSUME NEW r \in Slots, FindUser(r) PROVE WellFormed'
  BY <1>18, <1>a, <1>b DEF FindUser
<1>19. ASSUME NEW r \in Slots, CreateUser(r) PROVE WellFormed'
  BY <1>19, <1>a, <1>b DEF CreateUser
<1>20. ASSUME NEW r \in Slots, Enter(r) PROVE WellFormed'
  BY <1>20, <1>a, <1>b DEF Enter
<1>21. ASSUME NEW r \in Slots, GrantChosen(r) PROVE WellFormed'
  BY <1>21, <1>a, <1>b DEF GrantChosen
<1>22. ASSUME NEW r \in Slots, markAsAccepted(r) PROVE WellFormed'
  <2>1. request[r].inv \in Invites /\ invite[request[r].inv].status # None BY <1>22, <1>c DEF markAsAccepted, At, Shaped
  <2>2. Goal BY <1>22, <2>1, <1>0, <1>d DEF markAsAccepted
  <2>3. QED BY <1>22, <2>1, <2>2, <1>a, <1>b DEF markAsAccepted
<1>23. ASSUME NEW r \in Slots, Fault(r) PROVE WellFormed'
  BY <1>23, <1>a, <1>b DEF Fault
<1>24. ASSUME NEW r \in Slots, NEW i \in Invites, acceptInvite(r, i) PROVE WellFormed'
  BY <1>24, <1>a, <1>b DEF acceptInvite
<1>25. ASSUME NEW r \in Slots, NEW p \in People, assertUsable(r, p) PROVE WellFormed'
  BY <1>25, <1>a, <1>b DEF assertUsable
<1>26. ASSUME NEW r \in Slots, NEW p \in People, NEW o \in Offers, AskInvite(r, p, o) PROVE WellFormed'
  BY <1>26, <1>a, <1>b DEF AskInvite, Manage
<1>27. ASSUME NEW r \in Slots, NEW p \in People, NEW i \in Invites, AskCancel(r, p, i) PROVE WellFormed'
  BY <1>27, <1>a, <1>b DEF AskCancel, Manage
<1>28. ASSUME NEW r \in Slots, NEW p \in People, NEW q \in People, NEW w \in Workspaces, AskGrant(r, p, q, w) PROVE WellFormed'
  BY <1>28, <1>a, <1>b DEF AskGrant, Manage
<1>29. ASSUME NEW r \in Slots, NEW p \in People, NEW q \in People, NEW w \in Workspaces, AskRevoke(r, p, q, w) PROVE WellFormed'
  BY <1>29, <1>a, <1>b DEF AskRevoke, Manage
<1>30. ASSUME NEW r \in Slots, NEW p \in People, NEW q \in People, NEW role \in {"admin", "agent"}, AskRole(r, p, q, role) PROVE WellFormed'
  BY <1>30, <1>a, <1>b DEF AskRole, Manage
<1>31. ASSUME NEW i \in Invites, Expire(i) PROVE WellFormed'
  <2>1. Goal BY <1>31, <1>0, <1>d DEF Expire, None
  <2>2. QED BY <1>31, <2>1, <1>a, <1>b DEF Expire
<1>32. ASSUME NEW i \in Invites, CloseExpired(i) PROVE WellFormed'
  <2>1. Goal BY <1>32, <1>0, <1>d DEF CloseExpired, None
  <2>2. QED BY <1>32, <2>1, <1>a, <1>b DEF CloseExpired
<1>33. QED
  BY <1>1, <1>2, <1>3, <1>4, <1>5, <1>6, <1>7, <1>8, <1>9, <1>10, <1>11, <1>12, <1>13, <1>14, <1>15, <1>16, <1>17, <1>18, <1>19, <1>20, <1>21, <1>22, <1>23, <1>24, <1>25, <1>26, <1>27, <1>28, <1>29, <1>30, <1>31, <1>32
  DEF Next, Step, Ask

-----------------------------------------------------------------------------
(* The first user. *)

LEMMA FoundedStays ==
    ASSUME WellFormed, Founded, Next
    PROVE  Founded'
<1>0. request \in [Slots -> Requests] /\ Lasts
  BY EverythingLasts DEF WellFormed, TypeOK
<1>i. \A r \in Slots : Shaped(r) BY DEF WellFormed
<1>a. ASSUME NEW r \in Slots, tenant' = tenant, Apart(r), request'[r].step # "user",
             Registers(r)' => Registers(r), Vacant => Vacant'
      PROVE  Founded'
  BY <1>a DEF Founded, Apart, Registers
<1>b. \A r \in Slots : request[r].step \notin {"idle", "member", "backfill", "user"} => ~Vacant BY DEF Vacant
<1>c. ASSUME NEW r \in Slots, Apart(r), UNCHANGED <<home, member, invite>>,
             request'[r].step \in {"idle", "member", "backfill", "user"}
      PROVE  Vacant => Vacant'
  BY <1>c DEF Vacant, Apart
<1>d. ASSUME NEW r \in Slots, tenant' = tenant, UNCHANGED <<home, member, invite>>, End(r)
      PROVE  Founded'
  <2>a. Ends(r) BY <1>d, <1>0, Turned
  <2>1. Apart(r) /\ request'[r].step = "idle" /\ ~Registers(r)' BY <2>a DEF Ends, Idle, Registers, None
  <2>2. QED BY <1>d, <2>1, <1>a, <1>c
<1>e. ASSUME NEW r \in Slots, NEW step, NEW role, NEW left, tenant' = tenant, ~Vacant,
             Turns(r, step, role, left), step # "user"
      PROVE  Founded'
  BY <1>a, <1>e DEF Turns, Same, Registers
<1>f. ASSUME NEW r \in Slots, NEW step, tenant' = tenant, ~Vacant, GoTo(r, step), step # "user"
      PROVE  Founded'
  <2>1. Turns(r, step, request[r].role, request[r].left) BY <1>f, <1>0, Turned
  <2>2. QED BY <2>1, <1>f, <1>e
<1>g. ASSUME NEW r \in Slots, tenant' = tenant, ~Vacant, End(r)
      PROVE  Founded'
  <2>a. Ends(r) BY <1>g, <1>0, Turned
  <2>1. Apart(r) /\ request'[r].step = "idle" /\ ~Registers(r)' BY <2>a DEF Ends, Idle, Registers, None
  <2>2. QED BY <1>g, <2>1, <1>a
<1>1. ASSUME NEW r \in Slots, NEW p \in People, RegisterTenant(r, p) PROVE Founded'
  <2>1. Apart(r) /\ request'[r] = [Idle EXCEPT !.kind = "register", !.step = "user", !.who = p] BY <1>1, <1>0, Became DEF RegisterTenant, Start, Apart
  <2>2. request'[r].step = "user" /\ Vacant /\ UNCHANGED <<home, member, invite>> /\ tenant' = TRUE BY <1>1, <2>1 DEF RegisterTenant, users, records, Idle, Founded
  <2>3. Vacant' BY <2>1, <2>2, <1>c
  <2>4. \A s \in Slots \ {r} : ~Registers(s)' BY <1>1, <2>1 DEF RegisterTenant, Founded, Registers, Apart
  <2>5. Founded' BY <2>2, <2>3, <2>4 DEF Founded
  <2>6. QED BY <1>1, <2>1, <2>2, <2>3, <2>4, <2>5, <1>f, <1>g DEF RegisterTenant
<1>2. ASSUME NEW r \in Slots, RegisterUser(r) PROVE Founded'
  <2>1. Registers(r) /\ tenant BY <1>2 DEF RegisterUser, At, Founded, Registers
  <2>2. Apart(r) /\ request'[r].step # "user" /\ (Registers(r)' => Registers(r)) /\ tenant' = tenant
    <3>1. Ends(r) \/ Turns(r, "owner", request[r].role, request[r].left) BY <1>2, <1>0, Turned DEF RegisterUser
    <3>2. QED BY <1>2, <3>1 DEF RegisterUser, Ends, Turns, Same, Idle, Registers, None
  <2>3. \A s \in Slots : request'[s].step # "user" BY <2>1, <2>2, <1>i DEF Founded, Apart, Shaped, Registers, RegisterSteps
  <2>4. Founded' BY <2>1, <2>2, <2>3 DEF Founded, Apart, Registers
  <2>5. QED BY <1>2, <2>1, <2>2, <2>3, <2>4, <1>f, <1>g DEF RegisterUser
<1>3. ASSUME NEW r \in Slots, RegisterOwner(r) PROVE Founded'
  <2>1. ~Vacant BY <1>3, <1>b DEF RegisterOwner, At
  <2>2. QED BY <1>3, <2>1, <1>f, <1>g DEF RegisterOwner
<1>4. ASSUME NEW r \in Slots, findActiveAccountMember(r) PROVE Founded'
  <2>1. request[r].who \in People BY <1>4, <1>i DEF findActiveAccountMember, Shaped
  <2>2. CASE GoTo(r, "backfill")
    <3>1. Turns(r, "backfill", request[r].role, request[r].left) BY <2>2, <1>0, Turned
    <3>2. QED BY <1>4, <3>1, <1>a, <1>c DEF findActiveAccountMember, Turns, Same, Registers, users, records
  <2>3. CASE ~NeedsBackfill(request[r].who)
    <3>1. Turns(r, "checked", member[request[r].who], request[r].left) BY <1>4, <2>3, <1>0, Turned DEF findActiveAccountMember
    <3>2. ~Vacant BY <2>1, <2>3 DEF NeedsBackfill, Vacant
    <3>3. QED BY <1>4, <3>1, <3>2, <1>e DEF findActiveAccountMember
  <2>4. QED BY <1>4, <2>1, <2>2, <2>3, <1>f, <1>g DEF findActiveAccountMember
<1>5. ASSUME NEW r \in Slots, backfillLegacyMember(r) PROVE Founded'
  <2>1. request[r].who \in People BY <1>5, <1>i DEF backfillLegacyMember, Shaped
  <2>2. home[request[r].who] = Here => ~Vacant BY <2>1 DEF Vacant
  <2>3. CASE Become(r, [request[r] EXCEPT !.step = "join", !.role = LegacyRole(userRole[request[r].who])]) /\ home[request[r].who] = Here
    <3>1. Turns(r, "join", LegacyRole(userRole[request[r].who]), request[r].left) BY <2>3, <1>0, Turned
    <3>2. QED BY <1>5, <2>2, <2>3, <3>1, <1>e DEF backfillLegacyMember
  <2>4. CASE GoTo(r, "owner?") /\ home[request[r].who] = Here BY <1>5, <2>2, <2>4, <1>f DEF backfillLegacyMember
  <2>5. CASE End(r) BY <1>5, <2>5, <1>d DEF backfillLegacyMember, users, records
  <2>6. QED BY <1>5, <2>1, <2>2, <2>3, <2>4, <2>5, <1>f, <1>g DEF backfillLegacyMember
<1>6. ASSUME NEW r \in Slots, LookForOwner(r) PROVE Founded'
  <2>1. ~Vacant BY <1>6, <1>b DEF LookForOwner
  <2>2. Turns(r, "join", RoleOfAdmin, request[r].left) BY <1>6, <1>0, Turned DEF LookForOwner
  <2>3. Founded' BY <1>6, <2>1, <2>2, <1>e DEF LookForOwner
  <2>4. QED BY <1>6, <2>1, <2>2, <2>3, <1>f, <1>g DEF LookForOwner
<1>7. ASSUME NEW r \in Slots, Join(r) PROVE Founded'
  <2>1. ~Vacant BY <1>7, <1>b DEF Join
  <2>2. QED BY <1>7, <2>1, <1>f, <1>g DEF Join
<1>8. ASSUME NEW r \in Slots, FindWorkspaces(r) PROVE Founded'
  <2>1. ~Vacant BY <1>8, <1>b DEF FindWorkspaces
  <2>2. Turns(r, "each", request[r].role, Workspaces) BY <1>8, <1>0, Turned DEF FindWorkspaces
  <2>3. Founded' BY <1>8, <2>1, <2>2, <1>e DEF FindWorkspaces
  <2>4. QED BY <1>8, <2>1, <2>2, <2>3, <1>f, <1>g DEF FindWorkspaces
<1>9. ASSUME NEW r \in Slots, BackfillAccess(r) PROVE Founded'
  <2>1. ~Vacant BY <1>9, <1>b DEF BackfillAccess
  <2>2. ASSUME NEW w \in Workspaces, Become(r, [request[r] EXCEPT !.left = @ \ {w}]), tenant' = tenant PROVE Founded'
    <3>1. Turns(r, request[r].step, request[r].role, request[r].left \ {w}) BY <2>2, <1>0, Turned
    <3>2. request[r].step = "each" BY <1>9 DEF BackfillAccess
    <3>3. QED BY <3>1, <3>2, <2>1, <2>2, <1>e
  <2>3. request[r].left \subseteq Workspaces BY <1>0 DEF Requests
  <2>4. QED BY <1>9, <2>1, <2>2, <2>3, <1>f, <1>g DEF BackfillAccess
<1>10. ASSUME NEW r \in Slots, Checked(r) PROVE Founded'
  <2>1. ~Vacant BY <1>10, <1>b DEF Checked, At
  <2>2. QED BY <1>10, <2>1, <1>f, <1>g DEF Checked
<1>11. ASSUME NEW r \in Slots, Forbidden(r) PROVE Founded'
  <2>1. ~Vacant BY <1>11, <1>b DEF Forbidden
  <2>2. QED BY <1>11, <2>1, <1>f, <1>g DEF Forbidden
<1>12. ASSUME NEW r \in Slots, LookForInvitation(r) PROVE Founded'
  <2>1. ~Vacant BY <1>12, <1>b DEF LookForInvitation, assertCanManageAccount, At
  <2>2. QED BY <1>12, <2>1, <1>f, <1>g DEF LookForInvitation
<1>13. ASSUME NEW r \in Slots, NEW i \in Invites, SaveInvitation(r, i) PROVE Founded'
  <2>1. ~Vacant BY <1>13, <1>b DEF SaveInvitation, At
  <2>2. QED BY <1>13, <2>1, <1>f, <1>g DEF SaveInvitation
<1>14. ASSUME NEW r \in Slots, CancelInvitation(r) PROVE Founded'
  <2>1. ~Vacant BY <1>14, <1>b DEF CancelInvitation, assertCanManageAccount, At
  <2>2. QED BY <1>14, <2>1, <1>f, <1>g DEF CancelInvitation
<1>15. ASSUME NEW r \in Slots, GrantAccess(r) PROVE Founded'
  <2>1. ~Vacant BY <1>15, <1>b DEF GrantAccess, assertCanManageAccount, At
  <2>2. QED BY <1>15, <2>1, <1>f, <1>g DEF GrantAccess
<1>16. ASSUME NEW r \in Slots, RevokeAccess(r) PROVE Founded'
  <2>1. ~Vacant BY <1>16, <1>b DEF RevokeAccess, assertCanManageAccount, At
  <2>2. QED BY <1>16, <2>1, <1>f, <1>g DEF RevokeAccess
<1>17. ASSUME NEW r \in Slots, changeRole(r) PROVE Founded'
  <2>1. ~Vacant BY <1>17, <1>b DEF changeRole, assertCanManageAccount, At
  <2>2. QED BY <1>17, <2>1, <1>f, <1>g DEF changeRole
<1>18. ASSUME NEW r \in Slots, FindUser(r) PROVE Founded'
  <2>1. ~Vacant BY <1>18, <1>b DEF FindUser, At
  <2>2. StepFor(request[r].who) # "user" BY DEF StepFor
  <2>3. QED BY <1>18, <2>1, <2>2, <1>f, <1>g DEF FindUser
<1>19. ASSUME NEW r \in Slots, CreateUser(r) PROVE Founded'
  <2>1. ~Vacant BY <1>19, <1>b DEF CreateUser, At
  <2>2. QED BY <1>19, <2>1, <1>f, <1>g DEF CreateUser
<1>20. ASSUME NEW r \in Slots, Enter(r) PROVE Founded'
  <2>1. ~Vacant BY <1>20, <1>b DEF Enter, At
  <2>2. Turns(r, "grant", request[r].role, invite[request[r].inv].wks) BY <1>20, <1>0, Turned DEF Enter, AfterEntering
  <2>3. Founded' BY <1>20, <2>1, <2>2, <1>e DEF Enter
  <2>4. QED BY <1>20, <2>1, <2>2, <2>3, <1>f, <1>g DEF Enter
<1>21. ASSUME NEW r \in Slots, GrantChosen(r) PROVE Founded'
  <2>1. ~Vacant BY <1>21, <1>b DEF GrantChosen, At
  <2>2. ASSUME NEW w \in Workspaces, Become(r, [request[r] EXCEPT !.left = @ \ {w}]), tenant' = tenant PROVE Founded'
    <3>1. Turns(r, request[r].step, request[r].role, request[r].left \ {w}) BY <2>2, <1>0, Turned
    <3>2. request[r].step = "grant" BY <1>21 DEF GrantChosen, At
    <3>3. QED BY <3>1, <3>2, <2>1, <2>2, <1>e
  <2>3. request[r].left \subseteq Workspaces BY <1>0 DEF Requests
  <2>4. QED BY <1>21, <2>1, <2>2, <2>3, <1>f, <1>g DEF GrantChosen
<1>22. ASSUME NEW r \in Slots, markAsAccepted(r) PROVE Founded'
  <2>1. ~Vacant BY <1>22, <1>b DEF markAsAccepted, At
  <2>2. QED BY <1>22, <2>1, <1>f, <1>g DEF markAsAccepted
<1>23. ASSUME NEW r \in Slots, Fault(r) PROVE Founded'
  <2>1. Founded' BY <1>23, <1>d DEF Fault, users, records
  <2>2. QED BY <1>23, <2>1, <1>f, <1>g DEF Fault
<1>24. ASSUME NEW r \in Slots, NEW i \in Invites, acceptInvite(r, i) PROVE Founded'
  <2>1. ~Vacant BY <1>24 DEF acceptInvite, Open, Vacant, None
  <2>2. Apart(r) /\ request'[r] = [Idle EXCEPT !.kind = "accept", !.step = "find", !.who = invite[i].to, !.inv = i] BY <1>24, <1>0, Became DEF acceptInvite, Start, Apart
  <2>3. request'[r].step = "find" /\ ~Registers(r)' /\ tenant' = tenant BY <1>24, <2>2 DEF Idle, Registers, acceptInvite
  <2>4. Founded' BY <2>1, <2>2, <2>3, <1>a
  <2>5. QED BY <1>24, <2>1, <2>2, <2>3, <2>4, <1>f, <1>g DEF acceptInvite
<1>25. ASSUME NEW r \in Slots, NEW p \in People, assertUsable(r, p) PROVE Founded'
  <2>1. Apart(r) /\ request'[r] = Asked("use", p) BY <1>25, <1>0, Became DEF assertUsable, Start, Apart
  <2>2. request'[r].step = "member" /\ ~Registers(r)' BY <2>1 DEF Asked, Idle, Registers
  <2>3. UNCHANGED <<tenant, home, member, invite>> BY <1>25 DEF assertUsable, users, records
  <2>4. Founded' BY <2>1, <2>2, <2>3, <1>a, <1>c
  <2>5. QED BY <1>25, <2>1, <2>2, <2>3, <2>4, <1>f, <1>g DEF assertUsable
<1>26. ASSUME NEW r \in Slots, NEW p \in People, NEW o \in Offers, AskInvite(r, p, o) PROVE Founded'
  <2>1. Apart(r) /\ request'[r] = [Asked("invite", p) EXCEPT !.offer = o] BY <1>26, <1>0, Became DEF AskInvite, Manage, Start, Apart
  <2>2. request'[r].step = "member" /\ ~Registers(r)' BY <2>1 DEF Asked, Idle, Registers
  <2>3. UNCHANGED <<tenant, home, member, invite>> BY <1>26 DEF AskInvite, Manage, users, records
  <2>4. Founded' BY <2>1, <2>2, <2>3, <1>a, <1>c
  <2>5. QED BY <1>26, <2>1, <2>2, <2>3, <2>4, <1>f, <1>g DEF AskInvite, Manage
<1>27. ASSUME NEW r \in Slots, NEW p \in People, NEW i \in Invites, AskCancel(r, p, i) PROVE Founded'
  <2>1. Apart(r) /\ request'[r] = [Asked("cancel", p) EXCEPT !.inv = i] BY <1>27, <1>0, Became DEF AskCancel, Manage, Start, Apart
  <2>2. request'[r].step = "member" /\ ~Registers(r)' BY <2>1 DEF Asked, Idle, Registers
  <2>3. UNCHANGED <<tenant, home, member, invite>> BY <1>27 DEF AskCancel, Manage, users, records
  <2>4. Founded' BY <2>1, <2>2, <2>3, <1>a, <1>c
  <2>5. QED BY <1>27, <2>1, <2>2, <2>3, <2>4, <1>f, <1>g DEF AskCancel, Manage
<1>28. ASSUME NEW r \in Slots, NEW p \in People, NEW q \in People, NEW w \in Workspaces, AskGrant(r, p, q, w) PROVE Founded'
  <2>1. Apart(r) /\ request'[r] = [Asked("grant", p) EXCEPT !.inv = q, !.ws = w] BY <1>28, <1>0, Became DEF AskGrant, Manage, Start, Apart
  <2>2. request'[r].step = "member" /\ ~Registers(r)' BY <2>1 DEF Asked, Idle, Registers
  <2>3. UNCHANGED <<tenant, home, member, invite>> BY <1>28 DEF AskGrant, Manage, users, records
  <2>4. Founded' BY <2>1, <2>2, <2>3, <1>a, <1>c
  <2>5. QED BY <1>28, <2>1, <2>2, <2>3, <2>4, <1>f, <1>g DEF AskGrant, Manage
<1>29. ASSUME NEW r \in Slots, NEW p \in People, NEW q \in People, NEW w \in Workspaces, AskRevoke(r, p, q, w) PROVE Founded'
  <2>1. Apart(r) /\ request'[r] = [Asked("revoke", p) EXCEPT !.inv = q, !.ws = w] BY <1>29, <1>0, Became DEF AskRevoke, Manage, Start, Apart
  <2>2. request'[r].step = "member" /\ ~Registers(r)' BY <2>1 DEF Asked, Idle, Registers
  <2>3. UNCHANGED <<tenant, home, member, invite>> BY <1>29 DEF AskRevoke, Manage, users, records
  <2>4. Founded' BY <2>1, <2>2, <2>3, <1>a, <1>c
  <2>5. QED BY <1>29, <2>1, <2>2, <2>3, <2>4, <1>f, <1>g DEF AskRevoke, Manage
<1>30. ASSUME NEW r \in Slots, NEW p \in People, NEW q \in People, NEW role \in {"admin", "agent"}, AskRole(r, p, q, role) PROVE Founded'
  <2>1. Apart(r) /\ request'[r] = [Asked("role", p) EXCEPT !.inv = q, !.new = role] BY <1>30, <1>0, Became DEF AskRole, Manage, Start, Apart
  <2>2. request'[r].step = "member" /\ ~Registers(r)' BY <2>1 DEF Asked, Idle, Registers
  <2>3. UNCHANGED <<tenant, home, member, invite>> BY <1>30 DEF AskRole, Manage, users, records
  <2>4. Founded' BY <2>1, <2>2, <2>3, <1>a, <1>c
  <2>5. QED BY <1>30, <2>1, <2>2, <2>3, <2>4, <1>f, <1>g DEF AskRole, Manage
<1>31. ASSUME NEW i \in Invites, Expire(i) PROVE Founded'
  <2>1. Vacant => Vacant' BY <1>31 DEF Expire, Vacant, None
  <2>2. Founded' BY <1>31, <2>1 DEF Expire, Founded, Registers
  <2>3. QED BY <1>31, <2>1, <2>2, <1>f, <1>g DEF Expire
<1>32. ASSUME NEW i \in Invites, CloseExpired(i) PROVE Founded'
  <2>1. Vacant => Vacant' BY <1>32 DEF CloseExpired, Vacant, None
  <2>2. Founded' BY <1>32, <2>1 DEF CloseExpired, Founded, Registers
  <2>3. QED BY <1>32, <2>1, <2>2, <1>f, <1>g DEF CloseExpired
<1>33. QED
  BY <1>1, <1>2, <1>3, <1>4, <1>5, <1>6, <1>7, <1>8, <1>9, <1>10, <1>11, <1>12, <1>13, <1>14, <1>15, <1>16, <1>17, <1>18, <1>19, <1>20, <1>21, <1>22, <1>23, <1>24, <1>25, <1>26, <1>27, <1>28, <1>29, <1>30, <1>31, <1>32
  DEF Next, Step, Ask

-----------------------------------------------------------------------------
(* The owner. *)

LEMMA OwnedStays ==
    ASSUME WellFormed, Founded, Owned, Next
    PROVE  Owned'
<1>0. /\ request \in [Slots -> Requests] /\ Lasts /\ overlapped \in BOOLEAN
      /\ member \in [People -> AccountRoles \cup {None}]
      /\ home \in [People -> {None, Here, Away}]
  BY EverythingLasts DEF WellFormed, TypeOK
<1>i. \A r \in Slots : Shaped(r) BY DEF WellFormed
\* A step after which nobody new is choosing, or crowning.
<1>a. ASSUME NEW r \in Slots, UNCHANGED <<home, member>>, overlapped => overlapped', Apart(r),
             Choosing(r)' => Choosing(r) /\ request'[r].who = request[r].who,
             Crowning(r)' => Crowning(r) \/ \A p \in People : member[p] # "owner"
      PROVE  Owned'
  <2>1. \A s \in Slots \ {r} : (Choosing(s)' <=> Choosing(s)) /\ (Crowning(s)' <=> Crowning(s)) /\ request'[s] = request[s]
    BY <1>a DEF Apart, Choosing, Crowning
  <2>2. QED BY <1>a, <2>1 DEF Owned
<1>b. ASSUME NEW r \in Slots, UNCHANGED <<home, member>>, overlapped => overlapped', Apart(r),
             request'[r].step \notin {"owner?", "join", "owner", "backfill"}
      PROVE  Owned'
  <2>1. ~Choosing(r)' /\ ~Crowning(r)' BY <1>b DEF Choosing, Crowning
  <2>2. QED BY <2>1, <1>a, <1>b
<1>c. ASSUME NEW r \in Slots, UNCHANGED <<home, member>>, overlapped => overlapped', End(r)
      PROVE  Owned'
  <2>1. Ends(r) BY <1>c, <1>0, Turned
  <2>2. Apart(r) /\ request'[r].step = "idle" BY <2>1 DEF Ends, Idle
  <2>3. QED BY <1>b, <1>c, <2>2
<1>d. ASSUME NEW r \in Slots, UNCHANGED <<home, member>>, overlapped => overlapped', NEW step, GoTo(r, step),
             step \notin {"owner?", "join", "owner", "backfill"}
      PROVE  Owned'
  <2>1. Turns(r, step, request[r].role, request[r].left) BY <1>d, <1>0, Turned
  <2>2. QED BY <1>b, <1>d, <2>1 DEF Turns
\* The choice is made: whoever else is in the account, one is the owner.
<1>e. ASSUME NEW r \in Slots, NEW role, Choosing(r), ensureAccountMember(request[r].who, role), Apart(r),
             request'[r].step \notin {"owner?", "join", "owner", "backfill"}, role = "owner" => Crowning(r),
             UNCHANGED <<home, overlapped>>, request[r].who \in People
      PROVE  Owned'
  <2> SUFFICES ASSUME ~overlapped PROVE Owned' BY <1>e DEF Owned
  <2>1. \A s \in Slots \ {r} : ~Choosing(s)' /\ ~Crowning(s)' BY <1>e DEF Owned, Apart, Choosing, Crowning
  <2>2. ~Choosing(r)' /\ ~Crowning(r)' BY <1>e DEF Choosing, Crowning
  <2>3. \A p \in People : member'[p] = IF p = request[r].who THEN role ELSE member[p]
    BY <1>0, <1>e DEF ensureAccountMember
  <2>4. \A p, q \in People : member'[p] = "owner" /\ member'[q] = "owner" => p = q
    <3>1. CASE role = "owner" BY <3>1, <1>e, <2>3 DEF Owned
    <3>2. CASE role # "owner" BY <3>2, <2>3 DEF Owned
    <3>3. QED BY <3>1, <3>2
  <2>5. QED BY <2>1, <2>2, <2>4 DEF Owned
\* A user is created: nobody waits for his place.
<1>f. ASSUME NEW r \in Slots, UNCHANGED <<member, overlapped>>, Apart(r), NEW p \in People, home[p] = None,
             home' = [home EXCEPT ![p] = Here], request'[r].step \notin {"owner?", "join", "owner", "backfill"}
      PROVE  Owned'
  <2>1. \A s \in Slots \ {r} : request'[s] = request[s] /\ (Crowning(s)' <=> Crowning(s)) BY <1>f DEF Apart, Crowning
  <2>2. \A s \in Slots \ {r} : request[s].step = "backfill" => request[s].who \in People \ {p}
    BY <1>f, <1>i DEF Shaped, OwnSteps
  <2>3. \A s \in Slots \ {r} : Choosing(s)' <=> Choosing(s) BY <1>f, <2>1, <2>2, <1>0 DEF Choosing
  <2>4. ~Choosing(r)' /\ ~Crowning(r)' BY <1>f DEF Choosing, Crowning
  <2>5. QED BY <1>f, <2>1, <2>3, <2>4 DEF Owned
<1>1. ASSUME NEW r \in Slots, NEW p \in People, RegisterTenant(r, p) PROVE Owned'
  <2>1. UNCHANGED <<home, member>> /\ (overlapped => overlapped') BY <1>1 DEF RegisterTenant, users, records, history
  <2>2. Apart(r) /\ request'[r] = [Idle EXCEPT !.kind = "register", !.step = "user", !.who = p] BY <1>1, <1>0, Became DEF RegisterTenant, Start, Apart
  <2>3. request'[r].step = "user" BY <2>2 DEF Idle
  <2>4. Owned' BY <2>1, <2>2, <2>3, <1>b
  <2>5. QED BY <1>1, <2>1, <2>2, <2>3, <2>4, <1>c, <1>d DEF RegisterTenant
<1>2. ASSUME NEW r \in Slots, RegisterUser(r) PROVE Owned'
  <2>1. CASE End(r) /\ UNCHANGED users BY <1>2, <2>1, <1>c DEF RegisterUser, users, records, history
  <2>2. CASE GoTo(r, "owner") /\ home[request[r].who] = None /\ home' = [home EXCEPT ![request[r].who] = Here]
    <3>1. Turns(r, "owner", request[r].role, request[r].left) BY <2>2, <1>0, Turned
    <3>2. Vacant /\ request[r].who \in People BY <1>2, <1>i DEF RegisterUser, At, Founded, Shaped
    <3>3. \A p \in People : member[p] # "owner" BY <3>2 DEF Vacant, None
    <3>4. \A s \in Slots \ {r} : ~Choosing(s)'
      <4>1. \A s \in Slots \ {r} : request[s].step = "backfill" => request[s].who \in People /\ home[request[s].who] # None
        BY <1>i DEF Shaped, OwnSteps
      <4>2. \A s \in Slots \ {r} : request[s].step = "backfill" => home'[request[s].who] # Here
        BY <4>1, <3>2, <2>2, <1>0 DEF Vacant
      <4>3. QED BY <3>1, <3>2, <4>2 DEF Choosing, Turns, Apart, Vacant
    <3>5. UNCHANGED member /\ request'[r].who = request[r].who BY <1>2, <3>1 DEF RegisterUser, records, Turns, Same
    <3>6. QED BY <3>2, <3>3, <3>4, <3>5 DEF Owned
  <2>3. QED BY <1>2, <2>1, <2>2, <1>c, <1>d DEF RegisterUser
<1>3. ASSUME NEW r \in Slots, RegisterOwner(r) PROVE Owned'
  <2>1. request[r].who \in People /\ Choosing(r) /\ Crowning(r) BY <1>3, <1>i DEF RegisterOwner, At, Shaped, Choosing, Crowning
  <2>2. Ends(r) BY <1>3, <1>0, Turned DEF RegisterOwner
  <2>3. Apart(r) /\ request'[r].step = "idle" BY <2>2 DEF Ends, Idle
  <2>4. Owned' BY <1>3, <2>1, <2>3, <1>e DEF RegisterOwner, users, history
  <2>5. QED BY <1>3, <2>1, <2>2, <2>3, <2>4, <1>c, <1>d DEF RegisterOwner
<1>4. ASSUME NEW r \in Slots, findActiveAccountMember(r) PROVE Owned'
  <2>1. UNCHANGED <<home, member>> /\ (overlapped => overlapped') BY <1>4 DEF findActiveAccountMember, users, records
  <2>2. CASE ~NeedsBackfill(request[r].who)
    <3>1. Turns(r, "checked", member[request[r].who], request[r].left) BY <1>4, <2>2, <1>0, Turned DEF findActiveAccountMember
    <3>2. QED BY <2>1, <3>1, <1>b DEF Turns
  <2>3. CASE NeedsBackfill(request[r].who)
    <3>1. Turns(r, "backfill", request[r].role, request[r].left) BY <1>4, <2>3, <1>0, Turned DEF findActiveAccountMember
    <3>2. overlapped' = (overlapped \/ \E s \in Slots \ {r} : Deciding(s)) BY <1>4, <2>3 DEF findActiveAccountMember
    <3>3. member[request[r].who] # "owner" BY <2>3 DEF NeedsBackfill, None
    <3>4. request'[r].who = request[r].who /\ ~Crowning(r)' BY <3>1 DEF Turns, Same, Crowning
    <3>5. \A s \in Slots \ {r} : (Choosing(s)' <=> Choosing(s)) /\ (Crowning(s)' <=> Crowning(s)) /\ request'[s] = request[s]
      BY <2>1, <3>1 DEF Turns, Apart, Choosing, Crowning
    <3>6. \A s \in Slots : Choosing(s) => Deciding(s) BY DEF Choosing, Deciding
    <3>7. QED BY <2>1, <3>2, <3>3, <3>4, <3>5, <3>6 DEF Owned
  <2>4. QED BY <1>4, <2>1, <2>2, <2>3, <1>c, <1>d DEF findActiveAccountMember
<1>5. ASSUME NEW r \in Slots, backfillLegacyMember(r) PROVE Owned'
  <2>1. UNCHANGED <<home, member>> /\ (overlapped => overlapped') BY <1>5 DEF backfillLegacyMember, users, records
  <2>2. CASE End(r) BY <2>1, <2>2, <1>c
  <2>3. CASE GoTo(r, "owner?") /\ home[request[r].who] = Here
    <3>1. Turns(r, "owner?", request[r].role, request[r].left) BY <2>3, <1>0, Turned
    <3>2. Choosing(r) /\ request'[r].who = request[r].who /\ ~Crowning(r)'
      BY <1>5, <2>3, <3>1 DEF backfillLegacyMember, Turns, Same, Choosing, Crowning
    <3>3. QED BY <2>1, <3>1, <3>2, <1>a DEF Turns
  <2>4. CASE Become(r, [request[r] EXCEPT !.step = "join", !.role = LegacyRole(userRole[request[r].who])]) /\ home[request[r].who] = Here
    <3>1. Turns(r, "join", LegacyRole(userRole[request[r].who]), request[r].left) BY <2>4, <1>0, Turned
    <3>2. LegacyRole(userRole[request[r].who]) # "owner" BY DEF LegacyRole
    <3>3. Choosing(r) /\ request'[r].who = request[r].who /\ ~Crowning(r)'
      BY <1>5, <2>4, <3>1, <3>2 DEF backfillLegacyMember, Turns, Same, Choosing, Crowning
    <3>4. QED BY <2>1, <3>1, <3>3, <1>a DEF Turns
  <2>5. QED BY <1>5, <2>1, <2>2, <2>3, <2>4, <1>c, <1>d DEF backfillLegacyMember
<1>6. ASSUME NEW r \in Slots, LookForOwner(r) PROVE Owned'
  <2>1. UNCHANGED <<home, member>> /\ (overlapped => overlapped') BY <1>6 DEF LookForOwner, users, records, history
  <2>2. Turns(r, "join", RoleOfAdmin, request[r].left) BY <1>6, <1>0, Turned DEF LookForOwner
  <2>3. RoleOfAdmin = "owner" => \A p \in People : member[p] # "owner" BY DEF RoleOfAdmin, HasOwner
  <2>4. Choosing(r) /\ request'[r].who = request[r].who BY <1>6, <2>2 DEF LookForOwner, Turns, Same, Choosing
  <2>5. Crowning(r)' => \A p \in People : member[p] # "owner" BY <2>2, <2>3 DEF Turns, Crowning
  <2>6. Owned' BY <2>1, <2>2, <2>4, <2>5, <1>a DEF Turns
  <2>7. QED BY <1>6, <2>1, <2>2, <2>3, <2>4, <2>5, <2>6, <1>c, <1>d DEF LookForOwner
<1>7. ASSUME NEW r \in Slots, Join(r) PROVE Owned'
  <2>1. request[r].who \in People /\ Choosing(r) /\ (request[r].role = "owner" => Crowning(r)) BY <1>7, <1>i DEF Join, Shaped, Choosing, Crowning
  <2>2. Apart(r) /\ request'[r].step \notin {"owner?", "join", "owner", "backfill"}
    <3>1. PICK step \in {"checked", "all"} : GoTo(r, step) BY <1>7 DEF Join
    <3>2. Turns(r, step, request[r].role, request[r].left) BY <3>1, <1>0, Turned
    <3>3. QED BY <3>2 DEF Turns
  <2>3. Owned' BY <1>7, <2>1, <2>2, <1>e DEF Join, users, history
  <2>4. QED BY <1>7, <2>1, <2>2, <2>3, <1>c, <1>d DEF Join
<1>8. ASSUME NEW r \in Slots, FindWorkspaces(r) PROVE Owned'
  <2>1. UNCHANGED <<home, member>> /\ (overlapped => overlapped') BY <1>8 DEF FindWorkspaces, users, records, history
  <2>2. Turns(r, "each", request[r].role, Workspaces) BY <1>8, <1>0, Turned DEF FindWorkspaces
  <2>3. Owned' BY <2>1, <2>2, <1>b DEF Turns
  <2>4. QED BY <1>8, <2>1, <2>2, <2>3, <1>c, <1>d DEF FindWorkspaces
<1>9. ASSUME NEW r \in Slots, BackfillAccess(r) PROVE Owned'
  <2>1. UNCHANGED <<home, member>> /\ (overlapped => overlapped') BY <1>9 DEF BackfillAccess, users, history
  <2>2. ASSUME NEW w \in Workspaces, Become(r, [request[r] EXCEPT !.left = @ \ {w}]) PROVE Owned'
    <3>1. Turns(r, request[r].step, request[r].role, request[r].left \ {w}) BY <2>2, <1>0, Turned
    <3>2. request[r].step = "each" BY <1>9 DEF BackfillAccess, At
    <3>3. QED BY <2>1, <3>1, <3>2, <1>b DEF Turns
  <2>3. request[r].left \subseteq Workspaces BY <1>0 DEF Requests
  <2>4. QED BY <1>9, <2>1, <2>2, <2>3, <1>c, <1>d DEF BackfillAccess
<1>10. ASSUME NEW r \in Slots, Checked(r) PROVE Owned'
  <2>1. UNCHANGED <<home, member>> /\ (overlapped => overlapped') BY <1>10 DEF Checked, users, records, history
  <2>2. End(r) BY <1>10 DEF Checked
  <2>3. Owned' BY <2>1, <2>2, <1>c
  <2>4. QED BY <1>10, <2>1, <2>2, <2>3, <1>c, <1>d DEF Checked
<1>11. ASSUME NEW r \in Slots, Forbidden(r) PROVE Owned'
  <2>1. UNCHANGED <<home, member>> /\ (overlapped => overlapped') BY <1>11 DEF Forbidden, users, records, history
  <2>2. End(r) BY <1>11 DEF Forbidden
  <2>3. Owned' BY <2>1, <2>2, <1>c
  <2>4. QED BY <1>11, <2>1, <2>2, <2>3, <1>c, <1>d DEF Forbidden
<1>12. ASSUME NEW r \in Slots, LookForInvitation(r) PROVE Owned'
  <2>1. UNCHANGED <<home, member>> /\ (overlapped => overlapped') BY <1>12 DEF LookForInvitation, users, records, history
  <2>2. QED BY <1>12, <2>1, <1>c, <1>d DEF LookForInvitation
<1>13. ASSUME NEW r \in Slots, NEW i \in Invites, SaveInvitation(r, i) PROVE Owned'
  <2>1. UNCHANGED <<home, member>> /\ (overlapped => overlapped') BY <1>13 DEF SaveInvitation, users, records, history
  <2>2. End(r) BY <1>13 DEF SaveInvitation
  <2>3. Owned' BY <2>1, <2>2, <1>c
  <2>4. QED BY <1>13, <2>1, <2>2, <2>3, <1>c, <1>d DEF SaveInvitation
<1>14. ASSUME NEW r \in Slots, CancelInvitation(r) PROVE Owned'
  <2>1. UNCHANGED <<home, member>> /\ (overlapped => overlapped') BY <1>14 DEF CancelInvitation, users, records, history
  <2>2. End(r) BY <1>14 DEF CancelInvitation
  <2>3. Owned' BY <2>1, <2>2, <1>c
  <2>4. QED BY <1>14, <2>1, <2>2, <2>3, <1>c, <1>d DEF CancelInvitation
<1>15. ASSUME NEW r \in Slots, GrantAccess(r) PROVE Owned'
  <2>1. UNCHANGED <<home, member>> /\ (overlapped => overlapped') BY <1>15 DEF GrantAccess, users, records, history
  <2>2. End(r) BY <1>15 DEF GrantAccess
  <2>3. Owned' BY <2>1, <2>2, <1>c
  <2>4. QED BY <1>15, <2>1, <2>2, <2>3, <1>c, <1>d DEF GrantAccess
<1>16. ASSUME NEW r \in Slots, RevokeAccess(r) PROVE Owned'
  <2>1. UNCHANGED <<home, member>> /\ (overlapped => overlapped') BY <1>16 DEF RevokeAccess, users, records, history
  <2>2. End(r) BY <1>16 DEF RevokeAccess
  <2>3. Owned' BY <2>1, <2>2, <1>c
  <2>4. QED BY <1>16, <2>1, <2>2, <2>3, <1>c, <1>d DEF RevokeAccess
<1>17. ASSUME NEW r \in Slots, changeRole(r) PROVE Owned'
  <2>1. UNCHANGED <<home, member>> /\ (overlapped => overlapped') BY <1>17 DEF changeRole, users, records, history
  <2>2. End(r) BY <1>17 DEF changeRole
  <2>3. Owned' BY <2>1, <2>2, <1>c
  <2>4. QED BY <1>17, <2>1, <2>2, <2>3, <1>c, <1>d DEF changeRole
<1>18. ASSUME NEW r \in Slots, FindUser(r) PROVE Owned'
  <2>1. UNCHANGED <<home, member>> /\ (overlapped => overlapped') BY <1>18 DEF FindUser, users, records, history
  <2>2. StepFor(request[r].who) \in {"create", "enter"} BY DEF StepFor
  <2>3. QED BY <1>18, <2>1, <2>2, <1>c, <1>d DEF FindUser
<1>19. ASSUME NEW r \in Slots, CreateUser(r) PROVE Owned'
  <2>1. CASE End(r) /\ UNCHANGED users BY <1>19, <2>1, <1>c DEF CreateUser, users, records, history
  <2>2. CASE GoTo(r, "enter") /\ home[request[r].who] = None /\ home' = [home EXCEPT ![request[r].who] = Here]
    <3>1. Turns(r, "enter", request[r].role, request[r].left) BY <2>2, <1>0, Turned
    <3>2. request[r].who \in People BY <1>19, <1>i DEF CreateUser, At, Shaped
    <3>3. QED BY <1>19, <2>2, <3>1, <3>2, <1>f DEF CreateUser, records, history, Turns
  <2>3. QED BY <1>19, <2>1, <2>2, <1>c, <1>d DEF CreateUser
<1>20. ASSUME NEW r \in Slots, Enter(r) PROVE Owned'
  <2>1. Turns(r, "grant", request[r].role, invite[request[r].inv].wks) BY <1>20, <1>0, Turned DEF Enter, AfterEntering
  <2>2. request[r].who \in People BY <1>20, <1>i DEF Enter, At, Shaped
  <2>3. toAccountRole(invite[request[r].inv].role) # "owner" BY DEF toAccountRole
  <2>4. \A p \in People : member'[p] = "owner" => member[p] = "owner" BY <1>20, <2>2, <2>3, <1>0 DEF Enter, ensureAccountMember
  <2>5. UNCHANGED <<home, overlapped>> BY <1>20 DEF Enter, users
  <2>6. \A s \in Slots : (Choosing(s)' => Choosing(s)) /\ (Crowning(s)' => Crowning(s)) /\ request'[s].who = request[s].who
    BY <2>1, <2>5 DEF Turns, Apart, Same, Choosing, Crowning
  <2>7. \A s \in Slots : Choosing(s) => request[s].who \in People BY <1>i DEF Choosing, Shaped
  <2>8. Owned' BY <2>4, <2>5, <2>6, <2>7 DEF Owned
  <2>9. QED BY <1>20, <2>1, <2>2, <2>3, <2>4, <2>5, <2>6, <2>7, <2>8, <1>c, <1>d DEF Enter
<1>21. ASSUME NEW r \in Slots, GrantChosen(r) PROVE Owned'
  <2>1. UNCHANGED <<home, member>> /\ (overlapped => overlapped') BY <1>21 DEF GrantChosen, users, history
  <2>2. ASSUME NEW w \in Workspaces, Become(r, [request[r] EXCEPT !.left = @ \ {w}]) PROVE Owned'
    <3>1. Turns(r, request[r].step, request[r].role, request[r].left \ {w}) BY <2>2, <1>0, Turned
    <3>2. request[r].step = "grant" BY <1>21 DEF GrantChosen, At
    <3>3. QED BY <2>1, <3>1, <3>2, <1>b DEF Turns
  <2>3. request[r].left \subseteq Workspaces BY <1>0 DEF Requests
  <2>4. QED BY <1>21, <2>1, <2>2, <2>3, <1>c, <1>d DEF GrantChosen
<1>22. ASSUME NEW r \in Slots, markAsAccepted(r) PROVE Owned'
  <2>1. UNCHANGED <<home, member>> /\ (overlapped => overlapped') BY <1>22 DEF markAsAccepted, users, records, history
  <2>2. End(r) BY <1>22 DEF markAsAccepted
  <2>3. Owned' BY <2>1, <2>2, <1>c
  <2>4. QED BY <1>22, <2>1, <2>2, <2>3, <1>c, <1>d DEF markAsAccepted
<1>23. ASSUME NEW r \in Slots, Fault(r) PROVE Owned'
  <2>1. UNCHANGED <<home, member>> /\ (overlapped => overlapped') BY <1>23 DEF Fault, users, records, history
  <2>2. End(r) BY <1>23 DEF Fault
  <2>3. Owned' BY <2>1, <2>2, <1>c
  <2>4. QED BY <1>23, <2>1, <2>2, <2>3, <1>c, <1>d DEF Fault
<1>24. ASSUME NEW r \in Slots, NEW i \in Invites, acceptInvite(r, i) PROVE Owned'
  <2>1. UNCHANGED <<home, member>> /\ (overlapped => overlapped') BY <1>24 DEF acceptInvite, users, records
  <2>2. Apart(r) /\ request'[r] = [Idle EXCEPT !.kind = "accept", !.step = "find", !.who = invite[i].to, !.inv = i] BY <1>24, <1>0, Became DEF acceptInvite, Start, Apart
  <2>3. request'[r].step = "find" BY <2>2 DEF Idle
  <2>4. Owned' BY <2>1, <2>2, <2>3, <1>b
  <2>5. QED BY <1>24, <2>1, <2>2, <2>3, <2>4, <1>c, <1>d DEF acceptInvite
<1>25. ASSUME NEW r \in Slots, NEW p \in People, assertUsable(r, p) PROVE Owned'
  <2>1. Apart(r) /\ request'[r] = Asked("use", p) BY <1>25, <1>0, Became DEF assertUsable, Start, Apart
  <2>2. request'[r].step = "member" BY <2>1 DEF Asked, Idle
  <2>3. UNCHANGED <<home, member>> /\ (overlapped => overlapped') BY <1>25 DEF assertUsable, users, records, history
  <2>4. Owned' BY <2>1, <2>2, <2>3, <1>b
  <2>5. QED BY <1>25, <2>1, <2>2, <2>3, <2>4, <1>c, <1>d DEF assertUsable
<1>26. ASSUME NEW r \in Slots, NEW p \in People, NEW o \in Offers, AskInvite(r, p, o) PROVE Owned'
  <2>1. Apart(r) /\ request'[r] = [Asked("invite", p) EXCEPT !.offer = o] BY <1>26, <1>0, Became DEF AskInvite, Manage, Start, Apart
  <2>2. request'[r].step = "member" BY <2>1 DEF Asked, Idle
  <2>3. UNCHANGED <<home, member>> /\ (overlapped => overlapped') BY <1>26 DEF AskInvite, Manage, users, records, history
  <2>4. Owned' BY <2>1, <2>2, <2>3, <1>b
  <2>5. QED BY <1>26, <2>1, <2>2, <2>3, <2>4, <1>c, <1>d DEF AskInvite, Manage
<1>27. ASSUME NEW r \in Slots, NEW p \in People, NEW i \in Invites, AskCancel(r, p, i) PROVE Owned'
  <2>1. Apart(r) /\ request'[r] = [Asked("cancel", p) EXCEPT !.inv = i] BY <1>27, <1>0, Became DEF AskCancel, Manage, Start, Apart
  <2>2. request'[r].step = "member" BY <2>1 DEF Asked, Idle
  <2>3. UNCHANGED <<home, member>> /\ (overlapped => overlapped') BY <1>27 DEF AskCancel, Manage, users, records, history
  <2>4. Owned' BY <2>1, <2>2, <2>3, <1>b
  <2>5. QED BY <1>27, <2>1, <2>2, <2>3, <2>4, <1>c, <1>d DEF AskCancel, Manage
<1>28. ASSUME NEW r \in Slots, NEW p \in People, NEW q \in People, NEW w \in Workspaces, AskGrant(r, p, q, w) PROVE Owned'
  <2>1. Apart(r) /\ request'[r] = [Asked("grant", p) EXCEPT !.inv = q, !.ws = w] BY <1>28, <1>0, Became DEF AskGrant, Manage, Start, Apart
  <2>2. request'[r].step = "member" BY <2>1 DEF Asked, Idle
  <2>3. UNCHANGED <<home, member>> /\ (overlapped => overlapped') BY <1>28 DEF AskGrant, Manage, users, records, history
  <2>4. Owned' BY <2>1, <2>2, <2>3, <1>b
  <2>5. QED BY <1>28, <2>1, <2>2, <2>3, <2>4, <1>c, <1>d DEF AskGrant, Manage
<1>29. ASSUME NEW r \in Slots, NEW p \in People, NEW q \in People, NEW w \in Workspaces, AskRevoke(r, p, q, w) PROVE Owned'
  <2>1. Apart(r) /\ request'[r] = [Asked("revoke", p) EXCEPT !.inv = q, !.ws = w] BY <1>29, <1>0, Became DEF AskRevoke, Manage, Start, Apart
  <2>2. request'[r].step = "member" BY <2>1 DEF Asked, Idle
  <2>3. UNCHANGED <<home, member>> /\ (overlapped => overlapped') BY <1>29 DEF AskRevoke, Manage, users, records, history
  <2>4. Owned' BY <2>1, <2>2, <2>3, <1>b
  <2>5. QED BY <1>29, <2>1, <2>2, <2>3, <2>4, <1>c, <1>d DEF AskRevoke, Manage
<1>30. ASSUME NEW r \in Slots, NEW p \in People, NEW q \in People, NEW role \in {"admin", "agent"}, AskRole(r, p, q, role) PROVE Owned'
  <2>1. Apart(r) /\ request'[r] = [Asked("role", p) EXCEPT !.inv = q, !.new = role] BY <1>30, <1>0, Became DEF AskRole, Manage, Start, Apart
  <2>2. request'[r].step = "member" BY <2>1 DEF Asked, Idle
  <2>3. UNCHANGED <<home, member>> /\ (overlapped => overlapped') BY <1>30 DEF AskRole, Manage, users, records, history
  <2>4. Owned' BY <2>1, <2>2, <2>3, <1>b
  <2>5. QED BY <1>30, <2>1, <2>2, <2>3, <2>4, <1>c, <1>d DEF AskRole, Manage
<1>31. ASSUME NEW i \in Invites, Expire(i) PROVE Owned'
  <2>1. Owned' BY <1>31 DEF Expire, users, records, history, Owned, Choosing, Crowning
  <2>2. QED BY <1>31, <2>1, <1>c, <1>d DEF Expire
<1>32. ASSUME NEW i \in Invites, CloseExpired(i) PROVE Owned'
  <2>1. Owned' BY <1>32 DEF CloseExpired, users, records, history, Owned, Choosing, Crowning
  <2>2. QED BY <1>32, <2>1, <1>c, <1>d DEF CloseExpired
<1>33. QED
  BY <1>1, <1>2, <1>3, <1>4, <1>5, <1>6, <1>7, <1>8, <1>9, <1>10, <1>11, <1>12, <1>13, <1>14, <1>15, <1>16, <1>17, <1>18, <1>19, <1>20, <1>21, <1>22, <1>23, <1>24, <1>25, <1>26, <1>27, <1>28, <1>29, <1>30, <1>31, <1>32
  DEF Next, Step, Ask

-----------------------------------------------------------------------------
(* Workspaces. *)

LEMMA GivenStays ==
    ASSUME WellFormed, Given, Next
    PROVE  Given'
<1>0. /\ request \in [Slots -> Requests] /\ Lasts /\ allowed \subseteq People \X Workspaces
      /\ access \in [People -> [Workspaces -> {None, "active", "suspended"}]]
      /\ invite \in [Invites -> Invitations]
  BY EverythingLasts DEF WellFormed, TypeOK, Invitations
<1>i. \A r \in Slots : Shaped(r) BY DEF WellFormed
<1>o. UNCHANGED access /\ allowed \subseteq allowed' => OnlyWhatWasGiven' BY DEF Given, OnlyWhatWasGiven
<1>a. ASSUME NEW r \in Slots, Apart(r), allowed \subseteq allowed', OnlyWhatWasGiven', Opens(r)', Serves(r)'
      PROVE  Given'
  <2>1. ASSUME NEW s \in Slots \ {r} PROVE Opens(s)' /\ Serves(s)'
    <3>1. request'[s] = request[s] BY <1>a DEF Apart
    <3>2. Opens(s)' BY <3>1, <1>a DEF Given, Opens, Opening
    <3>3. request[s].kind = "accept" => invite'[request[s].inv].wks = invite[request[s].inv].wks
      BY <1>0, <1>i DEF Shaped, Lasts
    <3>4. Serves(s)' BY <3>1, <3>3, <1>a DEF Given, Serves
    <3>5. QED BY <3>2, <3>4
  <2>2. QED BY <1>a, <2>1 DEF Given
<1>b. ASSUME NEW r \in Slots, NEW step, NEW role, NEW left, Turns(r, step, role, left), UNCHANGED access,
             allowed \subseteq allowed', step \notin {"join", "all", "each", "grant"}
      PROVE  Given'
  <2>1. Opens(r)' BY <1>b DEF Turns, Opens, Opening
  <2>2. request[r].kind = "accept" => invite'[request[r].inv].wks = invite[request[r].inv].wks
    BY <1>0, <1>i DEF Shaped, Lasts
  <2>3. Serves(r)' BY <1>b, <2>2 DEF Given, Serves, Turns, Same
  <2>4. QED BY <1>a, <1>b, <1>o, <2>1, <2>3 DEF Turns
<1>c. ASSUME NEW r \in Slots, End(r), OnlyWhatWasGiven', allowed \subseteq allowed'
      PROVE  Given'
  <2>1. Ends(r) BY <1>c, <1>0, Turned
  <2>2. Apart(r) /\ Opens(r)' /\ Serves(r)' BY <2>1 DEF Ends, Idle, Opens, Opening, Serves, None
  <2>3. QED BY <1>a, <1>c, <2>2
<1>d. ASSUME NEW r \in Slots, UNCHANGED access, allowed \subseteq allowed', NEW step, GoTo(r, step),
             step \notin {"join", "all", "each", "grant"}
      PROVE  Given'
  <2>1. Turns(r, step, request[r].role, request[r].left) BY <1>d, <1>0, Turned
  <2>2. QED BY <1>b, <1>d, <2>1
\* A request of one's own goes on with what it may open.
<1>e. ASSUME NEW r \in Slots, NEW step, NEW role, NEW left, Turns(r, step, role, left), OnlyWhatWasGiven',
             allowed \subseteq allowed', request[r].step \in OwnSteps, step \in OwnSteps,
             \A w \in Workspaces : <<request[r].who, w>> \in allowed'
      PROVE  Given'
  <2>1. request'[r].kind # "accept" /\ request'[r].who = request[r].who
    BY <1>e, <1>i DEF Turns, Same, Shaped, OwnSteps, AcceptSteps
  <2>2. QED BY <1>a, <1>e, <2>1 DEF Opens, Serves, Turns
\* An access that was given is opened.
<1>f. ASSUME NEW p \in People, NEW w \in Workspaces, setWorkspaceAccess(p, w), allowed \subseteq allowed',
             <<p, w>> \in allowed'
      PROVE  OnlyWhatWasGiven'
  <2>1. \A q \in People, v \in Workspaces : access'[q][v] = "active" => access[q][v] = "active" \/ (q = p /\ v = w)
    BY <1>f, <1>0 DEF setWorkspaceAccess
  <2>2. QED BY <2>1, <1>f DEF Given, OnlyWhatWasGiven
<1>1. ASSUME NEW r \in Slots, NEW p \in People, RegisterTenant(r, p) PROVE Given'
  <2>1. UNCHANGED access /\ (allowed \subseteq allowed') BY <1>1 DEF RegisterTenant, records, history
  <2>2. Apart(r) /\ request'[r] = [Idle EXCEPT !.kind = "register", !.step = "user", !.who = p] BY <1>1, <1>0, Became DEF RegisterTenant, Start, Apart
  <2>3. Opens(r)' /\ Serves(r)' BY <2>2 DEF Idle, Opens, Opening, Serves
  <2>4. Given' BY <2>1, <2>2, <2>3, <1>a, <1>o
  <2>5. QED BY <1>1, <2>1, <2>2, <2>3, <2>4, <1>c, <1>d, <1>o DEF RegisterTenant
<1>2. ASSUME NEW r \in Slots, RegisterUser(r) PROVE Given'
  <2>1. UNCHANGED access /\ (allowed \subseteq allowed') BY <1>2 DEF RegisterUser, records, history
  <2>2. QED BY <1>2, <2>1, <1>c, <1>d, <1>o DEF RegisterUser
<1>3. ASSUME NEW r \in Slots, RegisterOwner(r) PROVE Given'
  <2>1. UNCHANGED access /\ (allowed \subseteq allowed') BY <1>3 DEF RegisterOwner, records, history
  <2>2. End(r) BY <1>3 DEF RegisterOwner
  <2>3. Given' BY <2>1, <2>2, <1>c, <1>o
  <2>4. QED BY <1>3, <2>1, <2>2, <2>3, <1>c, <1>d, <1>o DEF RegisterOwner
<1>4. ASSUME NEW r \in Slots, findActiveAccountMember(r) PROVE Given'
  <2>1. UNCHANGED access /\ (allowed \subseteq allowed') BY <1>4 DEF findActiveAccountMember, records, history
  <2>2. CASE ~NeedsBackfill(request[r].who)
    <3>1. Turns(r, "checked", member[request[r].who], request[r].left) BY <1>4, <2>2, <1>0, Turned DEF findActiveAccountMember
    <3>2. QED BY <2>1, <3>1, <1>b
  <2>3. QED BY <1>4, <2>1, <2>2, <1>c, <1>d, <1>o DEF findActiveAccountMember
<1>5. ASSUME NEW r \in Slots, backfillLegacyMember(r) PROVE Given'
  <2>1. UNCHANGED access /\ (allowed \subseteq allowed') BY <1>5 DEF backfillLegacyMember, records, history
  <2>2. CASE End(r) BY <2>1, <2>2, <1>c, <1>o
  <2>3. CASE GoTo(r, "owner?") BY <2>1, <2>3, <1>d
  <2>4. CASE /\ Become(r, [request[r] EXCEPT !.step = "join", !.role = LegacyRole(userRole[request[r].who])])
           /\ home[request[r].who] = Here /\ userRole[request[r].who] # "admin"
    <3>1. Turns(r, "join", LegacyRole(userRole[request[r].who]), request[r].left) BY <2>4, <1>0, Turned
    <3>2. \A w \in Workspaces : <<request[r].who, w>> \in allowed' BY <1>5, <2>4 DEF backfillLegacyMember
    <3>3. request[r].step \in OwnSteps BY <1>5 DEF backfillLegacyMember, OwnSteps
    <3>4. OnlyWhatWasGiven' BY <2>1, <1>o
    <3>5. QED BY <2>1, <3>1, <3>2, <3>3, <3>4, <1>e DEF OwnSteps
  <2>5. QED BY <1>5, <2>1, <2>2, <2>3, <2>4, <1>c, <1>d, <1>o DEF backfillLegacyMember
<1>6. ASSUME NEW r \in Slots, LookForOwner(r) PROVE Given'
  <2>1. UNCHANGED access /\ (allowed \subseteq allowed') BY <1>6 DEF LookForOwner, records, history
  <2>2. Turns(r, "join", RoleOfAdmin, request[r].left) BY <1>6, <1>0, Turned DEF LookForOwner
  <2>3. RoleOfAdmin \in Managers BY DEF RoleOfAdmin, Managers
  <2>4. Opens(r)' BY <2>2, <2>3 DEF Turns, Opens, Opening
  <2>5. request'[r].kind # "accept" BY <1>6, <2>2, <1>i DEF LookForOwner, Turns, Same, Shaped, AcceptSteps
  <2>6. Given' BY <2>1, <2>2, <2>4, <2>5, <1>a, <1>o DEF Turns, Serves
  <2>7. QED BY <1>6, <2>1, <2>2, <2>3, <2>4, <2>5, <2>6, <1>c, <1>d, <1>o DEF LookForOwner
<1>7. ASSUME NEW r \in Slots, Join(r) PROVE Given'
  <2>1. UNCHANGED access /\ (allowed \subseteq allowed') BY <1>7 DEF Join, records, history
  <2>2. CASE request[r].role \in Managers BY <1>7, <2>1, <2>2, <1>d DEF Join
  <2>3. CASE request[r].role \notin Managers
    <3>1. Turns(r, "all", request[r].role, request[r].left) BY <1>7, <2>3, <1>0, Turned DEF Join
    <3>2. \A w \in Workspaces : <<request[r].who, w>> \in allowed' BY <1>7, <2>1, <2>3 DEF Join, Given, Opens, Opening
    <3>3. request[r].step \in OwnSteps BY <1>7 DEF Join, OwnSteps
    <3>4. OnlyWhatWasGiven' BY <2>1, <1>o
    <3>5. QED BY <2>1, <3>1, <3>2, <3>3, <3>4, <1>e DEF OwnSteps
  <2>4. QED BY <1>7, <2>1, <2>2, <2>3, <1>c, <1>d, <1>o DEF Join
<1>8. ASSUME NEW r \in Slots, FindWorkspaces(r) PROVE Given'
  <2>1. UNCHANGED access /\ (allowed \subseteq allowed') BY <1>8 DEF FindWorkspaces, records, history
  <2>2. Turns(r, "each", request[r].role, Workspaces) BY <1>8, <1>0, Turned DEF FindWorkspaces
  <2>3. \A w \in Workspaces : <<request[r].who, w>> \in allowed' BY <1>8, <2>1 DEF FindWorkspaces, Given, Opens, Opening
  <2>4. request[r].step \in OwnSteps BY <1>8 DEF FindWorkspaces, OwnSteps
  <2>5. OnlyWhatWasGiven' BY <2>1, <1>o
  <2>6. Given' BY <2>1, <2>2, <2>3, <2>4, <2>5, <1>e DEF OwnSteps
  <2>7. QED BY <1>8, <2>1, <2>2, <2>3, <2>4, <2>5, <2>6, <1>c, <1>d, <1>o DEF FindWorkspaces
<1>9. ASSUME NEW r \in Slots, BackfillAccess(r) PROVE Given'
  <2>1. UNCHANGED allowed BY <1>9 DEF BackfillAccess, history
  <2>2. request[r].step = "each" /\ request[r].who \in People /\ request[r].left \subseteq Workspaces BY <1>9, <1>0, <1>i DEF BackfillAccess, Shaped, Requests
  <2>3. \A w \in Workspaces : <<request[r].who, w>> \in allowed' BY <2>1, <2>2 DEF Given, Opens, Opening
  <2>4. ASSUME NEW w \in request[r].left, setWorkspaceAccess(request[r].who, w), Become(r, [request[r] EXCEPT !.left = @ \ {w}])
       PROVE  Given'
    <3>1. Turns(r, "each", request[r].role, request[r].left \ {w}) BY <2>2, <2>4, <1>0, Turned
    <3>2. w \in Workspaces BY <2>2
    <3>3. OnlyWhatWasGiven' BY <2>1, <2>2, <2>3, <2>4, <3>2, <1>f
    <3>4. QED BY <2>1, <2>2, <2>3, <3>1, <3>3, <1>e DEF OwnSteps
  <2>5. CASE GoTo(r, "checked") /\ UNCHANGED access BY <2>1, <2>5, <1>d
  <2>6. QED BY <1>9, <2>1, <2>2, <2>3, <2>4, <2>5, <1>c, <1>d, <1>o DEF BackfillAccess
<1>10. ASSUME NEW r \in Slots, Checked(r) PROVE Given'
  <2>1. UNCHANGED access /\ (allowed \subseteq allowed') BY <1>10 DEF Checked, records, history
  <2>2. End(r) BY <1>10 DEF Checked
  <2>3. Given' BY <2>1, <2>2, <1>c, <1>o
  <2>4. QED BY <1>10, <2>1, <2>2, <2>3, <1>c, <1>d, <1>o DEF Checked
<1>11. ASSUME NEW r \in Slots, Forbidden(r) PROVE Given'
  <2>1. UNCHANGED access /\ (allowed \subseteq allowed') BY <1>11 DEF Forbidden, records, history
  <2>2. End(r) BY <1>11 DEF Forbidden
  <2>3. Given' BY <2>1, <2>2, <1>c, <1>o
  <2>4. QED BY <1>11, <2>1, <2>2, <2>3, <1>c, <1>d, <1>o DEF Forbidden
<1>12. ASSUME NEW r \in Slots, LookForInvitation(r) PROVE Given'
  <2>1. UNCHANGED access /\ (allowed \subseteq allowed') BY <1>12 DEF LookForInvitation, records, history
  <2>2. QED BY <1>12, <2>1, <1>c, <1>d, <1>o DEF LookForInvitation
<1>13. ASSUME NEW r \in Slots, NEW i \in Invites, SaveInvitation(r, i) PROVE Given'
  <2>1. UNCHANGED access /\ (allowed \subseteq allowed') BY <1>13 DEF SaveInvitation, records, history
  <2>2. End(r) BY <1>13 DEF SaveInvitation
  <2>3. Given' BY <2>1, <2>2, <1>c, <1>o
  <2>4. QED BY <1>13, <2>1, <2>2, <2>3, <1>c, <1>d, <1>o DEF SaveInvitation
<1>14. ASSUME NEW r \in Slots, CancelInvitation(r) PROVE Given'
  <2>1. UNCHANGED access /\ (allowed \subseteq allowed') BY <1>14 DEF CancelInvitation, records, history
  <2>2. End(r) BY <1>14 DEF CancelInvitation
  <2>3. Given' BY <2>1, <2>2, <1>c, <1>o
  <2>4. QED BY <1>14, <2>1, <2>2, <2>3, <1>c, <1>d, <1>o DEF CancelInvitation
<1>15. ASSUME NEW r \in Slots, GrantAccess(r) PROVE Given'
  <2>1. request[r].inv \in People /\ request[r].ws \in Workspaces BY <1>15, <1>i DEF GrantAccess, assertCanManageAccount, At, Shaped
  <2>2. allowed \subseteq allowed' /\ <<request[r].inv, request[r].ws>> \in allowed' BY <1>15 DEF GrantAccess
  <2>3. OnlyWhatWasGiven' BY <1>15, <2>1, <2>2, <1>f DEF GrantAccess
  <2>4. Given' BY <1>15, <2>2, <2>3, <1>c DEF GrantAccess
  <2>5. QED BY <1>15, <2>1, <2>2, <2>3, <2>4, <1>c, <1>d, <1>o DEF GrantAccess
<1>16. ASSUME NEW r \in Slots, RevokeAccess(r) PROVE Given'
  <2>1. CASE UNCHANGED <<access, allowed>>
    <3>1. End(r) BY <1>16 DEF RevokeAccess
    <3>2. QED BY <2>1, <3>1, <1>c, <1>o
  <2>2. CASE /\ access[request[r].inv][request[r].ws] = "active"
           /\ access' = [access EXCEPT ![request[r].inv][request[r].ws] = "suspended"]
           /\ allowed' = IF request[r].ws \in Underway(request[r].inv) THEN allowed ELSE allowed \ {<<request[r].inv, request[r].ws>>}
    <3> DEFINE q == request[r].inv
               w == request[r].ws
    <3>1. q \in People /\ w \in Workspaces BY <1>16, <1>i DEF RevokeAccess, assertCanManageAccount, At, Shaped
    <3>2. \A p \in People, v \in Workspaces : access'[p][v] = "active" => access[p][v] = "active" /\ <<p, v>> # <<q, w>>
      BY <2>2, <3>1, <1>0
    <3>3. \A p \in People, v \in Workspaces : <<p, v>> # <<q, w>> /\ <<p, v>> \in allowed => <<p, v>> \in allowed' BY <2>2
    <3>4. OnlyWhatWasGiven' BY <3>2, <3>3 DEF Given, OnlyWhatWasGiven
    <3>5. Ends(r) BY <1>16, <1>0, Turned DEF RevokeAccess
    <3>6. ASSUME NEW s \in Slots PROVE Opens(s)' /\ Serves(s)'
      <4>1. CASE s = r BY <3>5, <4>1 DEF Ends, Idle, Opens, Opening, Serves, None
      <4>2. CASE s # r
        <5>1. request'[s] = request[s] /\ UNCHANGED invite BY <1>16, <3>5, <4>2 DEF Ends, Apart, RevokeAccess
        <5>2. ASSUME NEW v \in Workspaces, request[s].step # "idle", <<request[s].who, v>> \in allowed,
                     \/ request[s].kind = "accept" /\ v \in invite[request[s].inv].wks
                     \/ request[s].step \in {"join", "all", "each"}
              PROVE  <<request[s].who, v>> \in allowed'
          <6>1. v \in Underway(request[s].who) BY <5>2 DEF Underway
          <6>2. QED BY <2>2, <5>2, <6>1
        <5>3. Opens(s)' BY <5>1, <5>2 DEF Given, Opens, Opening
        <5>4. request[s].kind = "accept" => request[s].step # "idle" /\ invite[request[s].inv].wks \subseteq Workspaces
          BY <1>0, <1>i DEF Shaped, AcceptSteps, Invitations
        <5>5. Serves(s)' BY <5>1, <5>2, <5>4 DEF Given, Serves
        <5>6. QED BY <5>3, <5>5
      <4>3. QED BY <4>1, <4>2
    <3>7. QED BY <3>4, <3>6 DEF Given
  <2>3. QED BY <1>16, <2>1, <2>2, <1>c, <1>d, <1>o DEF RevokeAccess
<1>17. ASSUME NEW r \in Slots, changeRole(r) PROVE Given'
  <2>1. UNCHANGED access /\ (allowed \subseteq allowed') BY <1>17 DEF changeRole, records, history
  <2>2. End(r) BY <1>17 DEF changeRole
  <2>3. Given' BY <2>1, <2>2, <1>c, <1>o
  <2>4. QED BY <1>17, <2>1, <2>2, <2>3, <1>c, <1>d, <1>o DEF changeRole
<1>18. ASSUME NEW r \in Slots, FindUser(r) PROVE Given'
  <2>1. UNCHANGED access /\ (allowed \subseteq allowed') BY <1>18 DEF FindUser, records, history
  <2>2. StepFor(request[r].who) \in {"create", "enter"} BY DEF StepFor
  <2>3. QED BY <1>18, <2>1, <2>2, <1>c, <1>d, <1>o DEF FindUser
<1>19. ASSUME NEW r \in Slots, CreateUser(r) PROVE Given'
  <2>1. UNCHANGED access /\ (allowed \subseteq allowed') BY <1>19 DEF CreateUser, records, history
  <2>2. QED BY <1>19, <2>1, <1>c, <1>d, <1>o DEF CreateUser
<1>20. ASSUME NEW r \in Slots, Enter(r) PROVE Given'
  <2>1. UNCHANGED access /\ (allowed \subseteq allowed') BY <1>20 DEF Enter, history
  <2>2. Turns(r, "grant", request[r].role, invite[request[r].inv].wks) BY <1>20, <1>0, Turned DEF Enter, AfterEntering
  <2>3. UNCHANGED invite BY <1>20 DEF Enter
  <2>4. Opens(r)' BY <2>2 DEF Turns, Opens, Opening
  <2>5. Serves(r)' BY <2>1, <2>2, <2>3 DEF Given, Serves, Turns, Same
  <2>6. Given' BY <2>1, <2>2, <2>4, <2>5, <1>a, <1>o DEF Turns
  <2>7. QED BY <1>20, <2>1, <2>2, <2>3, <2>4, <2>5, <2>6, <1>c, <1>d, <1>o DEF Enter
<1>21. ASSUME NEW r \in Slots, GrantChosen(r) PROVE Given'
  <2>1. UNCHANGED <<allowed, invite>> BY <1>21 DEF GrantChosen, history
  <2>2. request[r].step = "grant" /\ request[r].kind = "accept" /\ request[r].who \in People /\ request[r].left \subseteq Workspaces
    BY <1>21, <1>0, <1>i DEF GrantChosen, At, Shaped, Requests
  <2>3. ASSUME NEW w \in request[r].left, setWorkspaceAccess(request[r].who, w), Become(r, [request[r] EXCEPT !.left = @ \ {w}])
       PROVE  Given'
    <3>1. Turns(r, "grant", request[r].role, request[r].left \ {w}) BY <2>2, <2>3, <1>0, Turned
    <3>2. w \in Workspaces /\ <<request[r].who, w>> \in allowed BY <2>2, <2>3 DEF Given, Serves
    <3>3. OnlyWhatWasGiven' BY <2>1, <2>2, <2>3, <3>2, <1>f
    <3>4. Opens(r)' BY <3>1 DEF Turns, Opens, Opening
    <3>5. Serves(r)' BY <2>1, <2>2, <3>1 DEF Given, Serves, Turns, Same
    <3>6. QED BY <2>1, <3>1, <3>3, <3>4, <3>5, <1>a DEF Turns
  <2>4. CASE GoTo(r, "mark") /\ UNCHANGED access BY <2>1, <2>4, <1>d
  <2>5. QED BY <1>21, <2>1, <2>2, <2>3, <2>4, <1>c, <1>d, <1>o DEF GrantChosen
<1>22. ASSUME NEW r \in Slots, markAsAccepted(r) PROVE Given'
  <2>1. UNCHANGED access /\ (allowed \subseteq allowed') BY <1>22 DEF markAsAccepted, records, history
  <2>2. End(r) BY <1>22 DEF markAsAccepted
  <2>3. Given' BY <2>1, <2>2, <1>c, <1>o
  <2>4. QED BY <1>22, <2>1, <2>2, <2>3, <1>c, <1>d, <1>o DEF markAsAccepted
<1>23. ASSUME NEW r \in Slots, Fault(r) PROVE Given'
  <2>1. UNCHANGED access /\ (allowed \subseteq allowed') BY <1>23 DEF Fault, records, history
  <2>2. End(r) BY <1>23 DEF Fault
  <2>3. Given' BY <2>1, <2>2, <1>c, <1>o
  <2>4. QED BY <1>23, <2>1, <2>2, <2>3, <1>c, <1>d, <1>o DEF Fault
<1>24. ASSUME NEW r \in Slots, NEW i \in Invites, acceptInvite(r, i) PROVE Given'
  <2>1. UNCHANGED <<access, invite>> BY <1>24 DEF acceptInvite, records
  <2>2. Apart(r) /\ request'[r] = [Idle EXCEPT !.kind = "accept", !.step = "find", !.who = invite[i].to, !.inv = i] BY <1>24, <1>0, Became DEF acceptInvite, Start, Apart
  <2>3. allowed' = allowed \cup ({invite[i].to} \X invite[i].wks) BY <1>24 DEF acceptInvite, Open
  <2>4. Opens(r)' /\ Serves(r)' BY <2>1, <2>2, <2>3 DEF Idle, Opens, Opening, Serves
  <2>5. Given' BY <2>1, <2>2, <2>3, <2>4, <1>a, <1>o
  <2>6. QED BY <1>24, <2>1, <2>2, <2>3, <2>4, <2>5, <1>c, <1>d, <1>o DEF acceptInvite
<1>25. ASSUME NEW r \in Slots, NEW p \in People, assertUsable(r, p) PROVE Given'
  <2>1. Apart(r) /\ request'[r] = Asked("use", p) BY <1>25, <1>0, Became DEF assertUsable, Start, Apart
  <2>2. Opens(r)' /\ Serves(r)' BY <2>1 DEF Asked, Idle, Opens, Opening, Serves
  <2>3. UNCHANGED access /\ (allowed \subseteq allowed') BY <1>25 DEF assertUsable, records, history
  <2>4. Given' BY <2>1, <2>2, <2>3, <1>a, <1>o
  <2>5. QED BY <1>25, <2>1, <2>2, <2>3, <2>4, <1>c, <1>d, <1>o DEF assertUsable
<1>26. ASSUME NEW r \in Slots, NEW p \in People, NEW o \in Offers, AskInvite(r, p, o) PROVE Given'
  <2>1. Apart(r) /\ request'[r] = [Asked("invite", p) EXCEPT !.offer = o] BY <1>26, <1>0, Became DEF AskInvite, Manage, Start, Apart
  <2>2. Opens(r)' /\ Serves(r)' BY <2>1 DEF Asked, Idle, Opens, Opening, Serves
  <2>3. UNCHANGED access /\ (allowed \subseteq allowed') BY <1>26 DEF AskInvite, Manage, records, history
  <2>4. Given' BY <2>1, <2>2, <2>3, <1>a, <1>o
  <2>5. QED BY <1>26, <2>1, <2>2, <2>3, <2>4, <1>c, <1>d, <1>o DEF AskInvite, Manage
<1>27. ASSUME NEW r \in Slots, NEW p \in People, NEW i \in Invites, AskCancel(r, p, i) PROVE Given'
  <2>1. Apart(r) /\ request'[r] = [Asked("cancel", p) EXCEPT !.inv = i] BY <1>27, <1>0, Became DEF AskCancel, Manage, Start, Apart
  <2>2. Opens(r)' /\ Serves(r)' BY <2>1 DEF Asked, Idle, Opens, Opening, Serves
  <2>3. UNCHANGED access /\ (allowed \subseteq allowed') BY <1>27 DEF AskCancel, Manage, records, history
  <2>4. Given' BY <2>1, <2>2, <2>3, <1>a, <1>o
  <2>5. QED BY <1>27, <2>1, <2>2, <2>3, <2>4, <1>c, <1>d, <1>o DEF AskCancel, Manage
<1>28. ASSUME NEW r \in Slots, NEW p \in People, NEW q \in People, NEW w \in Workspaces, AskGrant(r, p, q, w) PROVE Given'
  <2>1. Apart(r) /\ request'[r] = [Asked("grant", p) EXCEPT !.inv = q, !.ws = w] BY <1>28, <1>0, Became DEF AskGrant, Manage, Start, Apart
  <2>2. Opens(r)' /\ Serves(r)' BY <2>1 DEF Asked, Idle, Opens, Opening, Serves
  <2>3. UNCHANGED access /\ (allowed \subseteq allowed') BY <1>28 DEF AskGrant, Manage, records, history
  <2>4. Given' BY <2>1, <2>2, <2>3, <1>a, <1>o
  <2>5. QED BY <1>28, <2>1, <2>2, <2>3, <2>4, <1>c, <1>d, <1>o DEF AskGrant, Manage
<1>29. ASSUME NEW r \in Slots, NEW p \in People, NEW q \in People, NEW w \in Workspaces, AskRevoke(r, p, q, w) PROVE Given'
  <2>1. Apart(r) /\ request'[r] = [Asked("revoke", p) EXCEPT !.inv = q, !.ws = w] BY <1>29, <1>0, Became DEF AskRevoke, Manage, Start, Apart
  <2>2. Opens(r)' /\ Serves(r)' BY <2>1 DEF Asked, Idle, Opens, Opening, Serves
  <2>3. UNCHANGED access /\ (allowed \subseteq allowed') BY <1>29 DEF AskRevoke, Manage, records, history
  <2>4. Given' BY <2>1, <2>2, <2>3, <1>a, <1>o
  <2>5. QED BY <1>29, <2>1, <2>2, <2>3, <2>4, <1>c, <1>d, <1>o DEF AskRevoke, Manage
<1>30. ASSUME NEW r \in Slots, NEW p \in People, NEW q \in People, NEW role \in {"admin", "agent"}, AskRole(r, p, q, role) PROVE Given'
  <2>1. Apart(r) /\ request'[r] = [Asked("role", p) EXCEPT !.inv = q, !.new = role] BY <1>30, <1>0, Became DEF AskRole, Manage, Start, Apart
  <2>2. Opens(r)' /\ Serves(r)' BY <2>1 DEF Asked, Idle, Opens, Opening, Serves
  <2>3. UNCHANGED access /\ (allowed \subseteq allowed') BY <1>30 DEF AskRole, Manage, records, history
  <2>4. Given' BY <2>1, <2>2, <2>3, <1>a, <1>o
  <2>5. QED BY <1>30, <2>1, <2>2, <2>3, <2>4, <1>c, <1>d, <1>o DEF AskRole, Manage
<1>31. ASSUME NEW i \in Invites, Expire(i) PROVE Given'
  <2>1. UNCHANGED <<access, allowed, request>> BY <1>31 DEF Expire, records, history
  <2>2. ASSUME NEW s \in Slots PROVE Opens(s)' /\ Serves(s)'
    <3>1. request[s].kind = "accept" => invite'[request[s].inv].wks = invite[request[s].inv].wks BY <1>0, <1>i DEF Shaped, Lasts
    <3>2. QED BY <2>1, <3>1 DEF Given, Opens, Opening, Serves
  <2>3. Given' BY <2>1, <2>2, <1>o DEF Given
  <2>4. QED BY <1>31, <2>1, <2>2, <2>3, <1>c, <1>d, <1>o DEF Expire
<1>32. ASSUME NEW i \in Invites, CloseExpired(i) PROVE Given'
  <2>1. UNCHANGED <<access, allowed, request>> BY <1>32 DEF CloseExpired, records, history
  <2>2. ASSUME NEW s \in Slots PROVE Opens(s)' /\ Serves(s)'
    <3>1. request[s].kind = "accept" => invite'[request[s].inv].wks = invite[request[s].inv].wks BY <1>0, <1>i DEF Shaped, Lasts
    <3>2. QED BY <2>1, <3>1 DEF Given, Opens, Opening, Serves
  <2>3. Given' BY <2>1, <2>2, <1>o DEF Given
  <2>4. QED BY <1>32, <2>1, <2>2, <2>3, <1>c, <1>d, <1>o DEF CloseExpired
<1>33. QED
  BY <1>1, <1>2, <1>3, <1>4, <1>5, <1>6, <1>7, <1>8, <1>9, <1>10, <1>11, <1>12, <1>13, <1>14, <1>15, <1>16, <1>17, <1>18, <1>19, <1>20, <1>21, <1>22, <1>23, <1>24, <1>25, <1>26, <1>27, <1>28, <1>29, <1>30, <1>31, <1>32
  DEF Next, Step, Ask

-----------------------------------------------------------------------------
(* Invitations. *)

LEMMA AloneStays ==
    ASSUME WellFormed, Alone, Next
    PROVE  Alone'
<1>0. /\ request \in [Slots -> Requests] /\ invite \in [Invites -> Invitations] /\ Lasts
      /\ crowded \in BOOLEAN
  BY EverythingLasts DEF WellFormed, TypeOK, Invitations
<1>i. \A r \in Slots : Shaped(r) BY DEF WellFormed
<1> DEFINE Fewer == \A i \in Invites : invite'[i].status = "pending" =>
                        invite[i].status = "pending" /\ invite'[i].to = invite[i].to
\* A step that makes no invitation pending, and leaves nobody about to save one.
<1>a. ASSUME NEW r \in Slots, Apart(r), Fewer, crowded' = crowded, ~Saving(r)'
      PROVE  Alone'
  <2>1. \A s \in Slots \ {r} : (Saving(s)' <=> Saving(s)) /\ request'[s] = request[s] BY <1>a DEF Apart, Saving, At
  <2>2. QED BY <1>a, <2>1 DEF Alone, Pending
<1>b. ASSUME NEW r \in Slots, NEW step, NEW role, NEW left, Turns(r, step, role, left), step # "save",
             UNCHANGED <<invite, crowded>>
      PROVE  Alone'
  BY <1>a, <1>b DEF Turns, Saving, At
<1>c. ASSUME NEW r \in Slots, End(r), Fewer, crowded' = crowded
      PROVE  Alone'
  <2>1. Ends(r) BY <1>c, <1>0, Turned
  <2>2. QED BY <1>a, <1>c, <2>1 DEF Ends, Idle, Saving, At, None
<1>d. ASSUME NEW r \in Slots, UNCHANGED <<invite, crowded>>, NEW step, GoTo(r, step), step # "save"
      PROVE  Alone'
  <2>1. Turns(r, step, request[r].role, request[r].left) BY <1>d, <1>0, Turned
  <2>2. QED BY <1>b, <1>d, <2>1
<1>e. ASSUME NEW r \in Slots, UNCHANGED <<invite, crowded>>, Apart(r), request'[r].step # "save"
      PROVE  Alone'
  BY <1>a, <1>e DEF Saving, At
\* The status of one is written.
<1>f. ASSUME NEW i \in Invites, NEW x, x # "pending", invite' = [invite EXCEPT ![i].status = x]
      PROVE  Fewer
  BY <1>0, <1>f DEF Invitations
<1>1. ASSUME NEW r \in Slots, NEW p \in People, RegisterTenant(r, p) PROVE Alone'
  <2>1. UNCHANGED <<invite, crowded>> BY <1>1 DEF RegisterTenant, history
  <2>2. Apart(r) /\ request'[r] = [Idle EXCEPT !.kind = "register", !.step = "user", !.who = p] BY <1>1, <1>0, Became DEF RegisterTenant, Start, Apart
  <2>3. request'[r].step # "save" BY <2>2 DEF Idle
  <2>4. Alone' BY <2>1, <2>2, <2>3, <1>e
  <2>5. QED BY <1>1, <2>1, <2>2, <2>3, <2>4, <1>c, <1>d DEF RegisterTenant
<1>2. ASSUME NEW r \in Slots, RegisterUser(r) PROVE Alone'
  <2>1. UNCHANGED <<invite, crowded>> BY <1>2 DEF RegisterUser, history
  <2>2. End(r) \/ GoTo(r, "owner") BY <1>2 DEF RegisterUser
  <2>3. Alone' BY <2>1, <2>2, <1>c, <1>d
  <2>4. QED BY <1>2, <2>1, <2>2, <2>3, <1>c, <1>d DEF RegisterUser
<1>3. ASSUME NEW r \in Slots, RegisterOwner(r) PROVE Alone'
  <2>1. UNCHANGED <<invite, crowded>> BY <1>3 DEF RegisterOwner, history
  <2>2. End(r) BY <1>3 DEF RegisterOwner
  <2>3. Alone' BY <2>1, <2>2, <1>c
  <2>4. QED BY <1>3, <2>1, <2>2, <2>3, <1>c, <1>d DEF RegisterOwner
<1>4. ASSUME NEW r \in Slots, findActiveAccountMember(r) PROVE Alone'
  <2>1. UNCHANGED <<invite, crowded>> BY <1>4 DEF findActiveAccountMember, history
  <2>2. CASE GoTo(r, "backfill") BY <2>1, <2>2, <1>d
  <2>3. CASE ~NeedsBackfill(request[r].who)
    <3>1. Turns(r, "checked", member[request[r].who], request[r].left) BY <1>4, <2>3, <1>0, Turned DEF findActiveAccountMember
    <3>2. QED BY <2>1, <3>1, <1>b
  <2>4. QED BY <1>4, <2>1, <2>2, <2>3, <1>c, <1>d DEF findActiveAccountMember
<1>5. ASSUME NEW r \in Slots, backfillLegacyMember(r) PROVE Alone'
  <2>1. UNCHANGED <<invite, crowded>> BY <1>5 DEF backfillLegacyMember, history
  <2>2. CASE End(r) BY <2>1, <2>2, <1>c
  <2>3. CASE GoTo(r, "owner?") BY <2>1, <2>3, <1>d
  <2>4. CASE Become(r, [request[r] EXCEPT !.step = "join", !.role = LegacyRole(userRole[request[r].who])])
    <3>1. Turns(r, "join", LegacyRole(userRole[request[r].who]), request[r].left) BY <2>4, <1>0, Turned
    <3>2. QED BY <2>1, <3>1, <1>b
  <2>5. QED BY <1>5, <2>1, <2>2, <2>3, <2>4, <1>c, <1>d DEF backfillLegacyMember
<1>6. ASSUME NEW r \in Slots, LookForOwner(r) PROVE Alone'
  <2>1. UNCHANGED <<invite, crowded>> BY <1>6 DEF LookForOwner, history
  <2>2. Turns(r, "join", RoleOfAdmin, request[r].left) BY <1>6, <1>0, Turned DEF LookForOwner
  <2>3. Alone' BY <2>1, <2>2, <1>b
  <2>4. QED BY <1>6, <2>1, <2>2, <2>3, <1>c, <1>d DEF LookForOwner
<1>7. ASSUME NEW r \in Slots, Join(r) PROVE Alone'
  <2>1. UNCHANGED <<invite, crowded>> BY <1>7 DEF Join, history
  <2>2. QED BY <1>7, <2>1, <1>c, <1>d DEF Join
<1>8. ASSUME NEW r \in Slots, FindWorkspaces(r) PROVE Alone'
  <2>1. UNCHANGED <<invite, crowded>> BY <1>8 DEF FindWorkspaces, history
  <2>2. Turns(r, "each", request[r].role, Workspaces) BY <1>8, <1>0, Turned DEF FindWorkspaces
  <2>3. Alone' BY <2>1, <2>2, <1>b
  <2>4. QED BY <1>8, <2>1, <2>2, <2>3, <1>c, <1>d DEF FindWorkspaces
<1>9. ASSUME NEW r \in Slots, BackfillAccess(r) PROVE Alone'
  <2>1. UNCHANGED <<invite, crowded>> BY <1>9 DEF BackfillAccess, history
  <2>2. request[r].step = "each" BY <1>9 DEF BackfillAccess, At
  <2>3. ASSUME NEW w \in request[r].left, Become(r, [request[r] EXCEPT !.left = @ \ {w}]) PROVE Alone'
    <3>1. Turns(r, "each", request[r].role, request[r].left \ {w}) BY <2>2, <2>3, <1>0, Turned
    <3>2. QED BY <2>1, <3>1, <1>b
  <2>4. CASE GoTo(r, "checked") BY <2>1, <2>4, <1>d
  <2>5. QED BY <1>9, <2>1, <2>2, <2>3, <2>4, <1>c, <1>d DEF BackfillAccess
<1>10. ASSUME NEW r \in Slots, Checked(r) PROVE Alone'
  <2>1. UNCHANGED <<invite, crowded>> BY <1>10 DEF Checked, history
  <2>2. End(r) BY <1>10 DEF Checked
  <2>3. Alone' BY <2>1, <2>2, <1>c
  <2>4. QED BY <1>10, <2>1, <2>2, <2>3, <1>c, <1>d DEF Checked
<1>11. ASSUME NEW r \in Slots, Forbidden(r) PROVE Alone'
  <2>1. UNCHANGED <<invite, crowded>> BY <1>11 DEF Forbidden, history
  <2>2. End(r) BY <1>11 DEF Forbidden
  <2>3. Alone' BY <2>1, <2>2, <1>c
  <2>4. QED BY <1>11, <2>1, <2>2, <2>3, <1>c, <1>d DEF Forbidden
<1>12. ASSUME NEW r \in Slots, LookForInvitation(r) PROVE Alone'
  <2>1. UNCHANGED invite /\ Fewer BY <1>12 DEF LookForInvitation
  <2>2. CASE crowded' # crowded BY <1>12, <1>0, <2>2 DEF LookForInvitation, Alone
  <2>3. CASE crowded' = crowded /\ End(r) BY <2>1, <2>3, <1>c
  <2>4. CASE crowded' = crowded /\ ~Pending(request[r].offer.to) /\ GoTo(r, "save")
    <3>1. Turns(r, "save", request[r].role, request[r].left) BY <2>4, <1>0, Turned
    <3> SUFFICES ASSUME ~crowded PROVE Alone' BY <2>4 DEF Alone
    <3>2. \A s \in Slots \ {r} : ~(Saving(s) /\ request[s].offer.to = request[r].offer.to)
      BY <1>12, <1>0, <2>4 DEF LookForInvitation, Saving
    <3>3. \A s \in Slots \ {r} : (Saving(s)' <=> Saving(s)) /\ request'[s] = request[s] BY <3>1 DEF Turns, Apart, Saving, At
    <3>4. request'[r].offer = request[r].offer BY <3>1 DEF Turns, Same
    <3>5. \A s \in Slots : Saving(s)' => ~Pending(request[s].offer.to)' BY <2>1, <2>4, <3>3, <3>4 DEF Alone, Pending
    <3>6. \A s, t \in Slots : Saving(s)' /\ Saving(t)' /\ request'[s].offer.to = request'[t].offer.to => s = t
      BY <3>2, <3>3, <3>4 DEF Alone
    <3>7. QED BY <2>1, <3>5, <3>6 DEF Alone, Pending
  <2>5. crowded' = crowded \/ crowded' # crowded OBVIOUS
  <2>6. QED BY <1>12, <2>1, <2>2, <2>3, <2>4, <2>5, <1>c, <1>d DEF LookForInvitation
<1>13. ASSUME NEW r \in Slots, NEW i \in Invites, SaveInvitation(r, i) PROVE Alone'
  <2>1. Saving(r) /\ crowded' = crowded /\ UNCHANGED history BY <1>13 DEF SaveInvitation, Saving, history
  <2>2. Ends(r) BY <1>13, <1>0, Turned DEF SaveInvitation
  <2>3. ~Saving(r)' /\ (\A s \in Slots \ {r} : (Saving(s)' <=> Saving(s)) /\ request'[s] = request[s])
    BY <2>2 DEF Ends, Apart, Idle, Saving, At, None
  <2>4. SUFFICES ASSUME ~crowded PROVE Alone' BY <2>1 DEF Alone
  <2>5. invite'[i].to = request[r].offer.to /\ (\A j \in Invites \ {i} : invite'[j] = invite[j]) BY <1>13, <1>0 DEF SaveInvitation
  <2>6. \A j \in Invites \ {i} : invite[j].status = "pending" => invite[j].to # request[r].offer.to
    BY <2>1, <2>4 DEF Alone, Pending
  <2>7. \A j, k \in Invites : invite'[j].status = "pending" /\ invite'[k].status = "pending" /\ invite'[j].to = invite'[k].to => j = k
    BY <2>4, <2>5, <2>6 DEF Alone
  <2>8. \A s \in Slots \ {r} : Saving(s) => request[s].offer.to # request[r].offer.to BY <2>1, <2>4 DEF Alone
  <2>9. \A s \in Slots : Saving(s)' => ~Pending(request[s].offer.to)' BY <2>3, <2>4, <2>5, <2>8 DEF Alone, Pending
  <2>10. Alone' BY <2>3, <2>4, <2>7, <2>9 DEF Alone
  <2>11. QED BY <1>13, <2>1, <2>2, <2>3, <2>4, <2>5, <2>6, <2>7, <2>8, <2>9, <2>10, <1>c, <1>d DEF SaveInvitation
<1>14. ASSUME NEW r \in Slots, CancelInvitation(r) PROVE Alone'
  <2>1. request[r].inv \in Invites BY <1>14, <1>i DEF CancelInvitation, assertCanManageAccount, At, Shaped
  <2>2. Fewer BY <1>14, <2>1, <1>f DEF CancelInvitation
  <2>3. End(r) /\ crowded' = crowded BY <1>14 DEF CancelInvitation, history
  <2>4. Alone' BY <2>2, <2>3, <1>c
  <2>5. QED BY <1>14, <2>1, <2>2, <2>3, <2>4, <1>c, <1>d DEF CancelInvitation
<1>15. ASSUME NEW r \in Slots, GrantAccess(r) PROVE Alone'
  <2>1. UNCHANGED <<invite, crowded>> BY <1>15 DEF GrantAccess, history
  <2>2. End(r) BY <1>15 DEF GrantAccess
  <2>3. Alone' BY <2>1, <2>2, <1>c
  <2>4. QED BY <1>15, <2>1, <2>2, <2>3, <1>c, <1>d DEF GrantAccess
<1>16. ASSUME NEW r \in Slots, RevokeAccess(r) PROVE Alone'
  <2>1. UNCHANGED <<invite, crowded>> BY <1>16 DEF RevokeAccess, history
  <2>2. End(r) BY <1>16 DEF RevokeAccess
  <2>3. Alone' BY <2>1, <2>2, <1>c
  <2>4. QED BY <1>16, <2>1, <2>2, <2>3, <1>c, <1>d DEF RevokeAccess
<1>17. ASSUME NEW r \in Slots, changeRole(r) PROVE Alone'
  <2>1. UNCHANGED <<invite, crowded>> BY <1>17 DEF changeRole, history
  <2>2. End(r) BY <1>17 DEF changeRole
  <2>3. Alone' BY <2>1, <2>2, <1>c
  <2>4. QED BY <1>17, <2>1, <2>2, <2>3, <1>c, <1>d DEF changeRole
<1>18. ASSUME NEW r \in Slots, FindUser(r) PROVE Alone'
  <2>1. UNCHANGED <<invite, crowded>> BY <1>18 DEF FindUser, history
  <2>2. StepFor(request[r].who) # "save" BY DEF StepFor
  <2>3. QED BY <1>18, <2>1, <2>2, <1>c, <1>d DEF FindUser
<1>19. ASSUME NEW r \in Slots, CreateUser(r) PROVE Alone'
  <2>1. UNCHANGED <<invite, crowded>> BY <1>19 DEF CreateUser, history
  <2>2. End(r) \/ GoTo(r, "enter") BY <1>19 DEF CreateUser
  <2>3. Alone' BY <2>1, <2>2, <1>c, <1>d
  <2>4. QED BY <1>19, <2>1, <2>2, <2>3, <1>c, <1>d DEF CreateUser
<1>20. ASSUME NEW r \in Slots, Enter(r) PROVE Alone'
  <2>1. UNCHANGED <<invite, crowded>> BY <1>20 DEF Enter, history
  <2>2. Turns(r, "grant", request[r].role, invite[request[r].inv].wks) BY <1>20, <1>0, Turned DEF Enter, AfterEntering
  <2>3. Alone' BY <2>1, <2>2, <1>b
  <2>4. QED BY <1>20, <2>1, <2>2, <2>3, <1>c, <1>d DEF Enter
<1>21. ASSUME NEW r \in Slots, GrantChosen(r) PROVE Alone'
  <2>1. UNCHANGED <<invite, crowded>> BY <1>21 DEF GrantChosen, history
  <2>2. request[r].step = "grant" BY <1>21 DEF GrantChosen, At
  <2>3. ASSUME NEW w \in request[r].left, Become(r, [request[r] EXCEPT !.left = @ \ {w}]) PROVE Alone'
    <3>1. Turns(r, "grant", request[r].role, request[r].left \ {w}) BY <2>2, <2>3, <1>0, Turned
    <3>2. QED BY <2>1, <3>1, <1>b
  <2>4. CASE GoTo(r, "mark") BY <2>1, <2>4, <1>d
  <2>5. QED BY <1>21, <2>1, <2>2, <2>3, <2>4, <1>c, <1>d DEF GrantChosen
<1>22. ASSUME NEW r \in Slots, markAsAccepted(r) PROVE Alone'
  <2>1. request[r].inv \in Invites BY <1>22, <1>i DEF markAsAccepted, At, Shaped
  <2>2. Fewer BY <1>22, <2>1, <1>f DEF markAsAccepted
  <2>3. End(r) /\ crowded' = crowded BY <1>22 DEF markAsAccepted, history
  <2>4. Alone' BY <2>2, <2>3, <1>c
  <2>5. QED BY <1>22, <2>1, <2>2, <2>3, <2>4, <1>c, <1>d DEF markAsAccepted
<1>23. ASSUME NEW r \in Slots, Fault(r) PROVE Alone'
  <2>1. UNCHANGED <<invite, crowded>> BY <1>23 DEF Fault, history
  <2>2. End(r) BY <1>23 DEF Fault
  <2>3. Alone' BY <2>1, <2>2, <1>c
  <2>4. QED BY <1>23, <2>1, <2>2, <2>3, <1>c, <1>d DEF Fault
<1>24. ASSUME NEW r \in Slots, NEW i \in Invites, acceptInvite(r, i) PROVE Alone'
  <2>1. UNCHANGED <<invite, crowded>> BY <1>24 DEF acceptInvite, history
  <2>2. Apart(r) /\ request'[r] = [Idle EXCEPT !.kind = "accept", !.step = "find", !.who = invite[i].to, !.inv = i] BY <1>24, <1>0, Became DEF acceptInvite, Start, Apart
  <2>3. request'[r].step # "save" BY <2>2 DEF Idle
  <2>4. Alone' BY <2>1, <2>2, <2>3, <1>e
  <2>5. QED BY <1>24, <2>1, <2>2, <2>3, <2>4, <1>c, <1>d DEF acceptInvite
<1>25. ASSUME NEW r \in Slots, NEW p \in People, assertUsable(r, p) PROVE Alone'
  <2>1. Apart(r) /\ request'[r] = Asked("use", p) BY <1>25, <1>0, Became DEF assertUsable, Start, Apart
  <2>2. request'[r].step # "save" BY <2>1 DEF Asked, Idle
  <2>3. UNCHANGED <<invite, crowded>> BY <1>25 DEF assertUsable, history
  <2>4. Alone' BY <2>1, <2>2, <2>3, <1>e
  <2>5. QED BY <1>25, <2>1, <2>2, <2>3, <2>4, <1>c, <1>d DEF assertUsable
<1>26. ASSUME NEW r \in Slots, NEW p \in People, NEW o \in Offers, AskInvite(r, p, o) PROVE Alone'
  <2>1. Apart(r) /\ request'[r] = [Asked("invite", p) EXCEPT !.offer = o] BY <1>26, <1>0, Became DEF AskInvite, Manage, Start, Apart
  <2>2. request'[r].step # "save" BY <2>1 DEF Asked, Idle
  <2>3. UNCHANGED <<invite, crowded>> BY <1>26 DEF AskInvite, Manage, history
  <2>4. Alone' BY <2>1, <2>2, <2>3, <1>e
  <2>5. QED BY <1>26, <2>1, <2>2, <2>3, <2>4, <1>c, <1>d DEF AskInvite, Manage
<1>27. ASSUME NEW r \in Slots, NEW p \in People, NEW i \in Invites, AskCancel(r, p, i) PROVE Alone'
  <2>1. Apart(r) /\ request'[r] = [Asked("cancel", p) EXCEPT !.inv = i] BY <1>27, <1>0, Became DEF AskCancel, Manage, Start, Apart
  <2>2. request'[r].step # "save" BY <2>1 DEF Asked, Idle
  <2>3. UNCHANGED <<invite, crowded>> BY <1>27 DEF AskCancel, Manage, history
  <2>4. Alone' BY <2>1, <2>2, <2>3, <1>e
  <2>5. QED BY <1>27, <2>1, <2>2, <2>3, <2>4, <1>c, <1>d DEF AskCancel, Manage
<1>28. ASSUME NEW r \in Slots, NEW p \in People, NEW q \in People, NEW w \in Workspaces, AskGrant(r, p, q, w) PROVE Alone'
  <2>1. Apart(r) /\ request'[r] = [Asked("grant", p) EXCEPT !.inv = q, !.ws = w] BY <1>28, <1>0, Became DEF AskGrant, Manage, Start, Apart
  <2>2. request'[r].step # "save" BY <2>1 DEF Asked, Idle
  <2>3. UNCHANGED <<invite, crowded>> BY <1>28 DEF AskGrant, Manage, history
  <2>4. Alone' BY <2>1, <2>2, <2>3, <1>e
  <2>5. QED BY <1>28, <2>1, <2>2, <2>3, <2>4, <1>c, <1>d DEF AskGrant, Manage
<1>29. ASSUME NEW r \in Slots, NEW p \in People, NEW q \in People, NEW w \in Workspaces, AskRevoke(r, p, q, w) PROVE Alone'
  <2>1. Apart(r) /\ request'[r] = [Asked("revoke", p) EXCEPT !.inv = q, !.ws = w] BY <1>29, <1>0, Became DEF AskRevoke, Manage, Start, Apart
  <2>2. request'[r].step # "save" BY <2>1 DEF Asked, Idle
  <2>3. UNCHANGED <<invite, crowded>> BY <1>29 DEF AskRevoke, Manage, history
  <2>4. Alone' BY <2>1, <2>2, <2>3, <1>e
  <2>5. QED BY <1>29, <2>1, <2>2, <2>3, <2>4, <1>c, <1>d DEF AskRevoke, Manage
<1>30. ASSUME NEW r \in Slots, NEW p \in People, NEW q \in People, NEW role \in {"admin", "agent"}, AskRole(r, p, q, role) PROVE Alone'
  <2>1. Apart(r) /\ request'[r] = [Asked("role", p) EXCEPT !.inv = q, !.new = role] BY <1>30, <1>0, Became DEF AskRole, Manage, Start, Apart
  <2>2. request'[r].step # "save" BY <2>1 DEF Asked, Idle
  <2>3. UNCHANGED <<invite, crowded>> BY <1>30 DEF AskRole, Manage, history
  <2>4. Alone' BY <2>1, <2>2, <2>3, <1>e
  <2>5. QED BY <1>30, <2>1, <2>2, <2>3, <2>4, <1>c, <1>d DEF AskRole, Manage
<1>31. ASSUME NEW i \in Invites, Expire(i) PROVE Alone'
  <2>1. Fewer BY <1>31, <1>0 DEF Expire, Invitations
  <2>2. UNCHANGED <<request, crowded>> BY <1>31 DEF Expire, history
  <2>3. Alone' BY <2>1, <2>2 DEF Alone, Pending, Saving, At
  <2>4. QED BY <1>31, <2>1, <2>2, <2>3, <1>c, <1>d DEF Expire
<1>32. ASSUME NEW i \in Invites, CloseExpired(i) PROVE Alone'
  <2>1. Fewer BY <1>32, <1>f DEF CloseExpired
  <2>2. UNCHANGED <<request, crowded>> BY <1>32 DEF CloseExpired, history
  <2>3. Alone' BY <2>1, <2>2 DEF Alone, Pending, Saving, At
  <2>4. QED BY <1>32, <2>1, <2>2, <2>3, <1>c, <1>d DEF CloseExpired
<1>33. QED
  BY <1>1, <1>2, <1>3, <1>4, <1>5, <1>6, <1>7, <1>8, <1>9, <1>10, <1>11, <1>12, <1>13, <1>14, <1>15, <1>16, <1>17, <1>18, <1>19, <1>20, <1>21, <1>22, <1>23, <1>24, <1>25, <1>26, <1>27, <1>28, <1>29, <1>30, <1>31, <1>32
  DEF Next, Step, Ask

-----------------------------------------------------------------------------
(* Guests. *)

LEMMA WelcomedStays ==
    ASSUME WellFormed, Welcomed, Next
    PROVE  Welcomed'
<1>0. /\ request \in [Slots -> Requests] /\ invite \in [Invites -> Invitations] /\ Lasts
      /\ home \in [People -> {None, Here, Away}] /\ member \in [People -> AccountRoles \cup {None}]
      /\ access \in [People -> [Workspaces -> {None, "active", "suspended"}]]
  BY EverythingLasts DEF WellFormed, TypeOK, Invitations
<1>i. \A r \in Slots : Shaped(r) BY DEF WellFormed
<1>w. \A i \in Invites : invite[i].wks \subseteq Workspaces /\ (invite[i].status # None => invite[i].to \in People)
  BY <1>0 DEF WellFormed, Blank, Invitations
<1> DEFINE Fewer == \A i \in Invites : invite'[i].status = "accepted" => invite[i].status = "accepted"
<1>m. Fewer => AcceptedMeansIn'
  <2> SUFFICES ASSUME Fewer, NEW i \in Invites, invite'[i].status = "accepted"
               PROVE  /\ home'[invite'[i].to] # None /\ member'[invite'[i].to] # None
                      /\ \A v \in invite'[i].wks : access'[invite'[i].to][v] # None
    BY DEF AcceptedMeansIn
  <2>1. invite[i].status = "accepted" OBVIOUS
  <2>2. invite[i].status # None BY <2>1 DEF None
  <2>3. invite[i].to \in People /\ invite'[i].to = invite[i].to /\ invite'[i].wks = invite[i].wks
    BY <2>2, <1>0, <1>w DEF Lasts
  <2>4. /\ home[invite[i].to] # None /\ member[invite[i].to] # None
        /\ \A v \in invite[i].wks : access[invite[i].to][v] # None
    BY <2>1 DEF Welcomed, AcceptedMeansIn
  <2>5. QED BY <2>3, <2>4, <1>0, <1>w DEF Lasts
<1>a. ASSUME NEW r \in Slots, Apart(r), AcceptedMeansIn', Arrived(r)'
      PROVE  Welcomed'
  <2>1. ASSUME NEW s \in Slots \ {r} PROVE Arrived(s)'
    <3> SUFFICES ASSUME request'[s].kind = "accept" PROVE Arrived(s)' BY DEF Arrived
    <3>1. request'[s] = request[s] BY <1>a DEF Apart
    <3>2. /\ request[s].who \in People /\ request[s].inv \in Invites
          /\ invite'[request[s].inv].wks = invite[request[s].inv].wks /\ invite[request[s].inv].wks \subseteq Workspaces
      BY <3>1, <1>0, <1>i, <1>w DEF Shaped, Lasts, AcceptSteps
    <3>3. QED BY <3>1, <3>2, <1>0 DEF Welcomed, Arrived, Lasts
  <2>2. QED BY <1>a, <2>1 DEF Welcomed
<1>b. ASSUME NEW r \in Slots, NEW step, NEW role, NEW left, Turns(r, step, role, left),
             step \notin {"enter", "grant", "mark"}, Fewer
      PROVE  Welcomed'
  BY <1>a, <1>b, <1>m DEF Turns, Arrived
<1>c. ASSUME NEW r \in Slots, End(r), AcceptedMeansIn'
      PROVE  Welcomed'
  <2>1. Ends(r) BY <1>c, <1>0, Turned
  <2>2. QED BY <1>a, <1>c, <2>1 DEF Ends, Idle, Arrived, None
<1>d. ASSUME NEW r \in Slots, Fewer, NEW step, GoTo(r, step), step \notin {"enter", "grant", "mark"}
      PROVE  Welcomed'
  <2>1. Turns(r, step, request[r].role, request[r].left) BY <1>d, <1>0, Turned
  <2>2. QED BY <1>b, <1>d, <2>1
<1>e. ASSUME NEW r \in Slots, Fewer, Apart(r), request'[r].step \notin {"enter", "grant", "mark"}
      PROVE  Welcomed'
  BY <1>a, <1>e, <1>m DEF Arrived
\* Nothing happens to the requests.
<1>f. ASSUME UNCHANGED request, Fewer
      PROVE  Welcomed'
  <2>1. ASSUME NEW r \in Slots PROVE Welcomed'
    <3>1. Turns(r, request[r].step, request[r].role, request[r].left) BY <1>f DEF Turns, Apart, Same
    <3> SUFFICES ASSUME request'[r].kind = "accept" PROVE Arrived(r)' BY <1>a, <1>f, <1>m, <3>1 DEF Turns, Arrived
    <3>2. /\ request[r].who \in People /\ request[r].inv \in Invites
          /\ invite'[request[r].inv].wks = invite[request[r].inv].wks /\ invite[request[r].inv].wks \subseteq Workspaces
      BY <1>f, <1>0, <1>i, <1>w DEF Shaped, Lasts, AcceptSteps
    <3>3. QED BY <1>f, <3>2, <1>0 DEF Welcomed, Arrived, Lasts
  <2>2. QED BY <1>f, <1>m, <2>1 DEF Welcomed
<1>1. ASSUME NEW r \in Slots, NEW p \in People, RegisterTenant(r, p) PROVE Welcomed'
  <2>1. UNCHANGED invite /\ Fewer BY <1>1 DEF RegisterTenant
  <2>2. Apart(r) /\ request'[r] = [Idle EXCEPT !.kind = "register", !.step = "user", !.who = p] BY <1>1, <1>0, Became DEF RegisterTenant, Start, Apart
  <2>3. request'[r].step = "user" BY <2>2 DEF Idle
  <2>4. Welcomed' BY <2>1, <2>2, <2>3, <1>e
  <2>5. QED BY <1>1, <2>1, <2>2, <2>3, <2>4, <1>c, <1>d, <1>m DEF RegisterTenant
<1>2. ASSUME NEW r \in Slots, RegisterUser(r) PROVE Welcomed'
  <2>1. UNCHANGED invite /\ Fewer BY <1>2 DEF RegisterUser
  <2>2. End(r) \/ GoTo(r, "owner") BY <1>2 DEF RegisterUser
  <2>3. Welcomed' BY <2>1, <2>2, <1>c, <1>d, <1>m
  <2>4. QED BY <1>2, <2>1, <2>2, <2>3, <1>c, <1>d, <1>m DEF RegisterUser
<1>3. ASSUME NEW r \in Slots, RegisterOwner(r) PROVE Welcomed'
  <2>1. UNCHANGED invite /\ Fewer BY <1>3 DEF RegisterOwner
  <2>2. End(r) BY <1>3 DEF RegisterOwner
  <2>3. Welcomed' BY <2>1, <2>2, <1>c, <1>m
  <2>4. QED BY <1>3, <2>1, <2>2, <2>3, <1>c, <1>d, <1>m DEF RegisterOwner
<1>4. ASSUME NEW r \in Slots, findActiveAccountMember(r) PROVE Welcomed'
  <2>1. UNCHANGED invite /\ Fewer BY <1>4 DEF findActiveAccountMember
  <2>2. CASE GoTo(r, "backfill") BY <2>1, <2>2, <1>d
  <2>3. CASE ~NeedsBackfill(request[r].who)
    <3>1. Turns(r, "checked", member[request[r].who], request[r].left) BY <1>4, <2>3, <1>0, Turned DEF findActiveAccountMember
    <3>2. QED BY <2>1, <3>1, <1>b
  <2>4. QED BY <1>4, <2>1, <2>2, <2>3, <1>c, <1>d, <1>m DEF findActiveAccountMember
<1>5. ASSUME NEW r \in Slots, backfillLegacyMember(r) PROVE Welcomed'
  <2>1. UNCHANGED invite /\ Fewer BY <1>5 DEF backfillLegacyMember
  <2>2. CASE End(r) BY <2>1, <2>2, <1>c, <1>m
  <2>3. CASE GoTo(r, "owner?") BY <2>1, <2>3, <1>d
  <2>4. CASE Become(r, [request[r] EXCEPT !.step = "join", !.role = LegacyRole(userRole[request[r].who])])
    <3>1. Turns(r, "join", LegacyRole(userRole[request[r].who]), request[r].left) BY <2>4, <1>0, Turned
    <3>2. QED BY <2>1, <3>1, <1>b
  <2>5. QED BY <1>5, <2>1, <2>2, <2>3, <2>4, <1>c, <1>d, <1>m DEF backfillLegacyMember
<1>6. ASSUME NEW r \in Slots, LookForOwner(r) PROVE Welcomed'
  <2>1. UNCHANGED invite /\ Fewer BY <1>6 DEF LookForOwner
  <2>2. Turns(r, "join", RoleOfAdmin, request[r].left) BY <1>6, <1>0, Turned DEF LookForOwner
  <2>3. Welcomed' BY <2>1, <2>2, <1>b
  <2>4. QED BY <1>6, <2>1, <2>2, <2>3, <1>c, <1>d, <1>m DEF LookForOwner
<1>7. ASSUME NEW r \in Slots, Join(r) PROVE Welcomed'
  <2>1. UNCHANGED invite /\ Fewer BY <1>7 DEF Join
  <2>2. QED BY <1>7, <2>1, <1>c, <1>d, <1>m DEF Join
<1>8. ASSUME NEW r \in Slots, FindWorkspaces(r) PROVE Welcomed'
  <2>1. UNCHANGED invite /\ Fewer BY <1>8 DEF FindWorkspaces
  <2>2. Turns(r, "each", request[r].role, Workspaces) BY <1>8, <1>0, Turned DEF FindWorkspaces
  <2>3. Welcomed' BY <2>1, <2>2, <1>b
  <2>4. QED BY <1>8, <2>1, <2>2, <2>3, <1>c, <1>d, <1>m DEF FindWorkspaces
<1>9. ASSUME NEW r \in Slots, BackfillAccess(r) PROVE Welcomed'
  <2>1. UNCHANGED invite /\ Fewer BY <1>9 DEF BackfillAccess
  <2>2. request[r].step = "each" BY <1>9 DEF BackfillAccess
  <2>3. ASSUME NEW w \in request[r].left, Become(r, [request[r] EXCEPT !.left = @ \ {w}]) PROVE Welcomed'
    <3>1. Turns(r, "each", request[r].role, request[r].left \ {w}) BY <2>2, <2>3, <1>0, Turned
    <3>2. QED BY <2>1, <3>1, <1>b
  <2>4. CASE GoTo(r, "checked") BY <2>1, <2>4, <1>d
  <2>5. QED BY <1>9, <2>1, <2>2, <2>3, <2>4, <1>c, <1>d, <1>m DEF BackfillAccess
<1>10. ASSUME NEW r \in Slots, Checked(r) PROVE Welcomed'
  <2>1. UNCHANGED invite /\ Fewer BY <1>10 DEF Checked
  <2>2. End(r) BY <1>10 DEF Checked
  <2>3. Welcomed' BY <2>1, <2>2, <1>c, <1>m
  <2>4. QED BY <1>10, <2>1, <2>2, <2>3, <1>c, <1>d, <1>m DEF Checked
<1>11. ASSUME NEW r \in Slots, Forbidden(r) PROVE Welcomed'
  <2>1. UNCHANGED invite /\ Fewer BY <1>11 DEF Forbidden
  <2>2. End(r) BY <1>11 DEF Forbidden
  <2>3. Welcomed' BY <2>1, <2>2, <1>c, <1>m
  <2>4. QED BY <1>11, <2>1, <2>2, <2>3, <1>c, <1>d, <1>m DEF Forbidden
<1>12. ASSUME NEW r \in Slots, LookForInvitation(r) PROVE Welcomed'
  <2>1. UNCHANGED invite /\ Fewer BY <1>12 DEF LookForInvitation
  <2>2. End(r) \/ GoTo(r, "save") BY <1>12 DEF LookForInvitation
  <2>3. Welcomed' BY <2>1, <2>2, <1>c, <1>d, <1>m
  <2>4. QED BY <1>12, <2>1, <2>2, <2>3, <1>c, <1>d, <1>m DEF LookForInvitation
<1>13. ASSUME NEW r \in Slots, NEW i \in Invites, SaveInvitation(r, i) PROVE Welcomed'
  <2>1. Fewer BY <1>13, <1>0 DEF SaveInvitation
  <2>2. End(r) BY <1>13 DEF SaveInvitation
  <2>3. Welcomed' BY <2>1, <2>2, <1>c, <1>m
  <2>4. QED BY <1>13, <2>1, <2>2, <2>3, <1>c, <1>d, <1>m DEF SaveInvitation
<1>14. ASSUME NEW r \in Slots, CancelInvitation(r) PROVE Welcomed'
  <2>1. request[r].inv \in Invites BY <1>14, <1>i DEF CancelInvitation, assertCanManageAccount, At, Shaped
  <2>2. Fewer BY <1>14, <1>0, <2>1 DEF CancelInvitation, Invitations
  <2>3. End(r) BY <1>14 DEF CancelInvitation
  <2>4. Welcomed' BY <2>2, <2>3, <1>c, <1>m
  <2>5. QED BY <1>14, <2>1, <2>2, <2>3, <2>4, <1>c, <1>d, <1>m DEF CancelInvitation
<1>15. ASSUME NEW r \in Slots, GrantAccess(r) PROVE Welcomed'
  <2>1. UNCHANGED invite /\ Fewer BY <1>15 DEF GrantAccess
  <2>2. End(r) BY <1>15 DEF GrantAccess
  <2>3. Welcomed' BY <2>1, <2>2, <1>c, <1>m
  <2>4. QED BY <1>15, <2>1, <2>2, <2>3, <1>c, <1>d, <1>m DEF GrantAccess
<1>16. ASSUME NEW r \in Slots, RevokeAccess(r) PROVE Welcomed'
  <2>1. UNCHANGED invite /\ Fewer BY <1>16 DEF RevokeAccess
  <2>2. End(r) BY <1>16 DEF RevokeAccess
  <2>3. Welcomed' BY <2>1, <2>2, <1>c, <1>m
  <2>4. QED BY <1>16, <2>1, <2>2, <2>3, <1>c, <1>d, <1>m DEF RevokeAccess
<1>17. ASSUME NEW r \in Slots, changeRole(r) PROVE Welcomed'
  <2>1. UNCHANGED invite /\ Fewer BY <1>17 DEF changeRole
  <2>2. End(r) BY <1>17 DEF changeRole
  <2>3. Welcomed' BY <2>1, <2>2, <1>c, <1>m
  <2>4. QED BY <1>17, <2>1, <2>2, <2>3, <1>c, <1>d, <1>m DEF changeRole
<1>18. ASSUME NEW r \in Slots, FindUser(r) PROVE Welcomed'
  <2>1. UNCHANGED invite /\ Fewer BY <1>18 DEF FindUser
  <2>2. request[r].kind = "accept" /\ request[r].who \in People /\ request[r].inv \in Invites /\ request[r].step = "find"
    BY <1>18, <1>i DEF FindUser, At, Shaped
  <2>3. Turns(r, StepFor(request[r].who), request[r].role, request[r].left) BY <1>18, <1>0, Turned DEF FindUser
  <2>4. home'[request[r].who] = home[request[r].who] BY <1>18 DEF FindUser, users
  <2>5. Arrived(r)' BY <2>2, <2>3, <2>4 DEF Turns, Same, StepFor, Arrived
  <2>6. Welcomed' BY <2>1, <2>3, <2>5, <1>a, <1>m DEF Turns
  <2>7. QED BY <1>18, <2>1, <2>2, <2>3, <2>4, <2>5, <2>6, <1>c, <1>d, <1>m DEF FindUser
<1>19. ASSUME NEW r \in Slots, CreateUser(r) PROVE Welcomed'
  <2>1. UNCHANGED invite /\ Fewer BY <1>19 DEF CreateUser
  <2>2. request[r].kind = "accept" /\ request[r].who \in People /\ request[r].inv \in Invites /\ request[r].step = "create"
    BY <1>19, <1>i DEF CreateUser, At, Shaped
  <2>3. CASE End(r) BY <2>1, <2>3, <1>c, <1>m
  <2>4. CASE GoTo(r, "enter") /\ home' = [home EXCEPT ![request[r].who] = Here]
    <3>1. Turns(r, "enter", request[r].role, request[r].left) BY <2>4, <1>0, Turned
    <3>2. home'[request[r].who] # None BY <2>2, <2>4, <1>0 DEF Here, None
    <3>3. Arrived(r)' BY <3>1, <3>2 DEF Turns, Same, Arrived
    <3>4. QED BY <2>1, <3>1, <3>3, <1>a, <1>m DEF Turns
  <2>5. QED BY <1>19, <2>1, <2>2, <2>3, <2>4, <1>c, <1>d, <1>m DEF CreateUser
<1>20. ASSUME NEW r \in Slots, Enter(r) PROVE Welcomed'
  <2>1. UNCHANGED invite /\ Fewer BY <1>20 DEF Enter
  <2>2. request[r].kind = "accept" /\ request[r].who \in People /\ request[r].inv \in Invites /\ request[r].step = "enter"
    BY <1>20, <1>i DEF Enter, At, Shaped
  <2>3. Turns(r, "grant", request[r].role, invite[request[r].inv].wks) BY <1>20, <1>0, Turned DEF Enter, AfterEntering
  <2>4. home'[request[r].who] # None BY <1>20, <2>2 DEF Enter, users, Welcomed, Arrived
  <2>5. member'[request[r].who] # None BY <1>20, <2>2, <1>0 DEF Enter, ensureAccountMember, toAccountRole, None
  <2>6. Arrived(r)' BY <2>1, <2>3, <2>4, <2>5 DEF Turns, Same, Arrived
  <2>7. Welcomed' BY <2>1, <2>3, <2>6, <1>a, <1>m DEF Turns
  <2>8. QED BY <1>20, <2>1, <2>2, <2>3, <2>4, <2>5, <2>6, <2>7, <1>c, <1>d, <1>m DEF Enter
<1>21. ASSUME NEW r \in Slots, GrantChosen(r) PROVE Welcomed'
  <2>1. UNCHANGED invite /\ Fewer BY <1>21 DEF GrantChosen
  <2>2. request[r].kind = "accept" /\ request[r].who \in People /\ request[r].inv \in Invites /\ request[r].step = "grant"
    BY <1>21, <1>i DEF GrantChosen, At, Shaped
  <2>3. UNCHANGED <<home, member>> BY <1>21 DEF GrantChosen, users
  <2>4. /\ home[request[r].who] # None /\ member[request[r].who] # None
        /\ \A v \in invite[request[r].inv].wks : v \in request[r].left \/ access[request[r].who][v] # None
    BY <2>2 DEF Welcomed, Arrived
  <2>5. ASSUME NEW w \in request[r].left, setWorkspaceAccess(request[r].who, w), Become(r, [request[r] EXCEPT !.left = @ \ {w}])
       PROVE  Welcomed'
    <3>1. Turns(r, "grant", request[r].role, request[r].left \ {w}) BY <2>2, <2>5, <1>0, Turned
    <3>2. w \in Workspaces BY <1>0, <2>5 DEF Requests
    <3>3. access'[request[r].who][w] # None BY <2>2, <2>5, <3>2, <1>0 DEF setWorkspaceAccess, None
    <3>4. \A v \in invite[request[r].inv].wks : access[request[r].who][v] # None => access'[request[r].who][v] # None
      BY <2>2, <1>0, <1>w DEF Lasts
    <3>5. Arrived(r)' BY <2>1, <2>3, <2>4, <3>1, <3>3, <3>4 DEF Turns, Same, Arrived
    <3>6. QED BY <2>1, <3>1, <3>5, <1>a, <1>m DEF Turns
  <2>6. CASE GoTo(r, "mark") /\ request[r].left = {} /\ UNCHANGED access
    <3>1. Turns(r, "mark", request[r].role, request[r].left) BY <2>6, <1>0, Turned
    <3>2. Arrived(r)' BY <2>1, <2>3, <2>4, <2>6, <3>1 DEF Turns, Same, Arrived
    <3>3. QED BY <2>1, <3>1, <3>2, <1>a, <1>m DEF Turns
  <2>7. QED BY <1>21, <2>1, <2>2, <2>3, <2>4, <2>5, <2>6, <1>c, <1>d, <1>m DEF GrantChosen
<1>22. ASSUME NEW r \in Slots, markAsAccepted(r) PROVE Welcomed'
  <2>1. request[r].kind = "accept" /\ request[r].who \in People /\ request[r].inv \in Invites /\ request[r].step = "mark"
    BY <1>22, <1>i DEF markAsAccepted, At, Shaped, AcceptSteps
  <2>2. invite[request[r].inv].to = request[r].who /\ invite[request[r].inv].status # None BY <2>1, <1>i DEF Shaped
  <2>3. UNCHANGED <<home, member, access>> BY <1>22 DEF markAsAccepted, users, records
  <2>4. /\ home[request[r].who] # None /\ member[request[r].who] # None
        /\ \A v \in invite[request[r].inv].wks : access[request[r].who][v] # None
    BY <2>1 DEF Welcomed, Arrived
  <2>5. \A i \in Invites : /\ invite'[i].to = invite[i].to /\ invite'[i].wks = invite[i].wks
                           /\ i # request[r].inv => invite'[i].status = invite[i].status
    BY <1>22, <2>1, <1>0 DEF markAsAccepted, Invitations
  <2>6. AcceptedMeansIn' BY <2>2, <2>3, <2>4, <2>5 DEF Welcomed, AcceptedMeansIn
  <2>7. Welcomed' BY <1>22, <2>6, <1>c DEF markAsAccepted
  <2>8. QED BY <1>22, <2>1, <2>2, <2>3, <2>4, <2>5, <2>6, <2>7, <1>c, <1>d, <1>m DEF markAsAccepted
<1>23. ASSUME NEW r \in Slots, Fault(r) PROVE Welcomed'
  <2>1. UNCHANGED invite /\ Fewer BY <1>23 DEF Fault
  <2>2. End(r) BY <1>23 DEF Fault
  <2>3. Welcomed' BY <2>1, <2>2, <1>c, <1>m
  <2>4. QED BY <1>23, <2>1, <2>2, <2>3, <1>c, <1>d, <1>m DEF Fault
<1>24. ASSUME NEW r \in Slots, NEW i \in Invites, acceptInvite(r, i) PROVE Welcomed'
  <2>1. UNCHANGED invite /\ Fewer BY <1>24 DEF acceptInvite
  <2>2. Apart(r) /\ request'[r] = [Idle EXCEPT !.kind = "accept", !.step = "find", !.who = invite[i].to, !.inv = i] BY <1>24, <1>0, Became DEF acceptInvite, Start, Apart
  <2>3. request'[r].step = "find" BY <2>2 DEF Idle
  <2>4. Welcomed' BY <2>1, <2>2, <2>3, <1>e
  <2>5. QED BY <1>24, <2>1, <2>2, <2>3, <2>4, <1>c, <1>d, <1>m DEF acceptInvite
<1>25. ASSUME NEW r \in Slots, NEW p \in People, assertUsable(r, p) PROVE Welcomed'
  <2>1. Apart(r) /\ request'[r] = Asked("use", p) BY <1>25, <1>0, Became DEF assertUsable, Start, Apart
  <2>2. request'[r].step = "member" BY <2>1 DEF Asked, Idle
  <2>3. UNCHANGED invite /\ Fewer BY <1>25 DEF assertUsable
  <2>4. Welcomed' BY <2>1, <2>2, <2>3, <1>e
  <2>5. QED BY <1>25, <2>1, <2>2, <2>3, <2>4, <1>c, <1>d, <1>m DEF assertUsable
<1>26. ASSUME NEW r \in Slots, NEW p \in People, NEW o \in Offers, AskInvite(r, p, o) PROVE Welcomed'
  <2>1. Apart(r) /\ request'[r] = [Asked("invite", p) EXCEPT !.offer = o] BY <1>26, <1>0, Became DEF AskInvite, Manage, Start, Apart
  <2>2. request'[r].step = "member" BY <2>1 DEF Asked, Idle
  <2>3. UNCHANGED invite /\ Fewer BY <1>26 DEF AskInvite, Manage
  <2>4. Welcomed' BY <2>1, <2>2, <2>3, <1>e
  <2>5. QED BY <1>26, <2>1, <2>2, <2>3, <2>4, <1>c, <1>d, <1>m DEF AskInvite, Manage
<1>27. ASSUME NEW r \in Slots, NEW p \in People, NEW i \in Invites, AskCancel(r, p, i) PROVE Welcomed'
  <2>1. Apart(r) /\ request'[r] = [Asked("cancel", p) EXCEPT !.inv = i] BY <1>27, <1>0, Became DEF AskCancel, Manage, Start, Apart
  <2>2. request'[r].step = "member" BY <2>1 DEF Asked, Idle
  <2>3. UNCHANGED invite /\ Fewer BY <1>27 DEF AskCancel, Manage
  <2>4. Welcomed' BY <2>1, <2>2, <2>3, <1>e
  <2>5. QED BY <1>27, <2>1, <2>2, <2>3, <2>4, <1>c, <1>d, <1>m DEF AskCancel, Manage
<1>28. ASSUME NEW r \in Slots, NEW p \in People, NEW q \in People, NEW w \in Workspaces, AskGrant(r, p, q, w) PROVE Welcomed'
  <2>1. Apart(r) /\ request'[r] = [Asked("grant", p) EXCEPT !.inv = q, !.ws = w] BY <1>28, <1>0, Became DEF AskGrant, Manage, Start, Apart
  <2>2. request'[r].step = "member" BY <2>1 DEF Asked, Idle
  <2>3. UNCHANGED invite /\ Fewer BY <1>28 DEF AskGrant, Manage
  <2>4. Welcomed' BY <2>1, <2>2, <2>3, <1>e
  <2>5. QED BY <1>28, <2>1, <2>2, <2>3, <2>4, <1>c, <1>d, <1>m DEF AskGrant, Manage
<1>29. ASSUME NEW r \in Slots, NEW p \in People, NEW q \in People, NEW w \in Workspaces, AskRevoke(r, p, q, w) PROVE Welcomed'
  <2>1. Apart(r) /\ request'[r] = [Asked("revoke", p) EXCEPT !.inv = q, !.ws = w] BY <1>29, <1>0, Became DEF AskRevoke, Manage, Start, Apart
  <2>2. request'[r].step = "member" BY <2>1 DEF Asked, Idle
  <2>3. UNCHANGED invite /\ Fewer BY <1>29 DEF AskRevoke, Manage
  <2>4. Welcomed' BY <2>1, <2>2, <2>3, <1>e
  <2>5. QED BY <1>29, <2>1, <2>2, <2>3, <2>4, <1>c, <1>d, <1>m DEF AskRevoke, Manage
<1>30. ASSUME NEW r \in Slots, NEW p \in People, NEW q \in People, NEW role \in {"admin", "agent"}, AskRole(r, p, q, role) PROVE Welcomed'
  <2>1. Apart(r) /\ request'[r] = [Asked("role", p) EXCEPT !.inv = q, !.new = role] BY <1>30, <1>0, Became DEF AskRole, Manage, Start, Apart
  <2>2. request'[r].step = "member" BY <2>1 DEF Asked, Idle
  <2>3. UNCHANGED invite /\ Fewer BY <1>30 DEF AskRole, Manage
  <2>4. Welcomed' BY <2>1, <2>2, <2>3, <1>e
  <2>5. QED BY <1>30, <2>1, <2>2, <2>3, <2>4, <1>c, <1>d, <1>m DEF AskRole, Manage
<1>31. ASSUME NEW i \in Invites, Expire(i) PROVE Welcomed'
  <2>1. Fewer /\ UNCHANGED request BY <1>31, <1>0 DEF Expire, Invitations
  <2>2. Welcomed' BY <2>1, <1>f
  <2>3. QED BY <1>31, <2>1, <2>2, <1>c, <1>d, <1>m DEF Expire
<1>32. ASSUME NEW i \in Invites, CloseExpired(i) PROVE Welcomed'
  <2>1. Fewer /\ UNCHANGED request BY <1>32, <1>0 DEF CloseExpired, Invitations
  <2>2. Welcomed' BY <2>1, <1>f
  <2>3. QED BY <1>32, <2>1, <2>2, <1>c, <1>d, <1>m DEF CloseExpired
<1>33. QED
  BY <1>1, <1>2, <1>3, <1>4, <1>5, <1>6, <1>7, <1>8, <1>9, <1>10, <1>11, <1>12, <1>13, <1>14, <1>15, <1>16, <1>17, <1>18, <1>19, <1>20, <1>21, <1>22, <1>23, <1>24, <1>25, <1>26, <1>27, <1>28, <1>29, <1>30, <1>31, <1>32
  DEF Next, Step, Ask

-----------------------------------------------------------------------------
(* Every state satisfies the invariant. *)

LEMMA InitInvariant ==
    ASSUME Plausible, Init
    PROVE  IInv
<1>1. PICK s \in Scenes : tenant = s.tenant /\ home = s.home /\ userRole = s.userRole /\ member = s.member /\ budget = s.budget
  BY DEF Init
<1>2. /\ s.tenant \in BOOLEAN /\ s.home \in [People -> {None, Here, Away}] /\ s.userRole \in [People -> UserRoles]
      /\ s.member \in [People -> AccountRoles \cup {None}] /\ s.budget \in [Kinds -> Nat]
  OBVIOUS
<1>3. \A r \in Slots : request[r] = Idle BY DEF Init
<1>4. \A i \in Invites : invite[i] = Blank BY DEF Init
<1>5. TypeOK
  <2>1. request \in [Slots -> Requests] BY IdleRequest DEF Init
  <2>2. invite \in [Invites -> [to : People \cup {None}, role : UserRoles, wks : SUBSET Workspaces,
                                status : {None, "pending", "accepted", "cancelled", "expired"}, old : BOOLEAN]]
    BY DEF Init, Blank, UserRoles
  <2>3. access \in [People -> [Workspaces -> {None, "active", "suspended"}]] BY DEF Init
  <2>4. QED BY <1>1, <1>2, <2>1, <2>2, <2>3 DEF Init, TypeOK
<1>6. WellFormed
  <2>1. \A r \in Slots : Shaped(r) BY <1>3 DEF Shaped, Idle, RegisterSteps, AcceptSteps, OwnSteps, None
  <2>2. QED BY <1>4, <1>5, <2>1 DEF WellFormed
<1>7. Founded
  <2>1. \A r \in Slots : request[r].step = "idle" /\ ~Registers(r) BY <1>3 DEF Idle, Registers, None
  <2>2. ~tenant => Vacant BY <1>1, <1>4, <2>1 DEF Plausible, Vacant, Blank
  <2>3. QED BY <2>1, <2>2 DEF Founded
<1>8. Owned
  <2>1. \A r \in Slots : ~Choosing(r) /\ ~Crowning(r) BY <1>3 DEF Idle, Choosing, Crowning
  <2>2. QED BY <1>1, <2>1 DEF Plausible, Owned
<1>9. Given
  <2>1. \A p \in People, v \in Workspaces : access[p][v] # "active" BY DEF Init, None
  <2>2. QED BY <1>3, <2>1 DEF Given, OnlyWhatWasGiven, Opens, Opening, Serves, Idle, None
<1>10. Alone
  <2>1. \A r \in Slots : ~Saving(r) BY <1>3 DEF Saving, At, Idle
  <2>2. \A i \in Invites : invite[i].status # "pending" BY <1>4 DEF Blank, None
  <2>3. QED BY <2>1, <2>2 DEF Alone
<1>11. Welcomed
  <2>1. \A i \in Invites : invite[i].status # "accepted" BY <1>4 DEF Blank, None
  <2>2. QED BY <1>3, <2>1 DEF Welcomed, AcceptedMeansIn, Arrived, Idle, None
<1>12. QED BY <1>6, <1>7, <1>8, <1>9, <1>10, <1>11 DEF IInv

LEMMA NextInvariant ==
    ASSUME IInv, [Next]_vars
    PROVE  IInv'
<1>1. CASE Next
  <2>1. WellFormed /\ Founded /\ Owned /\ Given /\ Alone /\ Welcomed BY DEF IInv
  <2>2. WellFormed' /\ Founded' BY <1>1, <2>1, WellFormedStays, FoundedStays
  <2>3. Owned' /\ Given' BY <1>1, <2>1, OwnedStays, GivenStays
  <2>4. Alone' /\ Welcomed' BY <1>1, <2>1, AloneStays, WelcomedStays
  <2>5. QED BY <2>2, <2>3, <2>4 DEF IInv
<1>2. CASE UNCHANGED vars
  <2>1. /\ UNCHANGED <<tenant, home, userRole, member, access, invite, request>>
        /\ UNCHANGED <<allowed, overlapped, crowded, demoted, budget>>
    BY <1>2 DEF vars, users, records, history
  <2>2. WellFormed' BY <2>1 DEF IInv, WellFormed, TypeOK, Shaped
  <2>3. Founded' /\ Owned' BY <2>1 DEF IInv, Founded, Vacant, Registers, Owned, Choosing, Crowning
  <2>4. Given' BY <2>1 DEF IInv, Given, OnlyWhatWasGiven, Opens, Opening, Serves
  <2>5. Alone' BY <2>1 DEF IInv, Alone, Saving, At, Pending
  <2>6. Welcomed' BY <2>1 DEF IInv, Welcomed, AcceptedMeansIn, Arrived
  <2>7. QED BY <2>2, <2>3, <2>4, <2>5, <2>6 DEF IInv
<1>3. QED BY <1>1, <1>2

LEMMA InvariantImplies ==
    ASSUME IInv
    PROVE  MembersInOrder
<1>1. OneOwner BY DEF IInv, Owned, OneOwner
<1>2. OnlyWhatWasGiven BY DEF IInv, Given
<1>3. OnePending BY DEF IInv, Alone, OnePending
<1>4. QED BY <1>1, <1>2, <1>3 DEF IInv, WellFormed, Welcomed, MembersInOrder

\* The members of an account are in order, whatever its people ask at once and wherever a
\* request dies: one owner unless two first requests overlapped (backfillLegacyMember,
\* memberships.service.ts:40), workspaces open to those they were given to (:96),
\* one pending invitation of an address unless two managers sent it at once
\* (invitations.service.ts:26), and accepted ones whose guest is in (auth.service.ts:172).
THEOREM MembersKept ==
    ASSUME Plausible
    PROVE  Spec => []MembersInOrder
<1>1. Init => IInv BY InitInvariant
<1>2. IInv /\ [Next]_vars => IInv' BY NextInvariant
<1>3. IInv => MembersInOrder BY InvariantImplies
<1>4. QED BY <1>1, <1>2, <1>3, PTL DEF Spec

\* Only three steps write who belongs to the account, and none of them on its owner.
LEMMA OwnerRemains ==
    ASSUME IInv, Next, HasOwner, ~demoted', ~overlapped
    PROVE  HasOwner'
<1>0. member \in [People -> AccountRoles \cup {None}] BY DEF IInv, WellFormed, TypeOK
<1>i. \A r \in Slots : Shaped(r) BY DEF IInv, WellFormed
<1>a. ASSUME NEW p \in People, NEW role, ensureAccountMember(p, role), member[p] # "owner" PROVE HasOwner'
  BY <1>0, <1>a DEF HasOwner, ensureAccountMember
<1>b. UNCHANGED member => HasOwner' BY DEF HasOwner
<1>c. UNCHANGED records => HasOwner' BY <1>b DEF records
<1>d. \A r \in Slots : Choosing(r) => member[request[r].who] # "owner" BY DEF IInv, Owned
<1>1. ASSUME NEW r \in Slots, NEW p \in People, RegisterTenant(r, p) PROVE HasOwner'
  BY <1>1, <1>b, <1>c DEF RegisterTenant
<1>2. ASSUME NEW r \in Slots, RegisterUser(r) PROVE HasOwner'
  BY <1>2, <1>b, <1>c DEF RegisterUser
<1>3. ASSUME NEW r \in Slots, RegisterOwner(r) PROVE HasOwner'
  <2>1. request[r].who \in People /\ Choosing(r) BY <1>3, <1>i DEF RegisterOwner, At, Shaped, Choosing
  <2>2. HasOwner' BY <1>3, <2>1, <1>a, <1>d DEF RegisterOwner
  <2>3. QED BY <1>3, <2>1, <2>2, <1>b, <1>c DEF RegisterOwner
<1>4. ASSUME NEW r \in Slots, findActiveAccountMember(r) PROVE HasOwner'
  BY <1>4, <1>b, <1>c DEF findActiveAccountMember
<1>5. ASSUME NEW r \in Slots, backfillLegacyMember(r) PROVE HasOwner'
  BY <1>5, <1>b, <1>c DEF backfillLegacyMember
<1>6. ASSUME NEW r \in Slots, LookForOwner(r) PROVE HasOwner'
  BY <1>6, <1>b, <1>c DEF LookForOwner
<1>7. ASSUME NEW r \in Slots, Join(r) PROVE HasOwner'
  <2>1. request[r].who \in People /\ Choosing(r) BY <1>7, <1>i DEF Join, Shaped, Choosing
  <2>2. HasOwner' BY <1>7, <2>1, <1>a, <1>d DEF Join
  <2>3. QED BY <1>7, <2>1, <2>2, <1>b, <1>c DEF Join
<1>8. ASSUME NEW r \in Slots, FindWorkspaces(r) PROVE HasOwner'
  BY <1>8, <1>b, <1>c DEF FindWorkspaces
<1>9. ASSUME NEW r \in Slots, BackfillAccess(r) PROVE HasOwner'
  BY <1>9, <1>b, <1>c DEF BackfillAccess
<1>10. ASSUME NEW r \in Slots, Checked(r) PROVE HasOwner'
  BY <1>10, <1>b, <1>c DEF Checked
<1>11. ASSUME NEW r \in Slots, Forbidden(r) PROVE HasOwner'
  BY <1>11, <1>b, <1>c DEF Forbidden
<1>12. ASSUME NEW r \in Slots, LookForInvitation(r) PROVE HasOwner'
  BY <1>12, <1>b, <1>c DEF LookForInvitation
<1>13. ASSUME NEW r \in Slots, NEW i \in Invites, SaveInvitation(r, i) PROVE HasOwner'
  BY <1>13, <1>b, <1>c DEF SaveInvitation
<1>14. ASSUME NEW r \in Slots, CancelInvitation(r) PROVE HasOwner'
  BY <1>14, <1>b, <1>c DEF CancelInvitation
<1>15. ASSUME NEW r \in Slots, GrantAccess(r) PROVE HasOwner'
  BY <1>15, <1>b, <1>c DEF GrantAccess
<1>16. ASSUME NEW r \in Slots, RevokeAccess(r) PROVE HasOwner'
  BY <1>16, <1>b, <1>c DEF RevokeAccess
<1>17. ASSUME NEW r \in Slots, changeRole(r) PROVE HasOwner'
  BY <1>17, <1>b, <1>c DEF changeRole
<1>18. ASSUME NEW r \in Slots, FindUser(r) PROVE HasOwner'
  BY <1>18, <1>b, <1>c DEF FindUser
<1>19. ASSUME NEW r \in Slots, CreateUser(r) PROVE HasOwner'
  BY <1>19, <1>b, <1>c DEF CreateUser
<1>20. ASSUME NEW r \in Slots, Enter(r) PROVE HasOwner'
  <2>1. request[r].who \in People BY <1>20, <1>i DEF Enter, At, Shaped
  <2>2. HasOwner' BY <1>20, <2>1, <1>a DEF Enter
  <2>3. QED BY <1>20, <2>1, <2>2, <1>b, <1>c DEF Enter
<1>21. ASSUME NEW r \in Slots, GrantChosen(r) PROVE HasOwner'
  BY <1>21, <1>b, <1>c DEF GrantChosen
<1>22. ASSUME NEW r \in Slots, markAsAccepted(r) PROVE HasOwner'
  BY <1>22, <1>b, <1>c DEF markAsAccepted
<1>23. ASSUME NEW r \in Slots, Fault(r) PROVE HasOwner'
  BY <1>23, <1>b, <1>c DEF Fault
<1>24. ASSUME NEW r \in Slots, NEW i \in Invites, acceptInvite(r, i) PROVE HasOwner'
  BY <1>24, <1>b, <1>c DEF acceptInvite
<1>25. ASSUME NEW r \in Slots, NEW p \in People, assertUsable(r, p) PROVE HasOwner'
  BY <1>25, <1>b, <1>c DEF assertUsable
<1>26. ASSUME NEW r \in Slots, NEW p \in People, NEW o \in Offers, AskInvite(r, p, o) PROVE HasOwner'
  BY <1>26, <1>b, <1>c DEF AskInvite, Manage
<1>27. ASSUME NEW r \in Slots, NEW p \in People, NEW i \in Invites, AskCancel(r, p, i) PROVE HasOwner'
  BY <1>27, <1>b, <1>c DEF AskCancel, Manage
<1>28. ASSUME NEW r \in Slots, NEW p \in People, NEW q \in People, NEW w \in Workspaces, AskGrant(r, p, q, w) PROVE HasOwner'
  BY <1>28, <1>b, <1>c DEF AskGrant, Manage
<1>29. ASSUME NEW r \in Slots, NEW p \in People, NEW q \in People, NEW w \in Workspaces, AskRevoke(r, p, q, w) PROVE HasOwner'
  BY <1>29, <1>b, <1>c DEF AskRevoke, Manage
<1>30. ASSUME NEW r \in Slots, NEW p \in People, NEW q \in People, NEW role \in {"admin", "agent"}, AskRole(r, p, q, role) PROVE HasOwner'
  BY <1>30, <1>b, <1>c DEF AskRole, Manage
<1>31. ASSUME NEW i \in Invites, Expire(i) PROVE HasOwner'
  BY <1>31, <1>b, <1>c DEF Expire
<1>32. ASSUME NEW i \in Invites, CloseExpired(i) PROVE HasOwner'
  BY <1>32, <1>b, <1>c DEF CloseExpired
<1>33. QED
  BY <1>1, <1>2, <1>3, <1>4, <1>5, <1>6, <1>7, <1>8, <1>9, <1>10, <1>11, <1>12, <1>13, <1>14, <1>15, <1>16, <1>17, <1>18, <1>19, <1>20, <1>21, <1>22, <1>23, <1>24, <1>25, <1>26, <1>27, <1>28, <1>29, <1>30, <1>31, <1>32
  DEF Next, Step, Ask

\* The account never loses its owner to the records of another: neither a first request
\* nor a registration is ever about him (memberships.service.ts:40, :53, auth.service.ts:86).
\* Only an invitation he accepts himself (auth.service.ts:192) takes it from him.
THEOREM OwnerKept ==
    ASSUME Plausible
    PROVE  Spec => OwnerStays
<1>1. Init => IInv BY InitInvariant
<1>2. IInv /\ [Next]_vars => IInv' BY NextInvariant
<1>3. IInv /\ [Next]_vars => [HasOwner /\ ~demoted' /\ ~overlapped => HasOwner']_vars BY OwnerRemains
<1>4. QED BY <1>1, <1>2, <1>3, PTL DEF Spec, OwnerStays

-----------------------------------------------------------------------------
(* The password of a user. *)

\* Durations are whole ticks, a second at least one; bounds are numbers.
Sensible ==
    /\ Second \in Nat \ {0} /\ LinkLife \in Nat /\ MaxLinks \in Nat
    /\ PasswordScenes \subseteq [S!Kinds -> Nat]

-----------------------------------------------------------------------------
WorkSteps    == {"idle", "compare", "sign", "delete", "create", "mail", "change", "others"}
AnyToken == [kind : {"none", "access", "refresh"}, iat : Nat, at : Nat, born : Nat, epoch : Nat, raced : BOOLEAN]
AnyWork  == [step : WorkSteps, id : S!Ids \cup {0}, seen : Nat, since : Nat, token : AnyToken]
Works == {q \in AnyWork : q.step \in {"mail", "change"} => q.id \in S!Ids}

TypedSessions ==
    /\ S!TypeOK
    /\ bounds \in [S!Kinds -> Nat]
    /\ work \in [Slots -> Works]
    /\ tokens \subseteq AnyToken

\* A link is known by its number, and numbers go up.
Numbered ==
    /\ \A l \in links : l.id <= made
    /\ \A l, m \in links : l.id = m.id => l = m

\* A link that changed the password, or is about to, is gone, and one request
\* alone has taken it.
LinksTaken ==
    /\ \A i \in S!Ids : uses[i] <= 1
    /\ \A i \in S!Ids : uses[i] = 1 =>
          /\ i <= made
          /\ \A l \in links : l.id # i
          /\ \A r \in Slots : S!At(r, "change") => work[r].id # i
    /\ \A r \in Slots : S!At(r, "change") =>
          /\ work[r].id <= made
          /\ \A l \in links : l.id # work[r].id
    /\ \A r, s \in Slots : S!At(r, "change") /\ S!At(s, "change") /\ work[r].id = work[s].id => r = s

\* While requests for a link keep out of each other's way, one at most replaces
\* the links there are, and it has deleted them before it adds its own.
Replacing(r) == work[r].step \in {"delete", "create"}

OneByOne ==
    ~crossed => /\ \A l, m \in links : l = m
                /\ \A r, s \in Slots : Replacing(r) /\ Replacing(s) => r = s
                /\ \A r \in Slots : S!At(r, "create") => links = {}

\* The last change is on record, and a request knows of no later password than
\* the present one.
LastChange ==
    /\ Second <= now /\ changedAt <= now /\ 1 <= epoch
    /\ epoch > 1 => changedAt \in changes /\ changedAt > 0
    /\ \A r \in Slots : work[r].step \in {"compare", "sign"} => 1 <= work[r].since /\ work[r].since <= epoch

\* Dates of a token: signed now or before, in the second it says.
Signed(t) ==
    /\ t.born <= t.at /\ t.at <= now
    /\ t.iat <= t.at /\ t.at < t.iat + Second
    /\ t.kind = "refresh" => t.born = t.at

\* A change the session outlived by grace.
Outlived(t) == \E c \in changes : t.born <= c /\ c < t.born + 2 * Second

\* A token knows the password its session was opened with; if that is not the
\* present one, a change followed the token's signing, unless there had been
\* one that the session outlived already.
Known(t) ==
    ~t.raced => /\ 1 <= t.epoch /\ t.epoch <= epoch
                /\ Outlived(t) \/ (t.epoch < epoch => t.at <= changedAt)

\* What a refresh found out is true until the next change.
FoundOut(r) ==
    S!At(r, "sign") =>
        /\ work[r].token \in tokens
        /\ work[r].token.kind = "refresh"
        /\ work[r].since = epoch => ~S!ChangedSince(work[r].token.iat, changedAt)

Dated == LastChange /\ (\A t \in tokens : Signed(t) /\ Known(t)) /\ (\A r \in Slots : FoundOut(r))

SInv == TypedSessions /\ Numbered /\ LinksTaken /\ OneByOne /\ Dated

-----------------------------------------------------------------------------
\* A date rounded to its second.
LEMMA Rounded ==
    ASSUME NEW t \in Nat, Second \in Nat \ {0}
    PROVE  S!SecondOf(t) \in Nat /\ S!SecondOf(t) <= t /\ t < S!SecondOf(t) + Second
  BY SMT DEF S!SecondOf

LEMMA SessionsBegin ==
    ASSUME Sensible, S!Init
    PROVE  SInv
<1> USE DEF Sensible, S!Init
<1>1. S!Free \in Works BY DEF S!Free, S!NoToken, Works, AnyWork, AnyToken, WorkSteps
<1>2. TypedSessions
  <2>1. bounds \in [S!Kinds -> Nat] OBVIOUS
  <2>2. work \in [Slots -> Works] BY <1>1
  <2>3. uses \in [S!Ids -> Nat] OBVIOUS
  <2>4. /\ now \in Nat /\ password \in Nat /\ epoch \in Nat /\ changedAt \in Nat /\ made \in 0..MaxLinks
        /\ changes \subseteq 0..now
    OBVIOUS
  <2>5. crossed \in BOOLEAN BY Zenon
  <2>6. links \subseteq [id : S!Ids, age : 0..LinkLife] /\ held \subseteq S!Ids OBVIOUS
  <2>7. \A k \in S!Kinds : bounds[k] \in Nat BY <2>1
  <2>8. S!TypeOK BY <2>3, <2>4, <2>5, <2>6, <2>7, Zenon DEF S!TypeOK
  <2>9. tokens \subseteq AnyToken OBVIOUS
  <2>10. QED BY <2>1, <2>2, <2>8, <2>9 DEF TypedSessions
<1>3. Numbered BY DEF Numbered
<1>4. \A r \in Slots : work[r].step = "idle" BY DEF S!Free
<1>5. LinksTaken BY <1>4 DEF LinksTaken, S!At
<1>6. OneByOne BY <1>4 DEF OneByOne, Replacing, S!At
<1>7. Dated BY <1>4 DEF Dated, LastChange, FoundOut, S!At
<1>8. QED BY <1>2, <1>3, <1>5, <1>6, <1>7 DEF SInv

LEMMA Spent ==
    ASSUME NEW k \in S!Kinds, bounds \in [S!Kinds -> Nat], S!Spend(k)
    PROVE  bounds' \in [S!Kinds -> Nat]
  BY DEF S!Spend

LEMMA Gone ==
    ASSUME NEW r \in Slots, NEW f \in Works, work \in [Slots -> Works], S!Goto(r, f)
    PROVE  work' \in [Slots -> Works] /\ work'[r] = f /\ \A s \in Slots \ {r} : work'[s] = work[s]
  BY DEF S!Goto

-----------------------------------------------------------------------------
(* Types. *)

LEMMA TypedToken ==
    ASSUME Sensible, TypedSessions, NEW k \in {"access", "refresh"}, NEW b \in Nat, NEW e \in Nat, NEW w \in BOOLEAN
    PROVE  S!Token(k, b, e, w) \in AnyToken
<1>1. now \in Nat /\ S!SecondOf(now) \in Nat BY Rounded DEF Sensible, TypedSessions, S!TypeOK
<1>2. QED BY <1>1 DEF S!Token, AnyToken

LEMMA SessionsTyped ==
    ASSUME Sensible, TypedSessions, S!Next
    PROVE  TypedSessions'
<1> USE DEF Sensible
<1>0. /\ now \in Nat /\ password \in Nat /\ epoch \in Nat /\ changedAt \in Nat /\ made \in 0..MaxLinks
      /\ links \subseteq [id : S!Ids, age : 0..LinkLife] /\ held \subseteq S!Ids /\ uses \in [S!Ids -> Nat]
      /\ changes \subseteq 0..now /\ crossed \in BOOLEAN /\ bounds \in [S!Kinds -> Nat]
      /\ work \in [Slots -> Works] /\ tokens \subseteq AnyToken
  BY DEF TypedSessions, S!TypeOK
<1> DEFINE Times  == now' \in Nat /\ password' \in Nat /\ epoch' \in Nat /\ changedAt' \in Nat /\ changes' \subseteq 0..now'
           Letters  == /\ made' \in 0..MaxLinks /\ links' \subseteq [id : S!Ids, age : 0..LinkLife] /\ held' \subseteq S!Ids
                     /\ uses' \in [S!Ids -> Nat] /\ crossed' \in BOOLEAN
           Budget == bounds' \in [S!Kinds -> Nat]
           Work   == work' \in [Slots -> Works]
           Signs  == tokens' \subseteq AnyToken
<1>a. Times /\ Letters /\ Budget /\ Work /\ Signs => TypedSessions' BY DEF TypedSessions, S!TypeOK
<1>b. \A k \in S!Kinds : S!Spend(k) => Budget BY <1>0, Spent
<1>c. UNCHANGED <<now, S!user>> => Times BY <1>0 DEF S!user
<1>d. UNCHANGED S!recovery => Letters BY <1>0 DEF S!recovery
<1>e. S!Free \in Works BY DEF S!Free, S!NoToken, Works, AnyWork, AnyToken, WorkSteps
<1>f. \A r \in Slots : S!Finish(r) => Work BY <1>0, <1>e, Gone DEF S!Finish
<1>g. \A r \in Slots : work[r] \in Works BY <1>0
<1>h. S!changePassword /\ UNCHANGED now => Times BY <1>0 DEF S!changePassword
<1>1. CASE S!Tick
  <2>1. Times BY <1>1, <1>0 DEF S!Tick, S!user
  <2>2. QED BY <1>1, <2>1, <1>0, <1>a, <1>b, <1>d DEF S!Tick, S!Kinds
<1>2. CASE S!Age
  <2>1. links' \subseteq [id : S!Ids, age : 0..LinkLife]
    <3> SUFFICES ASSUME NEW l \in links
                 PROVE  [l EXCEPT !.age = IF S!Alive(l) THEN @ + 1 ELSE @] \in [id : S!Ids, age : 0..LinkLife]
      BY <1>2 DEF S!Age
    <3>1. l \in [id : S!Ids, age : 0..LinkLife] BY <1>0
    <3>2. QED BY <3>1 DEF S!Alive
  <2>2. Letters BY <1>2, <2>1, <1>0 DEF S!Age
  <2>3. Budget
    <3>1. CASE S!Spend("expiries") BY <3>1, <1>b DEF S!Kinds
    <3>2. CASE UNCHANGED bounds BY <3>2, <1>0
    <3>3. QED BY <1>2, <3>1, <3>2 DEF S!Age
  <2>4. QED BY <1>2, <2>2, <2>3, <1>0, <1>a, <1>c DEF S!Age
<1>3. CASE S!AdminChange BY <1>3, <1>0, <1>a, <1>b, <1>d, <1>h DEF S!AdminChange, S!Kinds
<1>4. CASE S!UpdateUser
  <2>1. Times BY <1>4, <1>0 DEF S!UpdateUser
  <2>2. QED BY <1>4, <2>1, <1>0, <1>a, <1>b, <1>d DEF S!UpdateUser, S!Kinds
<1>5. CASE S!Purge
  <2>1. Letters BY <1>5, <1>0 DEF S!Purge
  <2>2. QED BY <1>5, <2>1, <1>0, <1>a, <1>c DEF S!Purge
<1>6. ASSUME NEW r \in Slots, S!Compared(r) PROVE TypedSessions'
  <2>1. work[r].since \in Nat BY <1>g DEF Works, AnyWork
  <2>2. \A k \in {"access", "refresh"} : S!Token(k, now, work[r].since, work[r].since # epoch) \in AnyToken
    BY <2>1, <1>0, TypedToken
  <2>3. Signs BY <1>6, <2>2, <1>0 DEF S!Compared
  <2>4. QED BY <1>6, <2>3, <1>0, <1>a, <1>c, <1>d, <1>f DEF S!Compared
<1>7. ASSUME NEW r \in Slots, S!Sign(r) PROVE TypedSessions'
  <2> DEFINE t == work[r].token
  <2>1. t \in AnyToken BY <1>g DEF Works, AnyWork
  <2>2. t.born \in Nat /\ t.epoch \in Nat /\ (t.raced \/ work[r].since # epoch) \in BOOLEAN BY <2>1 DEF AnyToken
  <2>3. S!Token("access", t.born, t.epoch, t.raced \/ work[r].since # epoch) \in AnyToken BY <2>2, TypedToken
  <2>4. Signs BY <1>7, <2>3, <1>0 DEF S!Sign
  <2>5. QED BY <1>7, <2>4, <1>0, <1>a, <1>c, <1>d, <1>f DEF S!Sign
<1>8. ASSUME NEW r \in Slots, S!DeleteOld(r) PROVE TypedSessions'
  <2>1. [work[r] EXCEPT !.step = "create"] \in Works BY <1>g DEF Works, AnyWork, WorkSteps
  <2>2. Work BY <1>8, <2>1, <1>0, Gone DEF S!DeleteOld
  <2>3. Letters BY <1>8, <1>0 DEF S!DeleteOld, S!Remaining
  <2>4. QED BY <1>8, <2>2, <2>3, <1>0, <1>a, <1>c DEF S!DeleteOld
<1>9. ASSUME NEW r \in Slots, S!CreateLink(r) PROVE TypedSessions'
  <2>1. made' \in 0..MaxLinks /\ made' \in S!Ids BY <1>9, <1>0 DEF S!CreateLink, S!Ids
  <2>2. [work[r] EXCEPT !.step = "mail", !.id = made'] \in Works BY <2>1, <1>g DEF Works, AnyWork, WorkSteps
  <2>3. Work BY <1>9, <2>2, <1>0, Gone DEF S!CreateLink
  <2>4. Letters BY <1>9, <2>1, <1>0 DEF S!CreateLink
  <2>5. QED BY <1>9, <2>3, <2>4, <1>0, <1>a, <1>c DEF S!CreateLink
<1>10. ASSUME NEW r \in Slots, S!SendLink(r) PROVE TypedSessions'
  <2>1. work[r].id \in S!Ids BY <1>10, <1>g DEF S!SendLink, S!At, Works, AnyWork
  <2>2. Letters
    <3>1. held' \subseteq S!Ids BY <1>10, <2>1, <1>0 DEF S!SendLink
    <3>2. QED BY <1>10, <3>1, <1>0 DEF S!SendLink
  <2>3. Budget BY <1>10, <1>0, <1>b DEF S!SendLink, S!Kinds
  <2>4. QED BY <1>10, <2>2, <2>3, <1>0, <1>a, <1>c, <1>f DEF S!SendLink
<1>11. ASSUME NEW r \in Slots, S!ChangeByLink(r) PROVE TypedSessions'
  <2>1. [work[r] EXCEPT !.step = "others"] \in Works BY <1>g DEF Works, AnyWork, WorkSteps
  <2>2. Work BY <1>11, <2>1, <1>0, Gone DEF S!ChangeByLink
  <2>a. work[r].id \in S!Ids BY <1>11, <1>g DEF S!ChangeByLink, S!At, Works, AnyWork
  <2>3. uses' \in [S!Ids -> Nat] BY <1>11, <2>a, <1>0 DEF S!ChangeByLink
  <2>4. Letters BY <1>11, <2>3, <1>0 DEF S!ChangeByLink
  <2>5. QED BY <1>11, <2>2, <2>4, <1>0, <1>a, <1>h DEF S!ChangeByLink
<1>12. ASSUME NEW r \in Slots, S!DeleteOthers(r) PROVE TypedSessions'
  <2>1. Letters BY <1>12, <1>0 DEF S!DeleteOthers
  <2>2. QED BY <1>12, <2>1, <1>0, <1>a, <1>c, <1>f DEF S!DeleteOthers
<1>13. ASSUME NEW r \in Slots, S!Fault(r) PROVE TypedSessions'
  BY <1>13, <1>0, <1>a, <1>b, <1>c, <1>d, <1>f DEF S!Fault, S!Kinds
<1>14. ASSUME NEW r \in Slots, S!Login(r) PROVE TypedSessions'
  <2>1. [S!Free EXCEPT !.step = "compare", !.seen = password, !.since = epoch] \in Works
    BY <1>e, <1>0 DEF Works, AnyWork, WorkSteps
  <2>2. Work BY <1>14, <2>1, <1>0, Gone DEF S!Login
  <2>3. QED BY <1>14, <2>2, <1>0, <1>a, <1>b, <1>c, <1>d DEF S!Login, S!Kinds
<1>15. ASSUME NEW r \in Slots, S!forgotPassword(r), Budget PROVE TypedSessions'
  <2>1. [S!Free EXCEPT !.step = "delete"] \in Works BY <1>e DEF Works, AnyWork, WorkSteps
  <2>2. Work BY <1>15, <2>1, <1>0, Gone DEF S!forgotPassword
  <2>3. Letters BY <1>15, <1>0 DEF S!forgotPassword
  <2>4. QED BY <1>15, <2>2, <2>3, <1>0, <1>a, <1>c DEF S!forgotPassword
<1>16. ASSUME NEW r \in Slots, NEW t \in tokens, S!Refresh(r, t) PROVE TypedSessions'
  <2>1. t \in AnyToken BY <1>0
  <2>2. [S!Free EXCEPT !.step = "sign", !.since = epoch, !.token = t] \in Works
    BY <2>1, <1>e, <1>0 DEF Works, AnyWork, WorkSteps
  <2>3. Work
    <3>1. CASE UNCHANGED work BY <3>1, <1>0
    <3>2. CASE S!Goto(r, [S!Free EXCEPT !.step = "sign", !.since = epoch, !.token = t]) BY <3>2, <2>2, <1>0, Gone
    <3>3. QED BY <1>16, <3>1, <3>2 DEF S!Refresh
  <2>4. QED BY <1>16, <2>3, <1>0, <1>a, <1>b, <1>c, <1>d DEF S!Refresh, S!Kinds
<1>17. ASSUME NEW r \in Slots, NEW i \in S!Ids, S!resetPassword(r, i) PROVE TypedSessions'
  <2>1. [S!Free EXCEPT !.step = "change", !.id = i] \in Works BY <1>e DEF Works, AnyWork, WorkSteps
  <2>2. Work BY <1>17, <2>1, <1>0, Gone DEF S!resetPassword
  <2>3. Letters BY <1>17, <1>0 DEF S!resetPassword, S!Consumed
  <2>4. QED BY <1>17, <2>2, <2>3, <1>0, <1>a, <1>c DEF S!resetPassword
<1>18. ASSUME NEW r \in Slots, S!AskAgain(r) PROVE TypedSessions' BY <1>18, <1>15, <1>b DEF S!AskAgain, S!Kinds
<1>19. ASSUME NEW r \in Slots, S!AskForOne(r) PROVE TypedSessions' BY <1>19, <1>15, <1>0 DEF S!AskForOne
<1>20. QED
  BY <1>1, <1>2, <1>3, <1>4, <1>5, <1>6, <1>7, <1>8, <1>9, <1>10, <1>11, <1>12, <1>13, <1>14,
     <1>16, <1>17, <1>18, <1>19 DEF S!Next, S!Step

-----------------------------------------------------------------------------
(* Links. *)

Links == Numbered /\ LinksTaken /\ OneByOne

\* A step that makes no link and uses none, and after which nobody has gone
\* further on the way to one.
LEMMA QuietLinks ==
    ASSUME TypedSessions, Links, UNCHANGED <<made, uses, crossed>>, links' \subseteq links,
           \A s \in Slots : work'[s] = work[s] \/ work'[s].step \notin {"delete", "create", "change"}
    PROVE  Links'
<1>1. Numbered' BY DEF Links, Numbered
<1>2. LinksTaken' BY DEF Links, LinksTaken, S!At
<1>3. OneByOne' BY DEF Links, OneByOne, S!At, Replacing
<1>4. QED BY <1>1, <1>2, <1>3 DEF Links

LEMMA Quiet ==
    ASSUME NEW r \in Slots, TypedSessions, S!Finish(r)
    PROVE  \A s \in Slots : work'[s] = work[s] \/ work'[s].step \notin {"delete", "create", "change"}
<1>1. work'[r] = S!Free /\ \A s \in Slots \ {r} : work'[s] = work[s] BY DEF S!Finish, S!Goto, TypedSessions
<1>2. QED BY <1>1 DEF S!Free

LEMMA AgeLinks ==
    ASSUME TypedSessions, Links, S!Age
    PROVE  Links'
<1>1. links' = {[l EXCEPT !.age = IF S!Alive(l) THEN @ + 1 ELSE @] : l \in links} BY DEF S!Age
<1>2. UNCHANGED <<made, uses, crossed, work>> BY DEF S!Age
<1>3. \A m \in links' : \E l \in links : m = [l EXCEPT !.age = IF S!Alive(l) THEN @ + 1 ELSE @] BY <1>1
<1>4. \A l \in links : [l EXCEPT !.age = IF S!Alive(l) THEN @ + 1 ELSE @].id = l.id BY DEF TypedSessions, S!TypeOK
<1>5. \A m \in links' : \E l \in links : m.id = l.id BY <1>3, <1>4
<1>6. ASSUME NEW m \in links', NEW n \in links', m.id = n.id PROVE m = n
  <2>1. PICK l \in links : m = [l EXCEPT !.age = IF S!Alive(l) THEN @ + 1 ELSE @] BY <1>3
  <2>2. PICK k \in links : n = [k EXCEPT !.age = IF S!Alive(k) THEN @ + 1 ELSE @] BY <1>3
  <2>3. l.id = k.id BY <1>4, <1>6, <2>1, <2>2
  <2>4. l = k BY <2>3 DEF Links, Numbered
  <2>5. QED BY <2>1, <2>2, <2>4
<1>7. Numbered' BY <1>2, <1>5, <1>6 DEF Links, Numbered
<1>8. LinksTaken' BY <1>2, <1>5 DEF Links, LinksTaken, S!At
<1>9. OneByOne'
  <2>1. (\A l, m \in links : l = m) => \A l, m \in links' : l = m BY <1>3
  <2>2. links = {} => links' = {} BY <1>1
  <2>3. QED BY <1>2, <2>1, <2>2 DEF Links, OneByOne, S!At, Replacing
<1>10. QED BY <1>7, <1>8, <1>9 DEF Links

LEMMA LinksStay ==
    ASSUME Sensible, TypedSessions, Links, S!Next
    PROVE  Links'
<1>0. /\ work \in [Slots -> Works] /\ made \in Nat /\ links \subseteq [id : S!Ids, age : 0..LinkLife]
      /\ uses \in [S!Ids -> Nat]
  BY DEF Sensible, TypedSessions, S!TypeOK
<1> DEFINE Calm == \A s \in Slots : work'[s] = work[s] \/ work'[s].step \notin {"delete", "create", "change"}
<1>a. \A r \in Slots : S!Finish(r) => Calm BY Quiet
<1>b. UNCHANGED work => Calm OBVIOUS
<1>1. CASE S!Tick BY <1>1, <1>b, QuietLinks DEF S!Tick, S!recovery
<1>2. CASE S!Age BY <1>2, AgeLinks
<1>3. CASE S!AdminChange BY <1>3, <1>b, QuietLinks DEF S!AdminChange, S!recovery
<1>4. CASE S!UpdateUser BY <1>4, <1>b, QuietLinks DEF S!UpdateUser, S!recovery
<1>5. CASE S!Purge
  <2>1. links' \subseteq links BY <1>5 DEF S!Purge
  <2>2. QED BY <1>5, <2>1, <1>b, QuietLinks DEF S!Purge
<1>6. ASSUME NEW r \in Slots, S!Compared(r) PROVE Links' BY <1>6, <1>a, QuietLinks DEF S!Compared, S!recovery
<1>7. ASSUME NEW r \in Slots, S!Sign(r) PROVE Links' BY <1>7, <1>a, QuietLinks DEF S!Sign, S!recovery
<1>8. ASSUME NEW r \in Slots, S!DeleteOld(r) PROVE Links'
  <2>1. [work[r] EXCEPT !.step = "create"].step = "create" BY <1>0 DEF Works, AnyWork
  <2>2. work'[r].step = "create" /\ \A s \in Slots \ {r} : work'[s] = work[s] BY <1>8, <2>1, <1>0 DEF S!DeleteOld, S!Goto
  <2>3. links' = {} /\ UNCHANGED <<made, uses, crossed>> BY <1>8 DEF S!DeleteOld, S!Remaining
  <2>4. Numbered' BY <2>3 DEF Numbered
  <2>5. LinksTaken' BY <2>2, <2>3 DEF Links, LinksTaken, S!At
  <2>6. OneByOne' BY <1>8, <2>2, <2>3 DEF Links, OneByOne, S!At, Replacing, S!DeleteOld
  <2>7. QED BY <2>4, <2>5, <2>6 DEF Links
<1>9. ASSUME NEW r \in Slots, S!CreateLink(r) PROVE Links'
  <2> DEFINE new == [id |-> made', age |-> 0]
  <2>1. [work[r] EXCEPT !.step = "mail", !.id = made'].step = "mail" BY <1>0 DEF Works, AnyWork
  <2>2. work'[r].step = "mail" /\ \A s \in Slots \ {r} : work'[s] = work[s] BY <1>9, <2>1, <1>0 DEF S!CreateLink, S!Goto
  <2>3. made' = made + 1 /\ links' = links \cup {new} /\ UNCHANGED <<uses, crossed>> BY <1>9 DEF S!CreateLink
  <2>4. \A l \in links : l.id \in Nat /\ l.id <= made BY <1>0 DEF Links, Numbered, S!Ids
  <2>5. new.id = made + 1 BY <2>3
  <2>6. Numbered' BY <2>3, <2>4, <2>5, <1>0 DEF Links, Numbered
  <2>7. LinksTaken'
    <3>1. \A i \in S!Ids : uses[i] = 1 => i <= made /\ i # new.id BY <2>5, <1>0 DEF Links, LinksTaken, S!Ids
    <3>2. \A s \in Slots : S!At(s, "change") => work[s].id \in S!Ids /\ work[s].id <= made /\ work[s].id # new.id
      BY <2>5, <1>0 DEF Links, LinksTaken, S!At, S!Ids, Works, AnyWork
    <3>3. \A s \in Slots : S!At(s, "change")' => S!At(s, "change") /\ work'[s].id = work[s].id BY <2>2 DEF S!At
    <3>4. \A i \in S!Ids : uses'[i] = uses[i] /\ i \in Nat BY <2>3 DEF S!Ids
    <3>5. \A i \in S!Ids : uses'[i] <= 1 BY <3>4 DEF Links, LinksTaken
    <3>6. \A i \in S!Ids : uses'[i] = 1 => /\ i <= made'
                                           /\ \A l \in links' : l.id # i
                                           /\ \A s \in Slots : S!At(s, "change")' => work'[s].id # i
      BY <3>1, <3>3, <3>4, <2>3, <1>0 DEF Links, LinksTaken
    <3>7. \A s \in Slots : S!At(s, "change")' => work'[s].id <= made' /\ \A l \in links' : l.id # work'[s].id
      BY <3>2, <3>3, <2>3, <1>0 DEF Links, LinksTaken, S!Ids
    <3>8. \A s, q \in Slots : S!At(s, "change")' /\ S!At(q, "change")' /\ work'[s].id = work'[q].id => s = q
      BY <3>3 DEF Links, LinksTaken
    <3>9. QED BY <3>5, <3>6, <3>7, <3>8 DEF LinksTaken
  <2>8. OneByOne' BY <1>9, <2>2, <2>3 DEF Links, OneByOne, S!At, Replacing, S!CreateLink
  <2>9. QED BY <2>6, <2>7, <2>8 DEF Links
<1>10. ASSUME NEW r \in Slots, S!SendLink(r) PROVE Links' BY <1>10, <1>a, QuietLinks DEF S!SendLink
<1>11. ASSUME NEW r \in Slots, S!ChangeByLink(r) PROVE Links'
  <2> DEFINE i == work[r].id
  <2>1. [work[r] EXCEPT !.step = "others"].step = "others" BY <1>0 DEF Works, AnyWork
  <2>2. work'[r].step = "others" /\ \A s \in Slots \ {r} : work'[s] = work[s]
    BY <1>11, <2>1, <1>0 DEF S!ChangeByLink, S!Goto
  <2>3. UNCHANGED <<links, made, crossed>> /\ S!At(r, "change") /\ i \in S!Ids
    BY <1>11, <1>0 DEF S!ChangeByLink, S!At, Works, AnyWork
  <2>4. uses'[i] = uses[i] + 1 /\ \A j \in S!Ids \ {i} : uses'[j] = uses[j] BY <1>11, <2>3, <1>0 DEF S!ChangeByLink
  <2>5. uses[i] = 0 BY <2>3, <1>0 DEF Links, LinksTaken
  <2>6. LinksTaken' BY <2>2, <2>3, <2>4, <2>5 DEF Links, LinksTaken, S!At
  <2>7. Numbered' BY <2>3 DEF Links, Numbered
  <2>8. OneByOne' BY <2>2, <2>3 DEF Links, OneByOne, S!At, Replacing
  <2>9. QED BY <2>6, <2>7, <2>8 DEF Links
<1>12. ASSUME NEW r \in Slots, S!DeleteOthers(r) PROVE Links'
  BY <1>12, <1>a, QuietLinks DEF S!DeleteOthers
<1>13. ASSUME NEW r \in Slots, S!Fault(r) PROVE Links' BY <1>13, <1>a, QuietLinks DEF S!Fault, S!recovery
<1>14. ASSUME NEW r \in Slots, S!Login(r) PROVE Links'
  <2>1. Calm BY <1>14, <1>0 DEF S!Login, S!Goto, S!Free
  <2>2. QED BY <1>14, <2>1, QuietLinks DEF S!Login, S!recovery
<1>15. ASSUME NEW r \in Slots, S!forgotPassword(r) PROVE Links'
  <2>1. work'[r].step = "delete" /\ \A s \in Slots \ {r} : work'[s] = work[s]
    BY <1>15, <1>0 DEF S!forgotPassword, S!Goto, S!Free
  <2>2. UNCHANGED <<links, made, uses>> BY <1>15 DEF S!forgotPassword
  <2>3. crossed' = (crossed \/ \E s \in Slots : work[s].step \in {"delete", "create"}) BY <1>15 DEF S!forgotPassword
  <2>4. Numbered' BY <2>2 DEF Links, Numbered
  <2>5. LinksTaken' BY <2>1, <2>2 DEF Links, LinksTaken, S!At
  <2>6. OneByOne' BY <2>1, <2>2, <2>3 DEF Links, OneByOne, S!At, Replacing
  <2>7. QED BY <2>4, <2>5, <2>6 DEF Links
<1>16. ASSUME NEW r \in Slots, NEW t \in tokens, S!Refresh(r, t) PROVE Links'
  <2>1. Calm
    <3>1. CASE UNCHANGED work BY <3>1
    <3>2. CASE S!Goto(r, [S!Free EXCEPT !.step = "sign", !.since = epoch, !.token = t]) BY <3>2, <1>0 DEF S!Goto, S!Free
    <3>3. QED BY <1>16, <3>1, <3>2 DEF S!Refresh
  <2>2. QED BY <1>16, <2>1, QuietLinks DEF S!Refresh, S!recovery
<1>17. ASSUME NEW r \in Slots, NEW i \in S!Ids, S!resetPassword(r, i) PROVE Links'
  <2>1. CASE UNCHANGED <<links, work>> BY <1>17, <2>1, <1>b, QuietLinks DEF S!resetPassword
  <2>2. ASSUME NEW l \in links, l.id = i, links' = S!Consumed(l), S!Goto(r, [S!Free EXCEPT !.step = "change", !.id = i])
        PROVE  Links'
    <3>1. links' = links \ {l} BY <2>2 DEF S!Consumed
    <3>2. UNCHANGED <<made, uses, crossed>> BY <1>17 DEF S!resetPassword
    <3>3. work'[r].step = "change" /\ work'[r].id = i /\ \A s \in Slots \ {r} : work'[s] = work[s]
      BY <2>2, <1>0 DEF S!Goto, S!Free
    <3>4. \A m \in links' : m.id # i BY <3>1, <2>2 DEF Links, Numbered
    <3>5. uses[i] # 1 /\ i <= made /\ \A s \in Slots : S!At(s, "change") => work[s].id # i
      BY <2>2 DEF Links, LinksTaken, Numbered
    <3>6. LinksTaken' BY <3>1, <3>2, <3>3, <3>4, <3>5 DEF Links, LinksTaken, S!At
    <3>7. Numbered' BY <3>1, <3>2 DEF Links, Numbered
    <3>8. OneByOne' BY <3>1, <3>2, <3>3 DEF Links, OneByOne, S!At, Replacing
    <3>9. QED BY <3>6, <3>7, <3>8 DEF Links
  <2>3. QED BY <1>17, <2>1, <2>2 DEF S!resetPassword
<1>18. ASSUME NEW r \in Slots, S!AskAgain(r) PROVE Links' BY <1>18, <1>15 DEF S!AskAgain
<1>19. ASSUME NEW r \in Slots, S!AskForOne(r) PROVE Links' BY <1>19, <1>15 DEF S!AskForOne
<1>20. QED
  BY <1>1, <1>2, <1>3, <1>4, <1>5, <1>6, <1>7, <1>8, <1>9, <1>10, <1>11, <1>12, <1>13, <1>14,
     <1>16, <1>17, <1>18, <1>19 DEF S!Next, S!Step

-----------------------------------------------------------------------------
(* Sessions. *)

\* A step that changes nothing a session depends on, and after which no request
\* for one has gone further.
LEMMA QuietDates ==
    ASSUME TypedSessions, Dated, now' \in Nat, now <= now', UNCHANGED <<epoch, changedAt, changes, tokens>>, Second \in Nat,
           \A s \in Slots : work'[s] = work[s] \/ work'[s].step \notin {"compare", "sign"}
    PROVE  Dated'
<1>0. /\ now \in Nat /\ changedAt \in Nat /\ epoch \in Nat /\ tokens \subseteq AnyToken
  BY DEF TypedSessions, S!TypeOK
<1>1. LastChange' BY <1>0 DEF Dated, LastChange
<1>2. ASSUME NEW t \in tokens' PROVE Signed(t)' /\ Known(t)'
  <2>1. t \in tokens /\ t.at \in Nat BY <1>0, <1>2 DEF AnyToken
  <2>2. Signed(t)' BY <1>0, <2>1 DEF Dated, Signed
  <2>3. Known(t)' BY <2>1 DEF Dated, Known, Outlived
  <2>4. QED BY <2>2, <2>3
<1>3. \A r \in Slots : FoundOut(r)' BY DEF Dated, FoundOut, S!At, S!ChangedSince
<1>4. QED BY <1>1, <1>2, <1>3 DEF Dated

LEMMA QuietEnd ==
    ASSUME NEW r \in Slots, TypedSessions, S!Finish(r)
    PROVE  \A s \in Slots : work'[s] = work[s] \/ work'[s].step \notin {"compare", "sign"}
<1>1. work'[r] = S!Free /\ \A s \in Slots \ {r} : work'[s] = work[s] BY DEF S!Finish, S!Goto, TypedSessions
<1>2. QED BY <1>1 DEF S!Free

\* The password gets a new date: whatever is signed was signed before it.
LEMMA ChangeDates ==
    ASSUME Sensible, TypedSessions, Dated, S!changePassword, UNCHANGED <<now, tokens>>,
           \A s \in Slots : work'[s] = work[s] \/ work'[s].step \notin {"compare", "sign"}
    PROVE  Dated'
<1>0. /\ now \in Nat /\ changedAt \in Nat /\ epoch \in Nat /\ tokens \subseteq AnyToken
      /\ work \in [Slots -> Works]
      /\ Second \in Nat \ {0}
  BY DEF TypedSessions, S!TypeOK, Sensible
<1>1. epoch' = epoch + 1 /\ changedAt' = now /\ changes' = changes \cup {now} BY DEF S!changePassword
<1>2. LastChange'
  <2>1. \A s \in Slots : work[s].since \in Nat BY <1>0 DEF Works, AnyWork
  <2>2. \A s \in Slots : work'[s].step \in {"compare", "sign"} => 1 <= work'[s].since /\ work'[s].since <= epoch'
    BY <1>0, <1>1, <2>1 DEF Dated, LastChange
  <2>3. QED BY <1>0, <1>1, <2>2 DEF Dated, LastChange
<1>3. ASSUME NEW t \in tokens' PROVE Signed(t)' /\ Known(t)'
  <2>1. t \in tokens /\ t.at \in Nat /\ t.epoch \in Nat BY <1>0, <1>3 DEF AnyToken
  <2>2. Signed(t) /\ Known(t) BY <2>1 DEF Dated
  <2>3. Signed(t)' BY <2>2 DEF Signed
  <2>4. Known(t)' BY <1>0, <1>1, <2>1, <2>2 DEF Signed, Known, Outlived
  <2>5. QED BY <2>3, <2>4
<1>4. ASSUME NEW s \in Slots PROVE FoundOut(s)'
  <2>1. work[s].since \in Nat BY <1>0 DEF Works, AnyWork
  <2>2. S!At(s, "sign")' => work'[s] = work[s] /\ work[s].since <= epoch BY DEF S!At, Dated, LastChange
  <2>3. QED BY <1>0, <1>1, <2>1, <2>2 DEF Dated, FoundOut, S!At
<1>5. QED BY <1>2, <1>3, <1>4 DEF Dated

\* A new token of a session that knows the present password, or has outlived
\* its change.
LEMMA NewToken ==
    ASSUME Sensible, TypedSessions, Dated, NEW k \in {"access", "refresh"}, NEW b \in Nat, NEW e \in Nat, NEW w \in BOOLEAN,
           b <= now, k = "refresh" => b = now,
           ~w => 1 <= e /\ e <= epoch /\ (e < epoch => \E c \in changes : b <= c /\ c < b + 2 * Second)
    PROVE  Signed(S!Token(k, b, e, w)) /\ Known(S!Token(k, b, e, w))
<1>1. now \in Nat /\ Second \in Nat \ {0} /\ epoch \in Nat BY DEF Sensible, TypedSessions, S!TypeOK
<1>2. S!SecondOf(now) \in Nat /\ S!SecondOf(now) <= now /\ now < S!SecondOf(now) + Second BY <1>1, Rounded
<1>3. Signed(S!Token(k, b, e, w)) BY <1>1, <1>2 DEF Signed, S!Token
<1>4. Known(S!Token(k, b, e, w)) BY <1>1 DEF Known, Outlived, S!Token
<1>5. QED BY <1>3, <1>4

LEMMA DatesStay ==
    ASSUME Sensible, TypedSessions, Dated, S!Next
    PROVE  Dated'
<1>0. /\ work \in [Slots -> Works] /\ tokens \subseteq AnyToken /\ now \in Nat /\ epoch \in Nat /\ changedAt \in Nat
      /\ Second \in Nat \ {0}
  BY DEF Sensible, TypedSessions, S!TypeOK
<1> DEFINE Calm == \A s \in Slots : work'[s] = work[s] \/ work'[s].step \notin {"compare", "sign"}
<1>a. \A r \in Slots : S!Finish(r) => Calm BY QuietEnd
<1>b. UNCHANGED work => Calm OBVIOUS
<1>c. Calm /\ UNCHANGED <<now, S!user, tokens>> => Dated' BY <1>0, QuietDates DEF S!user
<1>d. ASSUME NEW r \in Slots, NEW f, f.step \notin {"compare", "sign"}, S!Goto(r, f) PROVE Calm BY <1>d, <1>0 DEF S!Goto
<1>e. \A r \in Slots : work[r] \in AnyWork BY <1>0 DEF Works
<1>1. CASE S!Tick BY <1>1, <1>0, <1>b, QuietDates DEF S!Tick, S!user
<1>2. CASE S!Age BY <1>2, <1>b, <1>c DEF S!Age
<1>3. CASE S!AdminChange BY <1>3, <1>b, ChangeDates DEF S!AdminChange
<1>4. CASE S!UpdateUser BY <1>4, <1>0, <1>b, QuietDates DEF S!UpdateUser
<1>5. CASE S!Purge BY <1>5, <1>b, <1>c DEF S!Purge
<1>6. ASSUME NEW r \in Slots, S!Compared(r) PROVE Dated'
  <2> DEFINE e == work[r].since
             new(k) == S!Token(k, now, e, e # epoch)
  <2>1. e \in Nat /\ 1 <= e /\ e <= epoch BY <1>6, <1>e DEF S!Compared, S!At, AnyWork, Dated, LastChange
  <2>2. tokens' = tokens \cup {new(k) : k \in {"access", "refresh"}} /\ Calm /\ UNCHANGED <<now, S!user>>
    BY <1>6, <1>a DEF S!Compared
  <2>3. ASSUME NEW k \in {"access", "refresh"} PROVE Signed(new(k)) /\ Known(new(k))
    <3>1. (e # epoch) \in BOOLEAN /\ now <= now BY <1>0
    <3>2. ~(e # epoch) => 1 <= e /\ e <= epoch /\ (e < epoch => \E c \in changes : now <= c /\ c < now + 2 * Second)
      BY <2>1, <1>0
    <3>3. QED BY <3>1, <3>2, <2>1, <1>0, NewToken
  <2>4. \A t \in tokens' : Signed(t)' /\ Known(t)' BY <2>2, <2>3 DEF Dated, Signed, Known, Outlived, S!user
  <2>5. LastChange' BY <2>2 DEF Dated, LastChange, S!user
  <2>6. \A s \in Slots : FoundOut(s)' BY <2>2 DEF Dated, FoundOut, S!At, S!ChangedSince, S!user
  <2>7. QED BY <2>4, <2>5, <2>6 DEF Dated
<1>7. ASSUME NEW r \in Slots, S!Sign(r) PROVE Dated'
  <2> DEFINE t == work[r].token
             w == t.raced \/ work[r].since # epoch
             new == S!Token("access", t.born, t.epoch, w)
  <2>1. /\ t \in tokens /\ t \in AnyToken /\ t.kind = "refresh" /\ Signed(t) /\ Known(t)
        /\ work[r].since = epoch => ~S!ChangedSince(t.iat, changedAt)
    BY <1>7, <1>0 DEF S!Sign, S!At, Dated, FoundOut
  <2>2. t.born \in Nat /\ t.at \in Nat /\ t.iat \in Nat /\ t.epoch \in Nat /\ w \in BOOLEAN BY <2>1 DEF AnyToken
  <2>3. t.born <= now /\ t.born = t.at /\ t.at < t.iat + Second /\ t.iat <= t.at BY <2>1, <2>2, <1>0 DEF Signed
  <2>4. ASSUME ~w PROVE 1 <= t.epoch /\ t.epoch <= epoch
                        /\ (t.epoch < epoch => \E c \in changes : t.born <= c /\ c < t.born + 2 * Second)
    <3>1. ~t.raced /\ work[r].since = epoch BY <2>4
    <3>2. 1 <= t.epoch /\ t.epoch <= epoch BY <3>1, <2>1 DEF Known
    <3>3. ASSUME t.epoch < epoch, ~Outlived(t) PROVE \E c \in changes : t.born <= c /\ c < t.born + 2 * Second
      <4>1. t.at <= changedAt BY <3>1, <3>3, <2>1 DEF Known
      <4>2. changedAt \in changes /\ changedAt > 0 BY <3>2, <3>3, <2>2, <1>0 DEF Dated, LastChange
      <4>3. changedAt <= t.iat + Second BY <3>1, <4>2, <2>1, <2>2, <1>0 DEF S!ChangedSince
      <4>4. changedAt < t.born + 2 * Second BY <4>3, <2>2, <2>3, <1>0
      <4>5. QED BY <4>1, <4>2, <4>4, <2>3
    <3>4. QED BY <3>2, <3>3 DEF Outlived
  <2>5. Signed(new) /\ Known(new) BY <2>2, <2>3, <2>4, NewToken
  <2>6. tokens' = tokens \cup {new} /\ Calm /\ UNCHANGED <<now, S!user>> BY <1>7, <1>a DEF S!Sign
  <2>7. \A u \in tokens' : Signed(u)' /\ Known(u)' BY <2>5, <2>6 DEF Dated, Signed, Known, Outlived, S!user
  <2>8. LastChange' BY <2>6 DEF Dated, LastChange, S!user
  <2>9. \A s \in Slots : FoundOut(s)' BY <2>6 DEF Dated, FoundOut, S!At, S!ChangedSince, S!user
  <2>10. QED BY <2>7, <2>8, <2>9 DEF Dated
<1>8. ASSUME NEW r \in Slots, S!DeleteOld(r) PROVE Dated'
  <2>1. [work[r] EXCEPT !.step = "create"].step = "create" BY <1>e DEF AnyWork
  <2>2. Calm BY <1>8, <1>d, <2>1 DEF S!DeleteOld
  <2>3. QED BY <1>8, <2>2, <1>c DEF S!DeleteOld
<1>9. ASSUME NEW r \in Slots, S!CreateLink(r) PROVE Dated'
  <2>1. [work[r] EXCEPT !.step = "mail", !.id = made'].step = "mail" BY <1>e DEF AnyWork
  <2>2. Calm BY <1>9, <1>d, <2>1 DEF S!CreateLink
  <2>3. QED BY <1>9, <2>2, <1>c DEF S!CreateLink
<1>10. ASSUME NEW r \in Slots, S!SendLink(r) PROVE Dated' BY <1>10, <1>a, <1>c DEF S!SendLink
<1>11. ASSUME NEW r \in Slots, S!ChangeByLink(r) PROVE Dated'
  <2>1. [work[r] EXCEPT !.step = "others"].step = "others" BY <1>e DEF AnyWork
  <2>2. Calm BY <1>11, <1>d, <2>1 DEF S!ChangeByLink
  <2>3. QED BY <1>11, <2>2, ChangeDates DEF S!ChangeByLink
<1>12. ASSUME NEW r \in Slots, S!DeleteOthers(r) PROVE Dated' BY <1>12, <1>a, <1>c DEF S!DeleteOthers
<1>13. ASSUME NEW r \in Slots, S!Fault(r) PROVE Dated' BY <1>13, <1>a, <1>c DEF S!Fault
<1>14. ASSUME NEW r \in Slots, S!Login(r) PROVE Dated'
  <2> DEFINE f == [S!Free EXCEPT !.step = "compare", !.seen = password, !.since = epoch]
  <2>1. f.step = "compare" /\ f.since = epoch BY DEF S!Free
  <2>2. work'[r] = f /\ \A s \in Slots \ {r} : work'[s] = work[s] BY <1>14, <1>0 DEF S!Login, S!Goto
  <2>3. UNCHANGED <<now, S!user, tokens>> BY <1>14 DEF S!Login
  <2>a. ASSUME NEW s \in Slots, work'[s].step \in {"compare", "sign"} PROVE 1 <= work'[s].since /\ work'[s].since <= epoch
    <3>1. CASE s = r
      <4>1. work'[s].since = epoch /\ 1 <= epoch BY <3>1, <2>1, <2>2 DEF Dated, LastChange
      <4>2. QED BY <4>1, <1>0
    <3>2. CASE s # r
      <4>1. work'[s] = work[s] BY <3>2, <2>1, <2>2
      <4>2. QED BY <4>1, <2>a DEF Dated, LastChange
    <3>3. QED BY <3>1, <3>2
  <2>4. LastChange' BY <2>3, <2>a DEF Dated, LastChange, S!user
  <2>5. \A t \in tokens' : Signed(t)' /\ Known(t)' BY <2>3 DEF Dated, Signed, Known, Outlived, S!user
  <2>6. \A s \in Slots : FoundOut(s)' BY <2>1, <2>2, <2>3 DEF Dated, FoundOut, S!At, S!ChangedSince, S!user
  <2>7. QED BY <2>4, <2>5, <2>6 DEF Dated
<1>15. ASSUME NEW r \in Slots, S!forgotPassword(r) PROVE Dated'
  <2>1. [S!Free EXCEPT !.step = "delete"].step = "delete" BY DEF S!Free
  <2>2. Calm BY <1>15, <1>d, <2>1 DEF S!forgotPassword
  <2>3. QED BY <1>15, <2>2, <1>c DEF S!forgotPassword
<1>16. ASSUME NEW r \in Slots, NEW t \in tokens, S!Refresh(r, t) PROVE Dated'
  <2> DEFINE f == [S!Free EXCEPT !.step = "sign", !.since = epoch, !.token = t]
  <2>1. UNCHANGED <<now, S!user, tokens>> /\ t.kind = "refresh" BY <1>16 DEF S!Refresh
  <2>2. CASE UNCHANGED work BY <2>1, <2>2, <1>b, <1>c
  <2>3. CASE S!RefreshChecks(t) /\ S!Goto(r, f)
    <3>1. f.step = "sign" /\ f.since = epoch /\ f.token = t BY DEF S!Free
    <3>2. work'[r] = f /\ \A s \in Slots \ {r} : work'[s] = work[s] BY <2>3, <1>0 DEF S!Goto
    <3>a. ASSUME NEW s \in Slots, work'[s].step \in {"compare", "sign"} PROVE 1 <= work'[s].since /\ work'[s].since <= epoch
      <4>1. CASE s = r
        <5>1. work'[s].since = epoch /\ 1 <= epoch BY <4>1, <3>1, <3>2 DEF Dated, LastChange
        <5>2. QED BY <5>1, <1>0
      <4>2. CASE s # r
        <5>1. work'[s] = work[s] BY <4>2, <3>1, <3>2
        <5>2. QED BY <5>1, <3>a DEF Dated, LastChange
      <4>3. QED BY <4>1, <4>2
    <3>3. LastChange' BY <2>1, <3>a DEF Dated, LastChange, S!user
    <3>4. \A u \in tokens' : Signed(u)' /\ Known(u)' BY <2>1 DEF Dated, Signed, Known, Outlived, S!user
    <3>5. \A s \in Slots : FoundOut(s)' BY <2>1, <2>3, <3>1, <3>2 DEF Dated, FoundOut, S!At, S!ChangedSince, S!RefreshChecks, S!user
    <3>6. QED BY <3>3, <3>4, <3>5 DEF Dated
  <2>4. QED BY <1>16, <2>2, <2>3 DEF S!Refresh
<1>17. ASSUME NEW r \in Slots, NEW i \in S!Ids, S!resetPassword(r, i) PROVE Dated'
  <2>1. [S!Free EXCEPT !.step = "change", !.id = i].step = "change" BY DEF S!Free
  <2>2. Calm BY <1>17, <1>b, <1>d, <2>1 DEF S!resetPassword
  <2>3. QED BY <1>17, <2>2, <1>c DEF S!resetPassword
<1>18. ASSUME NEW r \in Slots, S!AskAgain(r) PROVE Dated' BY <1>18, <1>15 DEF S!AskAgain
<1>19. ASSUME NEW r \in Slots, S!AskForOne(r) PROVE Dated' BY <1>19, <1>15 DEF S!AskForOne
<1>20. QED
  BY <1>1, <1>2, <1>3, <1>4, <1>5, <1>6, <1>7, <1>8, <1>9, <1>10, <1>11, <1>12, <1>13, <1>14,
     <1>16, <1>17, <1>18, <1>19 DEF S!Next, S!Step

-----------------------------------------------------------------------------
LEMMA SessionsGoOn ==
    ASSUME Sensible, SInv, [S!Next]_(S!vars)
    PROVE  SInv'
<1>1. CASE S!Next BY <1>1, SessionsTyped, LinksStay, DatesStay DEF SInv, Links
<1>2. CASE UNCHANGED S!vars
  <2>1. TypedSessions' BY <1>2 DEF SInv, TypedSessions, S!TypeOK, S!vars
  <2>2. Links' BY <1>2 DEF SInv, Links, Numbered, LinksTaken, OneByOne, S!At, Replacing, S!vars
  <2>3. Dated' BY <1>2 DEF SInv, Dated, LastChange, Signed, Known, Outlived, FoundOut, S!At, S!ChangedSince, S!vars
  <2>4. QED BY <2>1, <2>2, <2>3 DEF SInv, Links
<1>3. QED BY <1>1, <1>2

LEMMA Counted == \A T : S!Cardinality(T) = Cardinality(T)
  BY DEF S!Cardinality, Cardinality

LEMMA SessionsHold ==
    ASSUME Sensible, SInv
    PROVE  S!SessionsInOrder
<1>1. S!TypeOK BY DEF SInv, TypedSessions
<1>2. S!LinkWorksOnce BY DEF S!LinkWorksOnce, SInv, LinksTaken
<1>3. S!OneLiveLink
  <2> DEFINE L == {l \in links : S!Alive(l)}
  <2>0. S!Cardinality(L) = Cardinality(L) BY Counted
  <2> SUFFICES ASSUME ~crossed PROVE Cardinality(L) <= 1 BY <2>0 DEF S!OneLiveLink
  <2>1. \A l, m \in L : l = m BY DEF SInv, OneByOne
  <2>2. CASE L = {} BY <2>2, FS_EmptySet
  <2>3. CASE L # {}
    <3>1. PICK l \in L : TRUE BY <2>3
    <3>2. L = {l} BY <2>1, <3>1
    <3>3. Cardinality({l}) = 1 BY FS_Singleton
    <3>4. QED BY <3>2, <3>3
  <2>4. QED BY <2>2, <2>3
<1>4. S!OldSessionsEnd
  <2> SUFFICES ASSUME NEW t \in tokens, S!Accepted(t), t.epoch < epoch, ~t.raced
               PROVE  \E c \in changes, opened \in {t.born, t.at} : opened <= c /\ c < opened + 2 * Second
    BY DEF S!OldSessionsEnd
  <2>0. /\ t.born \in Nat /\ t.at \in Nat /\ t.iat \in Nat /\ t.epoch \in Nat
        /\ Second \in Nat \ {0} /\ changedAt \in Nat /\ epoch \in Nat
    BY DEF Sensible, SInv, TypedSessions, S!TypeOK, AnyToken
  <2>1. Signed(t) /\ Known(t) BY DEF SInv, Dated
  <2>2. CASE Outlived(t) BY <2>2 DEF Outlived
  <2>3. CASE ~Outlived(t)
    <3>1. t.at <= changedAt /\ 1 <= t.epoch BY <2>1, <2>3 DEF Known
    <3>2. changedAt \in changes /\ changedAt > 0 BY <3>1, <2>0 DEF SInv, Dated, LastChange
    <3>3. changedAt <= t.iat + Second BY <3>2, <2>0 DEF S!Accepted, S!ChangedSince
    <3>4. changedAt < t.at + 2 * Second BY <3>3, <2>0, <2>1 DEF Signed
    <3>5. QED BY <3>1, <3>2, <3>4
  <2>4. QED BY <2>2, <2>3
<1>5. QED BY <1>1, <1>2, <1>3, <1>4 DEF S!SessionsInOrder

\* A link changes the password once, whoever opens it how often; one of a user's
\* links lives unless two requests for one overlap; and a session opened before a
\* change of the password ends with it, but for the seconds its date is rounded
\* by (auth.service.ts:247, :310, :333).
THEOREM SessionsKept ==
    ASSUME Sensible
    PROVE  MCSpec => []SessionsInOrder
<1>1. MCInit => SInv BY SessionsBegin DEF MCInit
<1>2. SInv /\ [MCNext]_<<vars, theirs, places>> => SInv'
  <2>1. [MCNext]_<<vars, theirs, places>> => [S!Next]_(S!vars) BY DEF MCNext, theirs, S!vars
  <2>2. QED BY <2>1, SessionsGoOn
<1>3. SInv => SessionsInOrder BY SessionsHold DEF SessionsInOrder
<1>4. QED BY <1>1, <1>2, <1>3, PTL DEF MCSpec

-----------------------------------------------------------------------------
(* Workspaces: the invariant. *)

WorkspaceRecords == [name : W!Titles, slug : W!Titles, active : BOOLEAN]
PlacesNow        == W!Own \cup {W!None, W!Foreign, W!Absent}
TaskRecords      == [step : {"idle", "names", "had", "save", "rename", "own", "models", "boxes", "mails", "default"},
                     name : W!Titles, slug : W!Titles, had : BOOLEAN, id : Nat, own : SUBSET Nat, model : 1..3,
                     boxes : {<<>>} \cup [Boxes -> Nat], left : SUBSET Boxes, clean : BOOLEAN]

PlacesTyped ==
    /\ ws \in Seq(WorkspaceRecords) /\ Len(ws) <= MaxWorkspaces
    /\ place \in [W!Records -> PlacesNow] /\ loaded \in [Boxes -> PlacesNow]
    /\ task \in [Slots -> TaskRecords]
    /\ unseen \subseteq W!Own /\ hasty \in BOOLEAN /\ settled \in BOOLEAN

\* Where requests did not meet, one at most has checked, and what it checked is so.
OneChecked == ~hasty => \A r, s \in Slots : W!Checked(r) /\ W!Checked(s) => r = s

NamesKept ==
    /\ W!NamesUnique
    /\ ~hasty => \A r \in Slots :
         /\ task[r].step \in {"had", "save"} => \A w \in W!Own : ws[w].name # task[r].name
         /\ task[r].step = "rename" => \A w \in W!Own \ {task[r].id} : ws[w].name # task[r].name

PlanKept ==
    ~hasty /\ ~W!SlugTaken("default", 0) =>
        /\ Cardinality(W!ActiveWs) <= MaxActive
        /\ \A r \in Slots : task[r].step \in {"names", "had", "save"} => Cardinality(W!ActiveWs) < MaxActive

FirstKnown == ~hasty => \A r \in Slots : task[r].step = "save" => (task[r].had <=> W!ActiveWs # {})

\* An adoption knows the workspaces of the account but for those made since.
Knows(r) ==
    /\ task[r].step \in {"rename", "own", "models", "boxes", "mails"} => task[r].id \in W!Own
    /\ task[r].step = "default" => W!SlugTaken("default", 0)
    /\ task[r].step = "own" => task[r].model = 1
    /\ W!Adopting(r) => task[r].own \subseteq W!Own /\ W!Own \subseteq task[r].own \cup unseen
    /\ task[r].step = "mails" => task[r].boxes \in [Boxes -> PlacesNow]

TasksKnow == \A r \in Slots : Knows(r)

\* Where none was made, the models it has done hold no orphan, and it knows where the
\* mailboxes are.
Done(r, x) == \/ task[r].step \in {"boxes", "mails"} /\ x \notin Mails
              \/ task[r].step = "models" /\ \E j \in 1..3 : j < task[r].model /\ x \in W!Models[j]

\* A mail of a mailbox it has done is where the mailbox is.
Followed(r, x) == place[x] # W!Absent /\ BoxOf[x] # W!None /\ BoxOf[x] \notin task[r].left => place[x] = place[BoxOf[x]]

GoesOn(r) ==
    /\ \A x \in W!Records : Done(r, x) => ~W!IsOrphan(place[x])
    /\ task[r].step = "mails" => \A b \in Boxes : task[r].boxes[b] = place[b]
    /\ task[r].step = "mails" /\ task[r].clean => \A x \in Mails : Followed(r, x)

AdoptionsGoOn == unseen = {} => \A r \in Slots : GoesOn(r)

PlacesInv == /\ PlacesTyped /\ OneChecked /\ NamesKept /\ PlanKept /\ FirstKnown
             /\ TasksKnow /\ AdoptionsGoOn /\ W!NoOrphansAfter

-----------------------------------------------------------------------------
(* Workspaces: it holds. *)

NamesInv   == OneChecked /\ NamesKept /\ PlanKept /\ FirstKnown
RecordsInv == TasksKnow /\ AdoptionsGoOn /\ W!NoOrphansAfter

CheckedSteps == {"names", "had", "save", "rename"}
AdoptSteps   == {"rename", "own", "models", "boxes", "mails", "default"}

LEMMA WorkspacesCounted == \A T : W!Cardinality(T) = Cardinality(T)
BY DEF W!Cardinality, Cardinality

LEMMA OwnNumbers ==
    ASSUME PlacesTyped
    PROVE  /\ W!Own = 1..Len(ws) /\ Len(ws) \in Nat /\ W!Own \subseteq 1..MaxWorkspaces
           /\ W!None \notin W!Own /\ W!Foreign \notin W!Own /\ W!Absent \notin W!Own
           /\ W!None # W!Absent /\ W!Foreign # W!Absent
           /\ \A w \in W!Own : w \in Nat /\ ws[w] \in WorkspaceRecords
           /\ \A w \in W!Own : ~W!IsOrphan(w)
<1>1. ws \in Seq(WorkspaceRecords) /\ Len(ws) <= MaxWorkspaces /\ MaxWorkspaces \in Nat BY PlacesAssumption DEF PlacesTyped
<1>2. DOMAIN ws = 1..Len(ws) /\ Len(ws) \in Nat /\ \A w \in 1..Len(ws) : ws[w] \in WorkspaceRecords BY <1>1
<1>3. QED BY <1>1, <1>2 DEF W!Own, W!None, W!Foreign, W!Absent, W!IsOrphan

LEMMA ActiveCounted ==
    ASSUME PlacesTyped
    PROVE  /\ IsFiniteSet(W!ActiveWs) /\ Cardinality(W!ActiveWs) \in Nat
           /\ \A T : T \subseteq W!ActiveWs => IsFiniteSet(T) /\ Cardinality(T) \in Nat /\ Cardinality(T) <= Cardinality(W!ActiveWs)
<1>1. IsFiniteSet(W!Own) BY OwnNumbers, FS_Interval
<1>2. W!ActiveWs \subseteq W!Own BY DEF W!ActiveWs
<1>3. QED BY <1>1, <1>2, FS_Subset, FS_CardinalityType

LEMMA OneTask ==
    ASSUME PlacesTyped, NEW r \in Slots, NEW record \in TaskRecords, task' = [task EXCEPT ![r] = record]
    PROVE  task' \in [Slots -> TaskRecords] /\ task'[r] = record /\ \A s \in Slots \ {r} : task'[s] = task[s]
BY DEF PlacesTyped

LEMMA FreeIsATask == W!Free \in TaskRecords /\ W!Free.step = "idle" /\ W!Free.model = 1
BY DEF W!Free, TaskRecords, W!Titles

\* A request that ends.
LEMMA RequestEnds ==
    ASSUME PlacesTyped, NEW r \in Slots, W!End(r)
    PROVE  /\ task' \in [Slots -> TaskRecords] /\ task'[r].step = "idle" /\ \A s \in Slots \ {r} : task'[s] = task[s]
BY FreeIsATask, OneTask DEF W!End

\* Steps that leave the workspaces alone, and check nothing.
LEMMA NamesStay ==
    ASSUME NamesInv, UNCHANGED <<ws, hasty>>,
           \A r \in Slots : task'[r].step \in CheckedSteps =>
               task'[r].step = task[r].step /\ task'[r].name = task[r].name /\ task'[r].id = task[r].id /\ task'[r].had = task[r].had
    PROVE  NamesInv'
<1>1. \A r \in Slots : W!Checked(r)' => W!Checked(r) BY DEF W!Checked, CheckedSteps
<1>2. OneChecked' BY <1>1 DEF NamesInv, OneChecked
<1>3. W!Own' = W!Own /\ W!ActiveWs' = W!ActiveWs /\ (W!SlugTaken("default", 0)' <=> W!SlugTaken("default", 0))
  BY DEF W!Own, W!ActiveWs, W!SlugTaken
<1>4. NamesKept' BY <1>3 DEF NamesInv, NamesKept, W!NamesUnique, CheckedSteps
<1>5. PlanKept' BY <1>3 DEF NamesInv, PlanKept, CheckedSteps
<1>6. FirstKnown' BY <1>3 DEF NamesInv, FirstKnown, CheckedSteps
<1>7. QED BY <1>2, <1>4, <1>5, <1>6 DEF NamesInv

\* Steps that leave records and adoptions alone.
LEMMA RecordsStay ==
    ASSUME PlacesTyped, RecordsInv, UNCHANGED <<place, settled>>, W!Own \subseteq W!Own', unseen \subseteq unseen',
           W!SlugTaken("default", 0) => W!SlugTaken("default", 0)',
           \A r \in Slots : W!Adopting(r) => W!Own' \subseteq W!Own \cup unseen',
           \A r \in Slots : task'[r].step \in AdoptSteps => task'[r] = task[r]
    PROVE  RecordsInv'
<1>1. TasksKnow'
  <2>1. ASSUME NEW r \in Slots
        PROVE  /\ task'[r].step \in {"rename", "own", "models", "boxes", "mails"} => task'[r].id \in W!Own'
               /\ task'[r].step = "default" => W!SlugTaken("default", 0)'
               /\ task'[r].step = "own" => task'[r].model = 1
               /\ task'[r].step \in {"models", "boxes", "mails"} =>
                     task'[r].own \subseteq W!Own' /\ W!Own' \subseteq task'[r].own \cup unseen'
               /\ task'[r].step = "mails" => task'[r].boxes \in [Boxes -> PlacesNow']
    <3>1. CASE task'[r].step \notin AdoptSteps BY <3>1 DEF AdoptSteps
    <3>2. CASE task'[r] = task[r] BY <3>2 DEF RecordsInv, TasksKnow, Knows, W!Adopting, PlacesNow
    <3>3. QED BY <3>1, <3>2
  <2>2. QED BY <2>1 DEF TasksKnow, Knows, W!Adopting
<1>2. AdoptionsGoOn'
  <2>1. SUFFICES ASSUME unseen' = {}, NEW r \in Slots PROVE GoesOn(r)' BY DEF AdoptionsGoOn
  <2>2. unseen = {} BY <2>1
  <2>3. CASE task'[r].step \notin AdoptSteps BY <2>3 DEF AdoptSteps, GoesOn, Done
  <2>4. CASE task'[r] = task[r] BY <2>2, <2>4 DEF RecordsInv, AdoptionsGoOn, GoesOn, Done, Followed, W!IsOrphan, W!Absent
  <2>5. QED BY <2>3, <2>4
<1>3. W!NoOrphansAfter'
  <2>1. unseen' = {} => unseen = {} OBVIOUS
  <2>2. QED BY <2>1 DEF RecordsInv, W!NoOrphansAfter, W!IsOrphan
<1>4. QED BY <1>1, <1>2, <1>3 DEF RecordsInv

\* A request takes up a workspace of the account.
LEMMA RecordsTake ==
    ASSUME PlacesTyped, RecordsInv, UNCHANGED <<ws, place, settled, unseen>>, NEW r \in Slots,
           \A s \in Slots \ {r} : task'[s] = task[s], task'[r].step \in {"rename", "own"}, task'[r].id \in W!Own, task'[r].model = 1
    PROVE  RecordsInv'
<1>1. W!Own' = W!Own /\ W!SlugTaken("default", 0)' = W!SlugTaken("default", 0) BY DEF W!Own, W!SlugTaken
<1>2. TasksKnow' BY <1>1 DEF RecordsInv, TasksKnow, Knows, W!Adopting, PlacesNow
<1>3. AdoptionsGoOn' BY DEF RecordsInv, AdoptionsGoOn, GoesOn, Done, Followed, W!IsOrphan
<1>4. W!NoOrphansAfter' BY DEF RecordsInv, W!NoOrphansAfter, W!IsOrphan
<1>5. QED BY <1>2, <1>3, <1>4 DEF RecordsInv

LEMMA OldestIsOne ==
    ASSUME PlacesTyped, W!ActiveWs # {}
    PROVE  W!Oldest(W!ActiveWs) \in W!ActiveWs
<1>1. W!ActiveWs \subseteq Nat BY OwnNumbers DEF W!ActiveWs
<1>2. \E w \in W!ActiveWs : \A v \in W!ActiveWs : w <= v
  <2>1. PICK n \in Nat : n \in W!ActiveWs BY <1>1
  <2>2. PICK m \in W!ActiveWs : \A v \in W!ActiveWs : <<v, m>> \notin OpToRel(<, Nat)
    BY <1>1, <2>1, NatLessThanWellFounded, WFMin
  <2>3. \A v \in W!ActiveWs : ~(v < m) BY <1>1, <2>2 DEF OpToRel
  <2>4. QED BY <1>1, <2>3
<1>3. QED BY <1>2 DEF W!Oldest

\* A request checks, or goes on with what it checked.
LEMMA NamesChecked ==
    ASSUME NamesInv, NEW r \in Slots, UNCHANGED ws, hasty => hasty', \A s \in Slots \ {r} : task'[s] = task[s],
           ~hasty' /\ task'[r].step \in CheckedSteps => W!Checked(r) \/ \A s \in Slots \ {r} : ~W!Checked(s),
           ~hasty' /\ task'[r].step \in {"names", "had", "save"} =>
               W!SlugTaken("default", 0) \/ Cardinality(W!ActiveWs) < MaxActive,
           ~hasty' /\ task'[r].step \in {"had", "save"} => \A w \in W!Own : ws[w].name # task'[r].name,
           ~hasty' /\ task'[r].step = "rename" => \A w \in W!Own \ {task'[r].id} : ws[w].name # task'[r].name,
           ~hasty' /\ task'[r].step = "save" => (task'[r].had <=> W!ActiveWs # {})
    PROVE  NamesInv'
<1>1. W!Own' = W!Own /\ W!ActiveWs' = W!ActiveWs /\ (W!SlugTaken("default", 0)' <=> W!SlugTaken("default", 0))
  BY DEF W!Own, W!ActiveWs, W!SlugTaken
<1>2. OneChecked'
  <2>1. \A s \in Slots \ {r} : W!Checked(s)' => W!Checked(s) BY DEF W!Checked
  <2>2. W!Checked(r)' => task'[r].step \in CheckedSteps BY DEF W!Checked, CheckedSteps
  <2>3. QED BY <2>1, <2>2 DEF NamesInv, OneChecked
<1>3. NamesKept'
  <2>1. W!NamesUnique' BY <1>1 DEF NamesInv, NamesKept, W!NamesUnique
  <2>2. ASSUME ~hasty', NEW s \in Slots
        PROVE  /\ task'[s].step \in {"had", "save"} => \A w \in W!Own : ws[w].name # task'[s].name
               /\ task'[s].step = "rename" => \A w \in W!Own \ {task'[s].id} : ws[w].name # task'[s].name
    <3>1. CASE s = r BY <2>2, <3>1
    <3>2. CASE s # r BY <2>2, <3>2 DEF NamesInv, NamesKept
    <3>3. QED BY <3>1, <3>2
  <2>3. QED BY <1>1, <2>1, <2>2 DEF NamesKept
<1>4. PlanKept' BY <1>1 DEF NamesInv, PlanKept
<1>5. FirstKnown' BY <1>1 DEF NamesInv, FirstKnown
<1>6. QED BY <1>2, <1>3, <1>4, <1>5 DEF NamesInv

LEMMA InParts == PlacesInv <=> PlacesTyped /\ NamesInv /\ RecordsInv
BY DEF PlacesInv, NamesInv, RecordsInv

\* Steps that change the work of requests alone.
LEMMA Settled ==
    ASSUME PlacesInv, UNCHANGED <<ws, place, unseen, settled>>, loaded' \in [Boxes -> PlacesNow], hasty' \in BOOLEAN,
           task' \in [Slots -> TaskRecords], NamesInv', RecordsInv'
    PROVE  PlacesInv'
<1>1. W!Own' = W!Own BY DEF W!Own
<1>2. PlacesTyped' BY <1>1, InParts DEF PlacesTyped, PlacesNow
<1>3. QED BY <1>2 DEF PlacesInv, NamesInv, RecordsInv

LEMMA ChecksGoOn ==
    ASSUME PlacesInv, NEW r \in Slots,
           \/ \E n \in Names, s \in Slugs : W!Create(r, n, s)
           \/ W!assertAvailable(r) \/ W!LookForActive(r)
           \/ \E w \in W!Ids, n \in Names : W!Rename(r, w, n)
           \/ W!Repair(r) \/ W!Fault(r)
    PROVE  PlacesInv'
<1>0. PlacesTyped /\ NamesInv /\ RecordsInv BY InParts
<1>1. task[r] \in TaskRecords /\ loaded \in [Boxes -> PlacesNow] BY <1>0 DEF PlacesTyped
<1>2. UNCHANGED <<ws, place, unseen, settled>> /\ W!Own' = W!Own /\ W!SlugTaken("default", 0)' = W!SlugTaken("default", 0)
  BY DEF W!Create, W!assertAvailable, W!LookForActive, W!Rename, W!Repair, W!Fault, W!Own, W!SlugTaken
<1>3. \A s \in Slots : W!Adopting(s) => W!Own \subseteq W!Own \cup unseen OBVIOUS
<1>4. ASSUME NEW n \in Names, NEW s \in Slugs, W!Create(r, n, s) PROVE PlacesInv'
  <2> DEFINE record == [W!Free EXCEPT !.step = "names", !.name = n, !.slug = s]
  <2>1. record \in TaskRecords /\ record.step = "names" BY FreeIsATask DEF TaskRecords, W!Titles
  <2>2. /\ task' = [task EXCEPT ![r] = record] /\ W!PlanAllows /\ loaded' = loaded
        /\ hasty' = (hasty \/ \E k \in Slots \ {r} : W!Checked(k))
    BY <1>4 DEF W!Create
  <2> HIDE DEF record
  <2>3. task' \in [Slots -> TaskRecords] /\ task'[r].step = "names" /\ \A k \in Slots \ {r} : task'[k] = task[k]
    BY <1>0, <2>1, <2>2, OneTask
  <2>4. Cardinality(W!ActiveWs) < MaxActive BY <2>2, WorkspacesCounted DEF W!PlanAllows
  <2>5. NamesInv' BY <1>0, <1>2, <2>2, <2>3, <2>4, NamesChecked
  <2>6. RecordsInv' BY <1>0, <1>2, <2>3, RecordsStay DEF AdoptSteps
  <2>7. hasty' \in BOOLEAN BY <1>0, <2>2 DEF PlacesTyped
  <2>8. QED BY <1>1, <1>2, <2>2, <2>3, <2>5, <2>6, <2>7, Settled
<1>5. CASE W!assertAvailable(r)
  <2>1. /\ task[r].step = "names" /\ loaded' = loaded /\ hasty' = hasty
        /\ IF W!Available(task[r].name, task[r].slug, 0) THEN W!GoTo(r, "had") ELSE W!End(r)
    BY <1>5 DEF W!assertAvailable, W!At
  <2>2. CASE W!Available(task[r].name, task[r].slug, 0)
    <3> DEFINE record == [task[r] EXCEPT !.step = "had"]
    <3>1. record \in TaskRecords /\ record.step = "had" /\ record.name = task[r].name BY <1>1 DEF TaskRecords
    <3>2. task' = [task EXCEPT ![r] = record] BY <1>0, <2>1, <2>2 DEF W!GoTo, PlacesTyped
    <3> HIDE DEF record
    <3>3. task' \in [Slots -> TaskRecords] /\ task'[r] = record /\ \A k \in Slots \ {r} : task'[k] = task[k]
      BY <1>0, <3>1, <3>2, OneTask
    <3>4. \A w \in W!Own : ws[w].name # task[r].name BY <1>0, <2>2, OwnNumbers DEF W!Available, W!None
    <3>5. W!Checked(r) /\ (~hasty => W!SlugTaken("default", 0) \/ Cardinality(W!ActiveWs) < MaxActive)
      BY <1>0, <2>1 DEF W!Checked, NamesInv, PlanKept
    <3>6. NamesInv' BY <1>0, <1>2, <2>1, <3>1, <3>3, <3>4, <3>5, NamesChecked
    <3>7. RecordsInv' BY <1>0, <1>2, <3>1, <3>3, RecordsStay DEF AdoptSteps
    <3>8. hasty' \in BOOLEAN BY <1>0, <2>1 DEF PlacesTyped
    <3>9. QED BY <1>1, <1>2, <2>1, <3>3, <3>6, <3>7, <3>8, Settled
  <2>3. CASE W!End(r)
    <3>1. task' \in [Slots -> TaskRecords] /\ task'[r].step = "idle" /\ \A k \in Slots \ {r} : task'[k] = task[k]
      BY <1>0, <2>3, RequestEnds
    <3>2. NamesInv' BY <1>0, <1>2, <2>1, <3>1, NamesStay DEF CheckedSteps
    <3>3. RecordsInv' BY <1>0, <1>2, <3>1, RecordsStay DEF AdoptSteps
    <3>4. hasty' \in BOOLEAN BY <1>0, <2>1 DEF PlacesTyped
    <3>5. QED BY <1>1, <1>2, <2>1, <3>1, <3>2, <3>3, <3>4, Settled
  <2>4. QED BY <2>1, <2>2, <2>3
<1>6. CASE W!LookForActive(r)
  <2> DEFINE record == [task[r] EXCEPT !.step = "save", !.had = ~W!WasFirst]
  <2>1. /\ task[r].step = "had" /\ loaded' = loaded /\ hasty' = hasty
        /\ task' = [task EXCEPT ![r].step = "save", ![r].had = ~W!WasFirst]
    BY <1>6 DEF W!LookForActive, W!At
  <2>2. /\ record \in TaskRecords /\ record.step = "save" /\ record.name = task[r].name
        /\ (record.had <=> W!ActiveWs # {})
    BY <1>1 DEF TaskRecords, W!WasFirst
  <2>3. task' = [task EXCEPT ![r] = record] BY <1>0, <2>1 DEF PlacesTyped, TaskRecords
  <2> HIDE DEF record
  <2>4. task' \in [Slots -> TaskRecords] /\ task'[r] = record /\ \A k \in Slots \ {r} : task'[k] = task[k]
    BY <1>0, <2>2, <2>3, OneTask
  <2>5. /\ W!Checked(r) /\ (~hasty => W!SlugTaken("default", 0) \/ Cardinality(W!ActiveWs) < MaxActive)
        /\ ~hasty => \A w \in W!Own : ws[w].name # task[r].name
    BY <1>0, <2>1 DEF W!Checked, NamesInv, PlanKept, NamesKept
  <2>6. NamesInv'
    <3>1. ws' = ws /\ (hasty => hasty') BY <1>2, <2>1
    <3>2. task'[r].step = "save" /\ task'[r].name = task[r].name BY <2>2, <2>4
    <3>3. task'[r].had <=> W!ActiveWs # {} BY <2>2, <2>4
    <3>4. ~hasty' => ~hasty BY <2>1
    <3>5. QED BY <1>0, <2>4, <2>5, <3>1, <3>2, <3>3, <3>4, NamesChecked
  <2>7. RecordsInv' BY <1>0, <1>2, <2>2, <2>4, RecordsStay DEF AdoptSteps
  <2>8. hasty' \in BOOLEAN BY <1>0, <2>1 DEF PlacesTyped
  <2>9. QED BY <1>1, <1>2, <2>1, <2>4, <2>6, <2>7, <2>8, Settled
<1>7. ASSUME NEW w \in W!Ids, NEW n \in Names, W!Rename(r, w, n) PROVE PlacesInv'
  <2> DEFINE record == [W!Free EXCEPT !.step = "rename", !.id = w, !.name = n]
  <2>1. /\ task' = [task EXCEPT ![r] = record] /\ w \in W!Own /\ W!Available(n, ws[w].slug, w) /\ loaded' = loaded
        /\ task[r] = W!Free /\ hasty' = (hasty \/ \E k \in Slots \ {r} : W!Checked(k))
    BY <1>7 DEF W!Rename
  <2>2. w \in Nat BY <1>0, <2>1, OwnNumbers
  <2>3. record \in TaskRecords /\ record.step = "rename" /\ record.id = w /\ record.name = n /\ record.model = 1
    BY <2>2, FreeIsATask DEF TaskRecords, W!Titles
  <2> HIDE DEF record
  <2>4. task' \in [Slots -> TaskRecords] /\ task'[r] = record /\ \A k \in Slots \ {r} : task'[k] = task[k]
    BY <1>0, <2>1, <2>3, OneTask
  <2>5. \A v \in W!Own \ {w} : ws[v].name # n BY <2>1 DEF W!Available
  <2>6. NamesInv' BY <1>0, <1>2, <2>1, <2>3, <2>4, <2>5, NamesChecked
  <2>7. RecordsInv' BY <1>0, <1>2, <2>1, <2>3, <2>4, RecordsTake
  <2>8. hasty' \in BOOLEAN BY <1>0, <2>1 DEF PlacesTyped
  <2>9. QED BY <1>1, <1>2, <2>1, <2>4, <2>6, <2>7, <2>8, Settled
<1>8. CASE W!Repair(r)
  <2> DEFINE w == W!Oldest(W!ActiveWs)
             record == [W!Free EXCEPT !.step = "own", !.id = w]
  <2>1. /\ task' = [task EXCEPT ![r] = record] /\ W!ActiveWs # {} /\ loaded' = loaded /\ hasty' = hasty /\ task[r] = W!Free
    BY <1>8 DEF W!Repair
  <2>2. w \in W!Own BY <1>0, <2>1, OldestIsOne DEF W!ActiveWs
  <2>3. w \in Nat BY <1>0, <2>2, OwnNumbers
  <2> HIDE DEF w
  <2>4. record \in TaskRecords /\ record.step = "own" /\ record.id = w /\ record.model = 1 BY <2>3, FreeIsATask DEF TaskRecords
  <2> HIDE DEF record
  <2>5. task' \in [Slots -> TaskRecords] /\ task'[r] = record /\ \A k \in Slots \ {r} : task'[k] = task[k]
    BY <1>0, <2>1, <2>4, OneTask
  <2>6. NamesInv' BY <1>0, <1>2, <2>1, <2>4, <2>5, NamesStay DEF CheckedSteps
  <2>7. RecordsInv' BY <1>0, <1>2, <2>2, <2>4, <2>5, RecordsTake
  <2>8. hasty' \in BOOLEAN BY <1>0, <2>1 DEF PlacesTyped
  <2>9. QED BY <1>1, <1>2, <2>1, <2>5, <2>6, <2>7, <2>8, Settled
<1>9. CASE W!Fault(r)
  <2>1. W!End(r) /\ loaded' = loaded /\ hasty' = hasty BY <1>9 DEF W!Fault
  <2>2. task' \in [Slots -> TaskRecords] /\ task'[r].step = "idle" /\ \A k \in Slots \ {r} : task'[k] = task[k]
    BY <1>0, <2>1, RequestEnds
  <2>3. NamesInv' BY <1>0, <1>2, <2>1, <2>2, NamesStay DEF CheckedSteps
  <2>4. RecordsInv' BY <1>0, <1>2, <2>2, RecordsStay DEF AdoptSteps
  <2>5. hasty' \in BOOLEAN BY <1>0, <2>1 DEF PlacesTyped
  <2>6. QED BY <1>1, <1>2, <2>1, <2>2, <2>3, <2>4, <2>5, Settled
<1>10. QED BY <1>4, <1>5, <1>6, <1>7, <1>8, <1>9

LEMMA PassStarts ==
    ASSUME PlacesInv, NEW b \in Boxes, W!StartPass(b)
    PROVE  PlacesInv'
<1>0. PlacesTyped /\ NamesInv /\ RecordsInv BY InParts
<1>1. loaded' = [loaded EXCEPT ![b] = place[b]] /\ UNCHANGED <<ws, place, task, unseen, hasty, settled>>
  BY DEF W!StartPass
<1>2. b \in W!Records BY DEF W!Records
<1>3. W!Own' = W!Own /\ (W!SlugTaken("default", 0)' <=> W!SlugTaken("default", 0)) BY <1>1 DEF W!Own, W!SlugTaken
<1>4. loaded' \in [Boxes -> PlacesNow] BY <1>0, <1>1, <1>2 DEF PlacesTyped
<1>5. NamesInv' BY <1>0, <1>1, NamesStay
<1>6. RecordsInv' BY <1>0, <1>1, <1>3, RecordsStay
<1>7. hasty' \in BOOLEAN /\ task' \in [Slots -> TaskRecords] BY <1>0, <1>1 DEF PlacesTyped
<1>8. QED BY <1>1, <1>4, <1>5, <1>6, <1>7, Settled

-----------------------------------------------------------------------------
\* Workspaces come and change.
LEMMA Appended ==
    ASSUME PlacesTyped, NEW record \in WorkspaceRecords, ws' = Append(ws, record), Len(ws) + 1 \in W!Ids
    PROVE  /\ ws' \in Seq(WorkspaceRecords) /\ Len(ws') <= MaxWorkspaces
           /\ W!Own' = W!Own \cup {Len(ws) + 1} /\ Len(ws) + 1 \notin W!Own /\ Len(ws) + 1 \in Nat
           /\ ws'[Len(ws) + 1] = record /\ \A w \in W!Own : ws'[w] = ws[w]
<1>1. ws \in Seq(WorkspaceRecords) /\ MaxWorkspaces \in Nat BY PlacesAssumption DEF PlacesTyped
<1>2. ws' \in Seq(WorkspaceRecords) /\ Len(ws') = Len(ws) + 1 /\ Len(ws) \in Nat BY <1>1
<1>3. ws'[Len(ws) + 1] = record /\ \A w \in 1..Len(ws) : ws'[w] = ws[w] BY <1>1
<1>4. W!Own = 1..Len(ws) /\ W!Own' = 1..Len(ws')
  <2>1. W!Own = DOMAIN ws /\ W!Own' = DOMAIN ws' BY DEF W!Own
  <2>2. QED BY <1>1, <1>2, <2>1
<1>5. QED BY <1>1, <1>2, <1>3, <1>4 DEF W!Ids

LEMMA Rewritten ==
    ASSUME PlacesTyped, NEW w \in W!Own, NEW record \in WorkspaceRecords, ws' = [ws EXCEPT ![w] = record]
    PROVE  /\ ws' \in Seq(WorkspaceRecords) /\ Len(ws') <= MaxWorkspaces
           /\ W!Own' = W!Own /\ ws'[w] = record /\ \A v \in W!Own \ {w} : ws'[v] = ws[v]
<1>1. ws \in Seq(WorkspaceRecords) /\ Len(ws) <= MaxWorkspaces BY DEF PlacesTyped
<1>2. w \in 1..Len(ws) BY OwnNumbers
<1>3. ws' \in Seq(WorkspaceRecords) /\ Len(ws') = Len(ws) BY <1>1, <1>2
<1>4. W!Own = DOMAIN ws /\ W!Own' = DOMAIN ws' /\ DOMAIN ws' = DOMAIN ws BY DEF W!Own
<1>5. QED BY <1>1, <1>3, <1>4

\* With a new workspace nothing else is found to be lost.
LEMMA TypedStill ==
    ASSUME PlacesTyped, ws' \in Seq(WorkspaceRecords), Len(ws') <= MaxWorkspaces, W!Own \subseteq W!Own',
           UNCHANGED <<place, loaded, settled>>, task' \in [Slots -> TaskRecords], unseen' \subseteq W!Own', hasty' \in BOOLEAN
    PROVE  PlacesTyped'
<1>1. PlacesNow \subseteq PlacesNow' BY DEF PlacesNow
<1>2. QED BY <1>1 DEF PlacesTyped

LEMMA WorkspaceIsSaved ==
    ASSUME PlacesInv, NEW r \in Slots, W!SaveWorkspace(r)
    PROVE  PlacesInv'
<1>0. PlacesTyped /\ NamesInv /\ RecordsInv BY InParts
<1> DEFINE n == Len(ws) + 1
           asked == task[r]
           record == [name |-> asked.name, slug |-> asked.slug, active |-> TRUE]
           after == [W!Free EXCEPT !.step = "own", !.id = n]
<1>1. /\ asked.step = "save" /\ n \in W!Ids /\ UNCHANGED <<place, loaded, hasty, settled>>
      /\ \/ W!End(r) /\ UNCHANGED <<ws, unseen>>
         \/ /\ ~W!SlugTaken(asked.slug, 0) /\ ws' = Append(ws, record)
            /\ unseen' = IF \E s \in Slots : W!Adopting(s) THEN unseen \cup {n} ELSE unseen
            /\ IF asked.had THEN W!End(r) ELSE task' = [task EXCEPT ![r] = after]
  BY DEF W!SaveWorkspace, W!At
<1>2. CASE W!End(r) /\ UNCHANGED <<ws, unseen>>
  <2>1. task' \in [Slots -> TaskRecords] /\ task'[r].step = "idle" /\ \A s \in Slots \ {r} : task'[s] = task[s]
    BY <1>0, <1>2, RequestEnds
  <2>2. NamesInv' BY <1>0, <1>1, <1>2, <2>1, NamesStay DEF CheckedSteps
  <2>3. W!Own' = W!Own /\ W!SlugTaken("default", 0)' = W!SlugTaken("default", 0) BY <1>2 DEF W!Own, W!SlugTaken
  <2>4. RecordsInv' BY <1>0, <1>1, <1>2, <2>1, <2>3, RecordsStay DEF AdoptSteps
  <2>5. loaded' \in [Boxes -> PlacesNow] /\ hasty' \in BOOLEAN BY <1>0, <1>1 DEF PlacesTyped
  <2>6. QED BY <1>1, <1>2, <2>1, <2>2, <2>4, <2>5, Settled
<1>3. CASE /\ ws' = Append(ws, record) /\ unseen' = IF \E s \in Slots : W!Adopting(s) THEN unseen \cup {n} ELSE unseen
           /\ IF asked.had THEN W!End(r) ELSE task' = [task EXCEPT ![r] = after]
  <2>1. asked \in TaskRecords BY <1>0 DEF PlacesTyped
  <2>2. record \in WorkspaceRecords /\ record.name = asked.name /\ record.active
    <3>1. asked.name \in W!Titles /\ asked.slug \in W!Titles BY <2>1 DEF TaskRecords
    <3>2. QED BY <3>1 DEF WorkspaceRecords
  <2> HIDE DEF record
  <2>3. /\ ws' \in Seq(WorkspaceRecords) /\ Len(ws') <= MaxWorkspaces
        /\ W!Own' = W!Own \cup {n} /\ n \notin W!Own /\ n \in Nat
        /\ ws'[n] = record /\ \A w \in W!Own : ws'[w] = ws[w]
    BY <1>0, <1>1, <1>3, <2>2, Appended
  <2> HIDE DEF n
  <2>4. after \in TaskRecords /\ after.step = "own" /\ after.id = n /\ after.model = 1 BY <2>3, FreeIsATask DEF TaskRecords
  <2> HIDE DEF after
  <2>5. /\ task' \in [Slots -> TaskRecords] /\ \A s \in Slots \ {r} : task'[s] = task[s]
        /\ IF asked.had THEN task'[r].step = "idle" ELSE task'[r] = after
    <3>1. CASE asked.had BY <1>0, <1>3, <3>1, RequestEnds
    <3>2. CASE ~asked.had BY <1>0, <1>3, <2>4, <3>2, OneTask
    <3>3. QED BY <3>1, <3>2
  <2>6. W!ActiveWs' = W!ActiveWs \cup {n} /\ n \notin W!ActiveWs BY <2>2, <2>3 DEF W!ActiveWs
  <2>7. W!SlugTaken("default", 0) => W!SlugTaken("default", 0)' BY <2>3 DEF W!SlugTaken
  <2>8. PlacesTyped'
    <3>1. unseen' \subseteq W!Own' /\ hasty' \in BOOLEAN BY <1>0, <1>1, <1>3, <2>3 DEF PlacesTyped
    <3>2. QED BY <1>0, <1>1, <2>3, <2>5, <3>1, TypedStill
  <2>9. ~hasty => \A s \in Slots : ~W!Checked(s)'
    <3>1. W!Checked(r) BY <1>1 DEF W!Checked
    <3>2. ~W!Checked(r)' BY <2>4, <2>5 DEF W!Checked
    <3>3. \A s \in Slots \ {r} : W!Checked(s)' => W!Checked(s) BY <2>5 DEF W!Checked
    <3>4. QED BY <1>0, <3>1, <3>2, <3>3 DEF NamesInv, OneChecked
  <2>10. NamesInv'
    <3>1. ~hasty => \A s \in Slots : task'[s].step \notin CheckedSteps BY <2>9 DEF W!Checked, CheckedSteps
    <3>2. ~hasty => \A w \in W!Own : ws[w].name # asked.name BY <1>0, <1>1 DEF NamesInv, NamesKept
    <3>3. W!NamesUnique' BY <1>0, <1>1, <2>2, <2>3, <3>2 DEF NamesInv, NamesKept, W!NamesUnique
    <3>4. ~hasty /\ ~W!SlugTaken("default", 0)' => Cardinality(W!ActiveWs') <= MaxActive
      <4>1. SUFFICES ASSUME ~hasty, ~W!SlugTaken("default", 0) PROVE Cardinality(W!ActiveWs') <= MaxActive BY <2>7
      <4>2. Cardinality(W!ActiveWs) < MaxActive BY <1>0, <1>1, <4>1 DEF NamesInv, PlanKept
      <4>3. Cardinality(W!ActiveWs \cup {n}) = Cardinality(W!ActiveWs) + 1 /\ Cardinality(W!ActiveWs) \in Nat
        BY <1>0, <2>6, ActiveCounted, FS_AddElement
      <4>4. QED BY <2>6, <4>2, <4>3, PlacesAssumption
    <3>5. QED BY <1>1, <2>9, <3>1, <3>3, <3>4 DEF NamesInv, OneChecked, NamesKept, PlanKept, FirstKnown, CheckedSteps
  <2>11. RecordsInv'
    <3>1. \A s \in Slots : W!Adopting(s) => W!Own' \subseteq W!Own \cup unseen' BY <1>3, <2>3
    <3>2. unseen \subseteq unseen' BY <1>3
    <3>3. CASE asked.had BY <1>0, <1>1, <2>3, <2>5, <2>7, <3>1, <3>2, <3>3, RecordsStay DEF AdoptSteps
    <3>4. CASE ~asked.had
      <4>1. TasksKnow'
        <5>1. task'[r].step = "own" /\ task'[r].id \in W!Own' /\ task'[r].model = 1 BY <2>3, <2>4, <2>5, <3>4
        <5>2. \A s \in Slots \ {r} :
                /\ task'[s].step \in {"rename", "own", "models", "boxes", "mails"} => task'[s].id \in W!Own'
                /\ task'[s].step = "default" => W!SlugTaken("default", 0)'
                /\ task'[s].step = "own" => task'[s].model = 1
                /\ task'[s].step \in {"models", "boxes", "mails"} =>
                      task'[s].own \subseteq W!Own' /\ W!Own' \subseteq task'[s].own \cup unseen'
                /\ task'[s].step = "mails" => task'[s].boxes \in [Boxes -> PlacesNow']
          BY <1>0, <2>3, <2>5, <2>7, <3>1, <3>2 DEF RecordsInv, TasksKnow, Knows, W!Adopting, PlacesNow
        <5>3. QED BY <5>1, <5>2 DEF TasksKnow, Knows, W!Adopting
      <4>2. AdoptionsGoOn'
        <5>1. unseen' = {} => unseen = {} BY <3>2
        <5>2. task'[r].step = "own" BY <2>4, <2>5, <3>4
        <5>3. QED BY <1>0, <1>1, <2>5, <5>1, <5>2 DEF RecordsInv, AdoptionsGoOn, GoesOn, Done, Followed, W!IsOrphan
      <4>3. W!NoOrphansAfter' BY <1>0, <1>1, <3>2 DEF RecordsInv, W!NoOrphansAfter, W!IsOrphan
      <4>4. QED BY <4>1, <4>2, <4>3 DEF RecordsInv
    <3>5. QED BY <3>3, <3>4
  <2>12. QED BY <2>8, <2>10, <2>11 DEF PlacesInv, NamesInv, RecordsInv
<1>4. QED BY <1>1, <1>2, <1>3

LEMMA NameIsSaved ==
    ASSUME PlacesInv, NEW r \in Slots, W!SaveName(r)
    PROVE  PlacesInv'
<1>0. PlacesTyped /\ NamesInv /\ RecordsInv BY InParts
<1> DEFINE w == task[r].id   name == task[r].name   record == [ws[w] EXCEPT !.name = name]
<1>1. /\ task[r].step = "rename" /\ ws' = [ws EXCEPT ![w].name = name] /\ W!End(r)
      /\ UNCHANGED <<place, loaded, unseen, hasty, settled>>
  BY DEF W!SaveName, W!At
<1>2. w \in W!Own BY <1>0, <1>1 DEF RecordsInv, TasksKnow, Knows
<1>3. ws[w] \in WorkspaceRecords BY <1>0, <1>2, OwnNumbers
<1>4. name \in W!Titles BY <1>0 DEF PlacesTyped, TaskRecords
<1>5. record \in WorkspaceRecords /\ record.name = name /\ record.active = ws[w].active /\ record.slug = ws[w].slug
  BY <1>3, <1>4 DEF WorkspaceRecords
<1>6. ws' = [ws EXCEPT ![w] = record] BY <1>1
<1> HIDE DEF w, name, record
<1>7. /\ ws' \in Seq(WorkspaceRecords) /\ Len(ws') <= MaxWorkspaces
      /\ W!Own' = W!Own /\ ws'[w] = record /\ \A v \in W!Own \ {w} : ws'[v] = ws[v]
  BY <1>0, <1>2, <1>5, <1>6, Rewritten
<1>8. task' \in [Slots -> TaskRecords] /\ task'[r].step = "idle" /\ \A s \in Slots \ {r} : task'[s] = task[s]
  BY <1>0, <1>1, RequestEnds
<1>9. \A v \in W!Own : ws'[v].active = ws[v].active /\ ws'[v].slug = ws[v].slug BY <1>5, <1>7
<1>10. W!ActiveWs' = W!ActiveWs /\ (W!SlugTaken("default", 0)' <=> W!SlugTaken("default", 0))
  BY <1>7, <1>9 DEF W!ActiveWs, W!SlugTaken
<1>11. PlacesTyped'
  <2>1. unseen' \subseteq W!Own' /\ hasty' \in BOOLEAN BY <1>0, <1>1, <1>7 DEF PlacesTyped
  <2>2. QED BY <1>0, <1>1, <1>7, <1>8, <2>1, TypedStill
<1>12. NamesInv'
  <2>1. ~hasty => \A s \in Slots : ~W!Checked(s)'
    <3>1. W!Checked(r) BY <1>1 DEF W!Checked
    <3>2. ~W!Checked(r)' BY <1>8 DEF W!Checked
    <3>3. \A s \in Slots \ {r} : W!Checked(s)' => W!Checked(s) BY <1>8 DEF W!Checked
    <3>4. QED BY <1>0, <3>1, <3>2, <3>3 DEF NamesInv, OneChecked
  <2>2. ~hasty => \A s \in Slots : task'[s].step \notin CheckedSteps BY <2>1 DEF W!Checked, CheckedSteps
  <2>3. ~hasty => \A v \in W!Own \ {w} : ws[v].name # name BY <1>0, <1>1 DEF NamesInv, NamesKept, w, name
  <2>4. W!NamesUnique' BY <1>0, <1>1, <1>5, <1>7, <2>3 DEF NamesInv, NamesKept, W!NamesUnique
  <2>5. ~hasty /\ ~W!SlugTaken("default", 0) => Cardinality(W!ActiveWs) <= MaxActive BY <1>0 DEF NamesInv, PlanKept
  <2>6. QED BY <1>1, <1>10, <2>1, <2>2, <2>4, <2>5 DEF NamesInv, OneChecked, NamesKept, PlanKept, FirstKnown, CheckedSteps
<1>13. RecordsInv' BY <1>0, <1>1, <1>7, <1>8, <1>10, RecordsStay DEF AdoptSteps
<1>14. QED BY <1>11, <1>12, <1>13 DEF PlacesInv, NamesInv, RecordsInv

\* Nobody is between his checks and his save.
LEMMA NobodyChecks ==
    ASSUME ~hasty' => \A s \in Slots : ~W!Checked(s)', W!NamesUnique',
           ~hasty' /\ ~W!SlugTaken("default", 0)' => Cardinality(W!ActiveWs') <= MaxActive
    PROVE  NamesInv'
<1>1. ~hasty' => \A s \in Slots : task'[s].step \notin CheckedSteps BY DEF W!Checked, CheckedSteps
<1>2. QED BY <1>1 DEF NamesInv, OneChecked, NamesKept, PlanKept, FirstKnown, CheckedSteps

LEMMA IsRemoved ==
    ASSUME PlacesInv, NEW w \in W!Ids, W!Remove(w)
    PROVE  PlacesInv'
<1>0. PlacesTyped /\ NamesInv /\ RecordsInv BY InParts
<1> DEFINE record == [ws[w] EXCEPT !.active = FALSE]
<1>1. /\ w \in W!ActiveWs /\ ws' = [ws EXCEPT ![w].active = FALSE] /\ UNCHANGED <<place, loaded, task, unseen, settled>>
      /\ hasty' = (hasty \/ \E r \in Slots : W!Checked(r))
  BY DEF W!Remove
<1>2. w \in W!Own BY <1>1 DEF W!ActiveWs
<1>3. ws[w] \in WorkspaceRecords BY <1>0, <1>2, OwnNumbers
<1>4. record \in WorkspaceRecords /\ record.name = ws[w].name /\ ~record.active /\ record.slug = ws[w].slug
  BY <1>3 DEF WorkspaceRecords
<1>5. ws' = [ws EXCEPT ![w] = record] BY <1>1
<1> HIDE DEF record
<1>6. /\ ws' \in Seq(WorkspaceRecords) /\ Len(ws') <= MaxWorkspaces
      /\ W!Own' = W!Own /\ ws'[w] = record /\ \A v \in W!Own \ {w} : ws'[v] = ws[v]
  BY <1>0, <1>2, <1>4, <1>5, Rewritten
<1>7. \A v \in W!Own : ws'[v].name = ws[v].name /\ ws'[v].slug = ws[v].slug /\ (ws'[v].active => ws[v].active)
  BY <1>4, <1>6
<1>8. W!ActiveWs' \subseteq W!ActiveWs /\ (W!SlugTaken("default", 0)' <=> W!SlugTaken("default", 0))
  BY <1>6, <1>7 DEF W!ActiveWs, W!SlugTaken
<1>9. PlacesTyped'
  <2>1. unseen' \subseteq W!Own' /\ hasty' \in BOOLEAN /\ task' \in [Slots -> TaskRecords] BY <1>0, <1>1, <1>6 DEF PlacesTyped
  <2>2. QED BY <1>0, <1>1, <1>6, <2>1, TypedStill
<1>10. NamesInv'
  <2>1. ~hasty' => \A s \in Slots : ~W!Checked(s)' BY <1>1 DEF W!Checked
  <2>2. hasty => hasty' BY <1>1
  <2>3. W!NamesUnique' BY <1>0, <1>6, <1>7, <2>2 DEF NamesInv, NamesKept, W!NamesUnique
  <2>4. ~hasty' /\ ~W!SlugTaken("default", 0)' => Cardinality(W!ActiveWs') <= MaxActive
    <3>1. /\ Cardinality(W!ActiveWs) \in Nat /\ Cardinality(W!ActiveWs') \in Nat
          /\ Cardinality(W!ActiveWs') <= Cardinality(W!ActiveWs)
      BY <1>0, <1>8, ActiveCounted
    <3>2. ~hasty /\ ~W!SlugTaken("default", 0) => Cardinality(W!ActiveWs) <= MaxActive BY <1>0 DEF NamesInv, PlanKept
    <3>3. QED BY <1>8, <2>2, <3>1, <3>2, PlacesAssumption
  <2>5. QED BY <2>1, <2>3, <2>4, NobodyChecks
<1>11. RecordsInv'
  <2>1. W!Own \subseteq W!Own' /\ unseen \subseteq unseen' /\ W!Own' \subseteq W!Own \cup unseen' BY <1>1, <1>6
  <2>2. \A r \in Slots : task'[r] = task[r] BY <1>1
  <2>3. QED BY <1>0, <1>1, <1>8, <2>1, <2>2, RecordsStay
<1>12. QED BY <1>9, <1>10, <1>11 DEF PlacesInv, NamesInv, RecordsInv

\* A repair at start-up has its default workspace.
LEMMA RecordsBegin ==
    ASSUME PlacesTyped, RecordsInv, UNCHANGED <<place, settled>>, W!Own \subseteq W!Own', unseen \subseteq unseen',
           NEW r \in Slots, \A s \in Slots \ {r} : task'[s] = task[s],
           task'[r].step = "default", W!SlugTaken("default", 0)',
           \A s \in Slots : W!Adopting(s) => W!Own' \subseteq W!Own \cup unseen'
    PROVE  RecordsInv'
<1>1. TasksKnow'
  <2>1. \A s \in Slots \ {r} :
          /\ task'[s].step \in {"rename", "own", "models", "boxes", "mails"} => task'[s].id \in W!Own'
          /\ task'[s].step = "own" => task'[s].model = 1
          /\ task'[s].step \in {"models", "boxes", "mails"} =>
                task'[s].own \subseteq W!Own' /\ W!Own' \subseteq task'[s].own \cup unseen'
          /\ task'[s].step = "mails" => task'[s].boxes \in [Boxes -> PlacesNow']
    BY DEF RecordsInv, TasksKnow, Knows, W!Adopting, PlacesNow
  <2>2. QED BY <2>1 DEF TasksKnow, Knows, W!Adopting
<1>2. AdoptionsGoOn'
  <2>1. unseen' = {} => unseen = {} OBVIOUS
  <2>2. QED BY <2>1 DEF RecordsInv, AdoptionsGoOn, GoesOn, Done, Followed, W!IsOrphan
<1>3. W!NoOrphansAfter' BY DEF RecordsInv, W!NoOrphansAfter, W!IsOrphan
<1>4. QED BY <1>1, <1>2, <1>3 DEF RecordsInv

LEMMA DefaultIsThere ==
    ASSUME PlacesInv, NEW r \in Slots, W!BackfillDefault(r)
    PROVE  PlacesInv'
<1>0. PlacesTyped /\ NamesInv /\ RecordsInv BY InParts
<1> DEFINE n == Len(ws) + 1
           record == [name |-> "default", slug |-> "default", active |-> TRUE]
           after == [W!Free EXCEPT !.step = "default"]
<1>1. /\ UNCHANGED <<place, loaded, settled>> /\ task[r] = W!Free /\ task' = [task EXCEPT ![r] = after]
      /\ hasty' = (hasty \/ \E s \in Slots : W!Checked(s))
      /\ \/ W!SlugTaken("default", 0) /\ UNCHANGED <<ws, unseen>>
         \/ /\ Len(ws) < MaxWorkspaces /\ ws' = Append(ws, record)
            /\ unseen' = IF \E s \in Slots : W!Adopting(s) THEN unseen \cup {Len(ws')} ELSE unseen
  BY DEF W!BackfillDefault
<1>2. after \in TaskRecords /\ after.step = "default" BY FreeIsATask DEF TaskRecords
<1> HIDE DEF after
<1>3. task' \in [Slots -> TaskRecords] /\ task'[r].step = "default" /\ \A s \in Slots \ {r} : task'[s] = task[s]
  BY <1>0, <1>1, <1>2, OneTask
<1>4. ~hasty' => \A s \in Slots : ~W!Checked(s)' BY <1>1, <1>3 DEF W!Checked
<1>5. hasty \in BOOLEAN /\ hasty' \in BOOLEAN /\ (hasty => hasty') BY <1>0, <1>1 DEF PlacesTyped
<1>6. CASE W!SlugTaken("default", 0) /\ UNCHANGED <<ws, unseen>>
  <2>1. W!Own' = W!Own /\ W!SlugTaken("default", 0)' BY <1>6 DEF W!Own, W!SlugTaken
  <2>2. W!NamesUnique' BY <1>0, <1>5, <1>6, <2>1 DEF NamesInv, NamesKept, W!NamesUnique
  <2>3. NamesInv' BY <1>4, <2>1, <2>2, NobodyChecks
  <2>4. RecordsInv' BY <1>0, <1>1, <1>3, <1>6, <2>1, RecordsBegin
  <2>5. loaded' \in [Boxes -> PlacesNow] BY <1>0, <1>1 DEF PlacesTyped
  <2>6. QED BY <1>1, <1>3, <1>5, <1>6, <2>3, <2>4, <2>5, Settled
<1>7. CASE /\ Len(ws) < MaxWorkspaces /\ ws' = Append(ws, record)
           /\ unseen' = IF \E s \in Slots : W!Adopting(s) THEN unseen \cup {Len(ws')} ELSE unseen
  <2>1. record \in WorkspaceRecords /\ record.name = "default" /\ record.slug = "default" BY DEF WorkspaceRecords, W!Titles
  <2> HIDE DEF record
  <2>2. n \in W!Ids /\ Len(ws') = n
    <3>1. ws \in Seq(WorkspaceRecords) /\ MaxWorkspaces \in Nat BY <1>0, PlacesAssumption DEF PlacesTyped
    <3>2. QED BY <1>7, <2>1, <3>1 DEF W!Ids
  <2>3. /\ ws' \in Seq(WorkspaceRecords) /\ Len(ws') <= MaxWorkspaces
        /\ W!Own' = W!Own \cup {n} /\ n \notin W!Own /\ n \in Nat
        /\ ws'[n] = record /\ \A w \in W!Own : ws'[w] = ws[w]
    BY <1>0, <1>7, <2>1, <2>2, Appended
  <2>4. unseen' = IF \E s \in Slots : W!Adopting(s) THEN unseen \cup {n} ELSE unseen BY <1>7, <2>2
  <2> HIDE DEF n
  <2>5. n # 0 BY <1>0, <2>3, OwnNumbers DEF W!Ids, n
  <2>6. W!SlugTaken("default", 0)' BY <2>1, <2>3, <2>5 DEF W!SlugTaken
  <2>7. W!NamesUnique' BY <1>0, <1>5, <2>1, <2>3 DEF NamesInv, NamesKept, W!NamesUnique
  <2>8. NamesInv' BY <1>4, <2>6, <2>7, NobodyChecks
  <2>9. PlacesTyped'
    <3>1. unseen' \subseteq W!Own' BY <1>0, <2>3, <2>4 DEF PlacesTyped
    <3>2. QED BY <1>0, <1>1, <1>3, <1>5, <2>3, <3>1, TypedStill
  <2>10. RecordsInv'
    <3>1. W!Own \subseteq W!Own' /\ unseen \subseteq unseen' BY <2>3, <2>4
    <3>2. \A s \in Slots : W!Adopting(s) => W!Own' \subseteq W!Own \cup unseen' BY <2>3, <2>4
    <3>3. QED BY <1>0, <1>1, <1>3, <2>6, <3>1, <3>2, RecordsBegin
  <2>11. QED BY <2>8, <2>9, <2>10 DEF PlacesInv, NamesInv, RecordsInv
<1>8. QED BY <1>1, <1>6, <1>7

-----------------------------------------------------------------------------
\* Records move.
LEMMA ModelsAre ==
    /\ Len(W!Models) = 3 /\ W!Models[1] = Contacts /\ W!Models[2] = Boxes /\ W!Models[3] = Rules
    /\ \A j \in 1..3 : W!Models[j] \subseteq W!Records /\ W!Models[j] \cap Mails = {}
    /\ \A x \in W!Records : x \in Mails \/ \E j \in 1..3 : x \in W!Models[j]
    /\ Boxes \subseteq W!Records /\ Mails \subseteq W!Records /\ Contacts \subseteq W!Records
    /\ \A x \in Mails : x \notin Boxes /\ x \notin Contacts
    /\ \A x \in Contacts : x \notin Boxes
    /\ \A x \in Mails : BoxOf[x] # W!None => BoxOf[x] \in Boxes
<1>1. Len(W!Models) = 3 /\ W!Models[1] = Contacts /\ W!Models[2] = Boxes /\ W!Models[3] = Rules BY DEF W!Models
<1>2. \A j \in 1..3 : j = 1 \/ j = 2 \/ j = 3 OBVIOUS
<1>3. Mails \cap (Contacts \cup Boxes \cup Rules) = {} /\ Contacts \cap Boxes = {} /\ BoxOf \in [Mails -> Boxes \cup {W!None}]
  BY PlacesAssumption
<1>4. \A j \in 1..3 : W!Models[j] \subseteq W!Records /\ W!Models[j] \cap Mails = {} BY <1>1, <1>2, <1>3 DEF W!Records
<1>5. \A x \in W!Records : x \in Mails \/ \E j \in 1..3 : x \in W!Models[j] BY <1>1 DEF W!Records
<1>6. Boxes \subseteq W!Records /\ Mails \subseteq W!Records /\ Contacts \subseteq W!Records BY DEF W!Records
<1>7. QED BY <1>1, <1>3, <1>4, <1>5, <1>6

LEMMA LostAreOrphans ==
    ASSUME PlacesTyped, TasksKnow, unseen = {}, NEW r \in Slots, W!Adopting(r)
    PROVE  \A x \in W!Records : W!Lost(r, x) <=> W!IsOrphan(place[x])
<1>1. task[r].own = W!Own BY DEF TasksKnow, Knows
<1>2. \A x \in W!Records : place[x] \in PlacesNow BY DEF PlacesTyped
<1>3. QED BY <1>1, <1>2, OwnNumbers DEF W!Lost, W!IsOrphan, PlacesNow

LEMMA RecordsMove ==
    ASSUME PlacesTyped, RecordsInv, UNCHANGED <<ws, unseen>>,
           unseen = {} => \A x \in W!Records \ Mails : ~W!IsOrphan(place[x]) =>
               ~W!IsOrphan(place'[x]) /\ (x \in Boxes => place'[x] = place[x]),
           unseen = {} => \A x \in Mails : BoxOf[x] # W!None =>
               place'[x] = place[x] \/ place'[x] = place[BoxOf[x]] \/ W!IsOrphan(place[x]),
           \A r \in Slots : task'[r] = task[r] \/ (Knows(r)' /\ (unseen = {} => GoesOn(r)')),
           W!NoOrphansAfter'
    PROVE  RecordsInv'
<1>1. W!Own' = W!Own /\ (W!SlugTaken("default", 0)' <=> W!SlugTaken("default", 0)) /\ PlacesNow' = PlacesNow
  BY DEF W!Own, W!SlugTaken, PlacesNow
<1>2. TasksKnow'
  <2>1. ASSUME NEW r \in Slots, task'[r] = task[r] PROVE Knows(r)'
    BY <1>1, <2>1 DEF RecordsInv, TasksKnow, Knows, W!Adopting
  <2>2. QED BY <2>1 DEF TasksKnow
<1>3. AdoptionsGoOn'
  <2>1. SUFFICES ASSUME unseen = {}, NEW r \in Slots, task'[r] = task[r] PROVE GoesOn(r)'
    BY DEF AdoptionsGoOn
  <2>2. GoesOn(r) BY <2>1 DEF RecordsInv, AdoptionsGoOn
  <2>3. \A x \in W!Records : Done(r, x)' <=> Done(r, x) BY <2>1 DEF Done
  <2>4. \A x \in W!Records : Done(r, x) => x \notin Mails
    <3>1. task[r].model \in 1..3 BY DEF PlacesTyped, TaskRecords
    <3>2. QED BY <3>1, ModelsAre DEF Done
  <2>5. \A x \in W!Records : Done(r, x)' => ~W!IsOrphan(place'[x]) BY <2>1, <2>2, <2>3, <2>4 DEF GoesOn
  <2>6. task[r].step = "mails" => \A b \in Boxes : Done(r, b) BY ModelsAre DEF Done
  <2>7. task[r].step = "mails" => \A b \in Boxes : ~W!IsOrphan(place[b]) /\ place'[b] = place[b]
    BY <2>1, <2>2, <2>4, <2>6, ModelsAre DEF GoesOn
  <2>8. task'[r].step = "mails" => \A b \in Boxes : task'[r].boxes[b] = place'[b] BY <2>1, <2>2, <2>7 DEF GoesOn
  <2>9. ASSUME task'[r].step = "mails" /\ task'[r].clean, NEW x \in Mails PROVE Followed(r, x)'
    <3>1. Followed(r, x) BY <2>1, <2>2, <2>9 DEF GoesOn
    <3>2. SUFFICES ASSUME place'[x] # W!Absent, BoxOf[x] # W!None, BoxOf[x] \notin task'[r].left
                   PROVE  place'[x] = place'[BoxOf[x]]
      BY DEF Followed, W!Absent, W!None
    <3>3. BoxOf[x] \in Boxes BY <3>2, ModelsAre
    <3>4. place'[BoxOf[x]] = place[BoxOf[x]] BY <2>1, <2>7, <2>9, <3>3
    <3>5. CASE place'[x] = place[x] BY <2>1, <3>1, <3>2, <3>4, <3>5 DEF Followed
    <3>6. CASE place'[x] = place[BoxOf[x]] BY <3>4, <3>6
    <3>7. CASE W!IsOrphan(place[x])
      <4>1. place[x] # W!Absent BY <3>7, OwnNumbers DEF W!IsOrphan
      <4>2. place[x] = place[BoxOf[x]] BY <2>1, <3>1, <3>2, <4>1 DEF Followed
      <4>3. QED BY <2>1, <2>7, <2>9, <3>3, <3>7, <4>2
    <3>8. QED BY <2>1, <3>2, <3>5, <3>6, <3>7
  <2>10. QED BY <2>5, <2>8, <2>9 DEF GoesOn, W!IsOrphan
<1>4. QED BY <1>2, <1>3 DEF RecordsInv

LEMMA PlacedStill ==
    ASSUME PlacesInv, UNCHANGED <<ws, loaded, unseen, hasty>>, place' \in [W!Records -> PlacesNow],
           task' \in [Slots -> TaskRecords], settled' \in BOOLEAN, RecordsInv',
           \A r \in Slots : task'[r].step \in CheckedSteps =>
               task'[r].step = task[r].step /\ task'[r].name = task[r].name /\ task'[r].id = task[r].id /\ task'[r].had = task[r].had
    PROVE  PlacesInv'
<1>0. PlacesTyped /\ NamesInv BY InParts
<1>1. NamesInv' BY <1>0, NamesStay
<1>2. W!Own' = W!Own /\ PlacesNow' = PlacesNow BY DEF W!Own, PlacesNow
<1>3. PlacesTyped' BY <1>0, <1>2 DEF PlacesTyped
<1>4. QED BY <1>1, <1>3 DEF PlacesInv, NamesInv, RecordsInv

LEMMA OwnIsListed ==
    ASSUME PlacesInv, NEW r \in Slots, W!ListOwn(r)
    PROVE  PlacesInv'
<1>0. PlacesTyped /\ NamesInv /\ RecordsInv BY InParts
<1> DEFINE record == [task[r] EXCEPT !.step = "models", !.own = W!Own]
<1>1. /\ task[r].step = "own" /\ UNCHANGED <<ws, place, loaded, unseen, hasty, settled>>
      /\ task' = [task EXCEPT ![r].step = "models", ![r].own = W!Own]
  BY DEF W!ListOwn, W!At, W!OwnOf
<1>2. task[r] \in TaskRecords /\ W!Own \subseteq Nat BY <1>0, OwnNumbers DEF PlacesTyped
<1>3. /\ record \in TaskRecords /\ record.step = "models" /\ record.own = W!Own /\ record.id = task[r].id
      /\ record.model = task[r].model
  BY <1>2 DEF TaskRecords
<1>4. task' = [task EXCEPT ![r] = record] BY <1>0, <1>1 DEF PlacesTyped, TaskRecords
<1> HIDE DEF record
<1>5. task' \in [Slots -> TaskRecords] /\ task'[r] = record /\ \A s \in Slots \ {r} : task'[s] = task[s]
  BY <1>0, <1>3, <1>4, OneTask
<1>6. W!Own' = W!Own BY <1>1 DEF W!Own
<1>7. Knows(r) BY <1>0 DEF RecordsInv, TasksKnow
<1>8. record.model = 1 /\ record.id \in W!Own BY <1>1, <1>3, <1>7 DEF Knows
<1>9. Knows(r)' BY <1>3, <1>5, <1>6, <1>8 DEF Knows, W!Adopting
<1>10. GoesOn(r)' BY <1>3, <1>5, <1>8 DEF GoesOn, Done
<1>11. W!NoOrphansAfter' BY <1>0, <1>1 DEF RecordsInv, W!NoOrphansAfter, W!IsOrphan
<1>12. RecordsInv' BY <1>0, <1>1, <1>5, <1>9, <1>10, <1>11, RecordsMove
<1>13. place' \in [W!Records -> PlacesNow] /\ settled' \in BOOLEAN BY <1>0, <1>1 DEF PlacesTyped
<1>14. QED BY <1>1, <1>3, <1>5, <1>12, <1>13, PlacedStill DEF CheckedSteps

LEMMA BoxesAreListed ==
    ASSUME PlacesInv, NEW r \in Slots, W!ListBoxes(r)
    PROVE  PlacesInv'
<1>0. PlacesTyped /\ NamesInv /\ RecordsInv BY InParts
<1> DEFINE places0 == [b \in Boxes |-> place[b]]
           record == [task[r] EXCEPT !.step = "mails", !.boxes = places0, !.left = Boxes]
<1>1. /\ task[r].step = "boxes" /\ UNCHANGED <<ws, place, loaded, unseen, hasty, settled>>
      /\ task' = [task EXCEPT ![r].step = "mails", ![r].boxes = places0, ![r].left = Boxes]
  BY DEF W!ListBoxes, W!At
<1>2. task[r] \in TaskRecords BY <1>0 DEF PlacesTyped
<1>3. places0 \in [Boxes -> PlacesNow] /\ \A b \in Boxes : places0[b] = place[b] BY <1>0, ModelsAre DEF PlacesTyped
<1> HIDE DEF places0
<1>4. PlacesNow \subseteq Nat BY <1>0, OwnNumbers, PlacesAssumption DEF PlacesNow, W!None, W!Foreign, W!Absent
<1>5. places0 \in [Boxes -> Nat] BY <1>3, <1>4
<1>6. /\ record \in TaskRecords /\ record.step = "mails" /\ record.own = task[r].own /\ record.id = task[r].id
      /\ record.boxes = places0 /\ record.left = Boxes
  BY <1>2, <1>5 DEF TaskRecords
<1>7. task' = [task EXCEPT ![r] = record] BY <1>0, <1>1 DEF PlacesTyped, TaskRecords
<1> HIDE DEF record
<1>8. task' \in [Slots -> TaskRecords] /\ task'[r] = record /\ \A s \in Slots \ {r} : task'[s] = task[s]
  BY <1>0, <1>6, <1>7, OneTask
<1>9. W!Own' = W!Own /\ PlacesNow' = PlacesNow BY <1>1 DEF W!Own, PlacesNow
<1>10. Knows(r) /\ (unseen = {} => GoesOn(r)) BY <1>0 DEF RecordsInv, TasksKnow, AdoptionsGoOn
<1>11. Knows(r)' BY <1>1, <1>3, <1>6, <1>8, <1>9, <1>10 DEF Knows, W!Adopting
<1>12. ASSUME unseen = {} PROVE GoesOn(r)'
  <2>1. \A x \in W!Records : Done(r, x)' => ~W!IsOrphan(place[x]) BY <1>1, <1>6, <1>8, <1>10, <1>12 DEF GoesOn, Done
  <2>2. \A x \in Mails : Followed(r, x)' BY <1>6, <1>8, ModelsAre DEF Followed, W!None
  <2>3. QED BY <1>1, <1>3, <1>6, <1>8, <2>1, <2>2 DEF GoesOn, W!IsOrphan
<1>13. W!NoOrphansAfter' BY <1>0, <1>1 DEF RecordsInv, W!NoOrphansAfter, W!IsOrphan
<1>14. RecordsInv' BY <1>0, <1>1, <1>8, <1>11, <1>12, <1>13, RecordsMove
<1>15. place' \in [W!Records -> PlacesNow] /\ settled' \in BOOLEAN BY <1>0, <1>1 DEF PlacesTyped
<1>16. QED BY <1>1, <1>6, <1>8, <1>14, <1>15, PlacedStill DEF CheckedSteps

LEMMA ModelIsAdopted ==
    ASSUME PlacesInv, NEW r \in Slots, W!AdoptModel(r)
    PROVE  PlacesInv'
<1>0. PlacesTyped /\ NamesInv /\ RecordsInv BY InParts
<1> DEFINE m == task[r].model
           record == [task[r] EXCEPT !.step = IF m = 3 THEN "boxes" ELSE "models", !.model = IF m = 3 THEN 1 ELSE m + 1]
<1>1. /\ task[r].step = "models" /\ UNCHANGED <<ws, loaded, unseen, hasty, settled>>
      /\ place' = [x \in W!Records |-> IF x \in W!Models[m] /\ W!Lost(r, x) THEN task[r].id ELSE place[x]]
      /\ task' = [task EXCEPT ![r].step = IF m = 3 THEN "boxes" ELSE "models", ![r].model = IF m = 3 THEN 1 ELSE m + 1]
  BY ModelsAre DEF W!AdoptModel, W!At
<1>2. task[r] \in TaskRecords /\ m \in 1..3 BY <1>0 DEF PlacesTyped, TaskRecords
<1>3. /\ record \in TaskRecords /\ record.own = task[r].own /\ record.id = task[r].id
      /\ record.step = IF m = 3 THEN "boxes" ELSE "models"
      /\ record.model = IF m = 3 THEN 1 ELSE m + 1
  <2>1. (IF m = 3 THEN 1 ELSE m + 1) \in 1..3 BY <1>2
  <2>2. QED BY <1>2, <2>1 DEF TaskRecords
<1>4. task' = [task EXCEPT ![r] = record] BY <1>0, <1>1 DEF PlacesTyped, TaskRecords
<1> HIDE DEF record, m
<1>5. task' \in [Slots -> TaskRecords] /\ task'[r] = record /\ \A s \in Slots \ {r} : task'[s] = task[s]
  BY <1>0, <1>3, <1>4, OneTask
<1>6. W!Own' = W!Own BY <1>1 DEF W!Own
<1>7. Knows(r) /\ (unseen = {} => GoesOn(r)) BY <1>0 DEF RecordsInv, TasksKnow, AdoptionsGoOn
<1>8. task[r].id \in W!Own /\ ~W!IsOrphan(task[r].id) BY <1>0, <1>1, <1>7, OwnNumbers DEF Knows
<1>9. \A x \in W!Records : place[x] \in PlacesNow BY <1>0 DEF PlacesTyped
<1>10. place' \in [W!Records -> PlacesNow] BY <1>1, <1>8, <1>9 DEF PlacesNow
<1>11. Knows(r)' BY <1>1, <1>3, <1>5, <1>6, <1>7 DEF Knows, W!Adopting
<1>12. unseen = {} => \A x \in W!Records : W!Lost(r, x) <=> W!IsOrphan(place[x])
  BY <1>0, <1>1, LostAreOrphans DEF RecordsInv, W!Adopting
<1>13. unseen = {} => \A x \in W!Records : ~W!IsOrphan(place[x]) => place'[x] = place[x] BY <1>1, <1>12
<1>14. \A x \in Mails : place'[x] = place[x] BY <1>1, <1>2, ModelsAre
<1>15. ASSUME unseen = {} PROVE GoesOn(r)'
  <2>1. ASSUME NEW x \in W!Records, Done(r, x)' PROVE ~W!IsOrphan(place'[x])
    <3>1. Done(r, x) \/ x \in W!Models[m]
      <4>1. CASE m = 3
        <5>1. x \notin Mails BY <1>3, <1>5, <2>1, <4>1 DEF Done
        <5>2. PICK j \in 1..3 : x \in W!Models[j] BY <5>1, ModelsAre
        <5>3. QED BY <1>1, <4>1, <5>2 DEF Done, m
      <4>2. CASE m # 3
        <5>1. record.step = "models" /\ record.model = m + 1 BY <1>3, <4>2
        <5>2. PICK j \in 1..3 : j < m + 1 /\ x \in W!Models[j] BY <1>5, <2>1, <5>1 DEF Done
        <5>3. j = m \/ j < m BY <1>2, <5>2
        <5>4. QED BY <1>1, <5>2, <5>3 DEF Done, m
      <4>3. QED BY <4>1, <4>2
    <3>2. CASE Done(r, x) BY <1>7, <1>13, <1>15, <3>2 DEF GoesOn
    <3>3. CASE x \in W!Models[m] BY <1>1, <1>8, <1>12, <1>15, <3>3
    <3>4. QED BY <3>1, <3>2, <3>3
  <2>2. task'[r].step # "mails" BY <1>3, <1>5
  <2>3. QED BY <2>1, <2>2 DEF GoesOn, W!IsOrphan
<1>16. W!NoOrphansAfter'
  <2>1. SUFFICES ASSUME settled, unseen = {} PROVE W!NoOrphansAfter' BY <1>1 DEF W!NoOrphansAfter
  <2>2. \A x \in W!Records : ~W!IsOrphan(place[x]) BY <1>0, <2>1 DEF RecordsInv, W!NoOrphansAfter
  <2>3. \A x \in W!Records : place'[x] = place[x] BY <1>13, <2>1, <2>2
  <2>4. place' = place BY <1>0, <1>10, <2>3 DEF PlacesTyped
  <2>5. QED BY <1>0, <1>1, <2>4 DEF RecordsInv, W!NoOrphansAfter, W!IsOrphan
<1>17. RecordsInv' BY <1>0, <1>1, <1>5, <1>11, <1>13, <1>14, <1>15, <1>16, RecordsMove
<1>18. settled' \in BOOLEAN BY <1>0, <1>1 DEF PlacesTyped
<1>19. QED BY <1>1, <1>3, <1>5, <1>10, <1>17, <1>18, PlacedStill DEF CheckedSteps

LEMMA BoxIsFollowed ==
    ASSUME PlacesInv, NEW r \in Slots, NEW b \in Boxes, W!FollowBox(r, b)
    PROVE  PlacesInv'
<1>0. PlacesTyped /\ NamesInv /\ RecordsInv BY InParts
<1> DEFINE record == [task[r] EXCEPT !.left = task[r].left \ {b}]
<1>1. /\ task[r].step = "mails" /\ UNCHANGED <<ws, loaded, unseen, hasty, settled>>
      /\ place' = [x \in W!Records |-> IF x \in Mails /\ BoxOf[x] = b /\ place[x] # W!Absent THEN task[r].boxes[b] ELSE place[x]]
      /\ task' = [task EXCEPT ![r].left = @ \ {b}]
  BY DEF W!FollowBox, W!At, W!Follow
<1>2. task[r] \in TaskRecords BY <1>0 DEF PlacesTyped
<1>3. /\ record \in TaskRecords /\ record.own = task[r].own /\ record.id = task[r].id /\ record.step = "mails"
      /\ record.boxes = task[r].boxes /\ record.left = task[r].left \ {b} /\ record.clean = task[r].clean
  BY <1>1, <1>2 DEF TaskRecords
<1>4. task' = [task EXCEPT ![r] = record] BY <1>0, <1>1 DEF PlacesTyped, TaskRecords
<1> HIDE DEF record
<1>5. task' \in [Slots -> TaskRecords] /\ task'[r] = record /\ \A s \in Slots \ {r} : task'[s] = task[s]
  BY <1>0, <1>3, <1>4, OneTask
<1>6. W!Own' = W!Own /\ PlacesNow' = PlacesNow BY <1>1 DEF W!Own, PlacesNow
<1>7. Knows(r) /\ (unseen = {} => GoesOn(r)) BY <1>0 DEF RecordsInv, TasksKnow, AdoptionsGoOn
<1>8. task[r].boxes[b] \in PlacesNow BY <1>1, <1>7 DEF Knows
<1>9. \A x \in W!Records : place[x] \in PlacesNow BY <1>0 DEF PlacesTyped
<1>10. place' \in [W!Records -> PlacesNow] BY <1>1, <1>8, <1>9
<1>11. Knows(r)' BY <1>1, <1>3, <1>5, <1>6, <1>7 DEF Knows, W!Adopting
<1>12. \A x \in W!Records \ Mails : place'[x] = place[x] BY <1>1
<1>13. unseen = {} => task[r].boxes[b] = place[b] BY <1>1, <1>7 DEF GoesOn
<1>14. unseen = {} => \A x \in Mails :
          IF BoxOf[x] = b /\ place[x] # W!Absent THEN place'[x] = place[b] ELSE place'[x] = place[x]
  BY <1>1, <1>13, ModelsAre
<1>15. \A c \in Boxes : place'[c] = place[c] BY <1>12, ModelsAre
<1>16. ASSUME unseen = {} PROVE GoesOn(r)'
  <2>1. ASSUME NEW x \in W!Records, Done(r, x)' PROVE ~W!IsOrphan(place'[x])
    <3>1. x \notin Mails BY <1>3, <1>5, <2>1 DEF Done
    <3>2. QED BY <1>1, <1>7, <1>12, <1>16, <3>1 DEF GoesOn, Done
  <2>2. \A c \in Boxes : task'[r].boxes[c] = place'[c] BY <1>1, <1>3, <1>5, <1>7, <1>15, <1>16 DEF GoesOn
  <2>3. ASSUME task'[r].clean, NEW x \in Mails PROVE Followed(r, x)'
    <3>1. Followed(r, x) BY <1>1, <1>3, <1>5, <1>7, <1>16, <2>3 DEF GoesOn
    <3>2. SUFFICES ASSUME place'[x] # W!Absent, BoxOf[x] # W!None, BoxOf[x] \notin task[r].left \ {b}
                   PROVE  place'[x] = place'[BoxOf[x]]
      BY <1>3, <1>5 DEF Followed, W!Absent, W!None
    <3>3. BoxOf[x] \in Boxes BY <3>2, ModelsAre
    <3>4. CASE BoxOf[x] = b /\ place[x] # W!Absent BY <1>14, <1>15, <1>16, <3>4
    <3>5. CASE ~(BoxOf[x] = b /\ place[x] # W!Absent)
      <4>1. place'[x] = place[x] BY <1>14, <1>16, <3>5
      <4>2. BoxOf[x] \notin task[r].left BY <3>2, <3>5, <4>1
      <4>3. QED BY <1>15, <3>1, <3>2, <3>3, <4>1, <4>2 DEF Followed
    <3>6. QED BY <3>4, <3>5
  <2>4. QED BY <2>1, <2>2, <2>3 DEF GoesOn, W!IsOrphan
<1>17. W!NoOrphansAfter'
  <2>1. SUFFICES ASSUME settled, unseen = {} PROVE W!NoOrphansAfter' BY <1>1 DEF W!NoOrphansAfter
  <2>2. \A x \in W!Records : /\ ~W!IsOrphan(place[x])
                             /\ x \in Mails /\ place[x] # W!Absent /\ BoxOf[x] # W!None => place[x] = place[BoxOf[x]]
    BY <1>0, <2>1 DEF RecordsInv, W!NoOrphansAfter
  <2>3. \A x \in W!Records : place'[x] = place[x]
    <3>1. b # W!None BY PlacesAssumption
    <3>2. QED BY <1>12, <1>14, <2>1, <2>2, <3>1
  <2>4. place' = place BY <1>0, <1>10, <2>3 DEF PlacesTyped
  <2>5. QED BY <1>0, <1>1, <2>4 DEF RecordsInv, W!NoOrphansAfter, W!IsOrphan
<1>18. RecordsInv'
  <2>1. unseen = {} => \A x \in Mails : BoxOf[x] # W!None => place'[x] = place[x] \/ place'[x] = place[BoxOf[x]] BY <1>14
  <2>2. QED BY <1>0, <1>1, <1>5, <1>11, <1>12, <1>16, <1>17, <2>1, RecordsMove
<1>19. settled' \in BOOLEAN BY <1>0, <1>1 DEF PlacesTyped
<1>20. QED BY <1>1, <1>3, <1>5, <1>10, <1>18, <1>19, PlacedStill DEF CheckedSteps

LEMMA MailsAreAdopted ==
    ASSUME PlacesInv, NEW r \in Slots, W!AdoptMails(r)
    PROVE  PlacesInv'
<1>0. PlacesTyped /\ NamesInv /\ RecordsInv BY InParts
<1>1. /\ task[r].step = "mails" /\ task[r].left = {} /\ UNCHANGED <<ws, loaded, unseen, hasty>>
      /\ place' = [x \in W!Records |-> IF x \in Mails /\ BoxOf[x] = W!None /\ W!Lost(r, x) THEN task[r].id ELSE place[x]]
      /\ settled' = (settled \/ task[r].clean) /\ W!End(r)
  BY DEF W!AdoptMails, W!At
<1>2. task[r] \in TaskRecords BY <1>0 DEF PlacesTyped
<1>3. task' \in [Slots -> TaskRecords] /\ task'[r].step = "idle" /\ \A s \in Slots \ {r} : task'[s] = task[s]
  BY <1>0, <1>1, RequestEnds
<1>4. Knows(r) /\ (unseen = {} => GoesOn(r)) BY <1>0 DEF RecordsInv, TasksKnow, AdoptionsGoOn
<1>5. task[r].id \in W!Own /\ ~W!IsOrphan(task[r].id) BY <1>0, <1>1, <1>4, OwnNumbers DEF Knows
<1>6. \A x \in W!Records : place[x] \in PlacesNow BY <1>0 DEF PlacesTyped
<1>7. place' \in [W!Records -> PlacesNow] BY <1>1, <1>5, <1>6 DEF PlacesNow
<1>8. Knows(r)' /\ GoesOn(r)' BY <1>3 DEF Knows, GoesOn, Done, W!Adopting
<1>9. unseen = {} => \A x \in W!Records : W!Lost(r, x) <=> W!IsOrphan(place[x])
  BY <1>0, <1>1, LostAreOrphans DEF RecordsInv, W!Adopting
<1>10. \A x \in W!Records \ Mails : place'[x] = place[x] BY <1>1
<1>11. \A x \in Mails : BoxOf[x] # W!None => place'[x] = place[x] BY <1>1, ModelsAre
<1>12. \A b \in Boxes : place'[b] = place[b] BY <1>10, ModelsAre
<1>13. W!NoOrphansAfter'
  <2>1. SUFFICES ASSUME settled \/ task[r].clean, unseen = {}, NEW x \in W!Records
                 PROVE  /\ ~W!IsOrphan(place'[x])
                        /\ x \in Mails /\ place'[x] # W!Absent /\ BoxOf[x] # W!None => place'[x] = place'[BoxOf[x]]
    BY <1>1 DEF W!NoOrphansAfter, W!IsOrphan, W!Absent, W!None
  <2>2. CASE x \notin Mails
    <3>1. Done(r, x) BY <1>1, <2>2 DEF Done
    <3>2. QED BY <1>4, <1>10, <2>1, <2>2, <3>1 DEF GoesOn
  <2>3. CASE x \in Mails /\ BoxOf[x] = W!None BY <1>1, <1>5, <1>9, <2>1, <2>3
  <2>4. CASE x \in Mails /\ BoxOf[x] # W!None
    <3>1. place'[x] = place[x] /\ BoxOf[x] \in Boxes BY <1>11, <2>4, ModelsAre
    <3>2. place[x] # W!Absent => place[x] = place[BoxOf[x]]
      <4>1. CASE settled BY <1>0, <2>1, <2>4, <4>1 DEF RecordsInv, W!NoOrphansAfter
      <4>2. CASE task[r].clean
        <5>1. Followed(r, x) BY <1>1, <1>4, <2>1, <2>4, <4>2 DEF GoesOn
        <5>2. QED BY <1>1, <2>4, <5>1 DEF Followed
      <4>3. QED BY <2>1, <4>1, <4>2
    <3>3. ~W!IsOrphan(place[BoxOf[x]])
      <4>1. BoxOf[x] \in W!Records /\ BoxOf[x] \notin Mails BY <3>1, ModelsAre
      <4>2. Done(r, BoxOf[x]) BY <1>1, <4>1 DEF Done
      <4>3. QED BY <1>4, <2>1, <4>1, <4>2 DEF GoesOn
    <3>4. ~W!IsOrphan(W!Absent) BY <1>0, OwnNumbers DEF W!IsOrphan
    <3>5. place'[BoxOf[x]] = place[BoxOf[x]] BY <1>12, <3>1
    <3>6. CASE place[x] = W!Absent BY <3>1, <3>4, <3>6
    <3>7. CASE place[x] # W!Absent BY <3>1, <3>2, <3>3, <3>5, <3>7
    <3>8. QED BY <3>6, <3>7
  <2>5. QED BY <2>2, <2>3, <2>4
<1>14. RecordsInv' BY <1>0, <1>1, <1>3, <1>8, <1>10, <1>11, <1>13, RecordsMove
<1>15. settled' \in BOOLEAN BY <1>0, <1>1, <1>2 DEF PlacesTyped, TaskRecords
<1>16. QED BY <1>1, <1>3, <1>7, <1>14, <1>15, PlacedStill DEF CheckedSteps

LEMMA BackfillIsDone ==
    ASSUME PlacesInv, NEW r \in Slots, W!BackfillRecords(r)
    PROVE  PlacesInv'
<1>0. PlacesTyped /\ NamesInv /\ RecordsInv BY InParts
<1> DEFINE w == CHOOSE v \in W!Own : ws[v].slug = "default"
<1>1. /\ task[r].step = "default" /\ UNCHANGED <<ws, loaded, unseen, hasty, settled>> /\ W!End(r)
      /\ place' = [x \in W!Records |-> IF place[x] = W!None THEN w ELSE place[x]]
  BY DEF W!BackfillRecords, W!At
<1>2. w \in W!Own
  <2>1. W!SlugTaken("default", 0) BY <1>0, <1>1 DEF RecordsInv, TasksKnow, Knows
  <2>2. \E v \in W!Own : ws[v].slug = "default" BY <2>1 DEF W!SlugTaken
  <2>3. QED BY <2>2
<1> HIDE DEF w
<1>3. task' \in [Slots -> TaskRecords] /\ task'[r].step = "idle" /\ \A s \in Slots \ {r} : task'[s] = task[s]
  BY <1>0, <1>1, RequestEnds
<1>4. \A x \in W!Records : place[x] \in PlacesNow BY <1>0 DEF PlacesTyped
<1>5. place' \in [W!Records -> PlacesNow] BY <1>1, <1>2, <1>4 DEF PlacesNow
<1>6. \A x \in W!Records : ~W!IsOrphan(place[x]) => place'[x] = place[x] BY <1>1 DEF W!IsOrphan
<1>7. Knows(r)' /\ GoesOn(r)' BY <1>3 DEF Knows, GoesOn, Done, W!Adopting
<1>8. \A x \in Mails : place'[x] = place[x] \/ W!IsOrphan(place[x]) BY <1>6, ModelsAre
<1>9. W!NoOrphansAfter'
  <2>1. SUFFICES ASSUME settled, unseen = {} PROVE W!NoOrphansAfter' BY <1>1 DEF W!NoOrphansAfter
  <2>2. \A x \in W!Records : ~W!IsOrphan(place[x]) BY <1>0, <2>1 DEF RecordsInv, W!NoOrphansAfter
  <2>3. \A x \in W!Records : place'[x] = place[x] BY <1>6, <2>2
  <2>4. place' = place BY <1>0, <1>5, <2>3 DEF PlacesTyped
  <2>5. QED BY <1>0, <1>1, <2>4 DEF RecordsInv, W!NoOrphansAfter, W!IsOrphan
<1>10. RecordsInv'
  <2>1. \A x \in W!Records \ Mails : ~W!IsOrphan(place[x]) => ~W!IsOrphan(place'[x]) /\ (x \in Boxes => place'[x] = place[x])
    BY <1>6
  <2>2. QED BY <1>0, <1>1, <1>3, <1>7, <1>8, <1>9, <2>1, RecordsMove
<1>11. settled' \in BOOLEAN BY <1>0, <1>1 DEF PlacesTyped
<1>12. QED BY <1>1, <1>3, <1>5, <1>10, <1>11, PlacedStill DEF CheckedSteps

LEMMA RecordIsCreated ==
    ASSUME PlacesInv, NEW c \in W!Records, NEW w \in W!Ids, W!CreateRecord(c, w)
    PROVE  PlacesInv'
<1>0. PlacesTyped /\ NamesInv /\ RecordsInv BY InParts
<1>1. /\ c \in Contacts /\ place[c] = W!Absent /\ w \in W!Own /\ place' = [place EXCEPT ![c] = w]
      /\ UNCHANGED <<ws, loaded, task, unseen, hasty, settled>>
  BY DEF W!CreateRecord, W!ActiveWs
<1>2. ~W!IsOrphan(w) BY <1>0, <1>1, OwnNumbers
<1>3. place' \in [W!Records -> PlacesNow] BY <1>0, <1>1 DEF PlacesTyped, PlacesNow
<1>4. \A x \in W!Records : IF x = c THEN place'[x] = w ELSE place'[x] = place[x] BY <1>0, <1>1 DEF PlacesTyped
<1>5. c \notin Mails /\ c \notin Boxes BY <1>1, ModelsAre
<1>6. \A x \in Mails : place'[x] = place[x] BY <1>4, <1>5, ModelsAre
<1>7. \A x \in W!Records \ Mails : ~W!IsOrphan(place[x]) => ~W!IsOrphan(place'[x]) /\ (x \in Boxes => place'[x] = place[x])
  BY <1>2, <1>4, <1>5
<1>8. W!NoOrphansAfter'
  <2>1. SUFFICES ASSUME settled, unseen = {}, NEW x \in W!Records
                 PROVE  /\ ~W!IsOrphan(place'[x])
                        /\ x \in Mails /\ place'[x] # W!Absent /\ BoxOf[x] # W!None => place'[x] = place'[BoxOf[x]]
    BY <1>1 DEF W!NoOrphansAfter, W!IsOrphan, W!Absent, W!None
  <2>2. /\ ~W!IsOrphan(place[x])
        /\ x \in Mails /\ place[x] # W!Absent /\ BoxOf[x] # W!None => place[x] = place[BoxOf[x]]
    BY <1>0, <2>1 DEF RecordsInv, W!NoOrphansAfter
  <2>3. x \in Mails /\ BoxOf[x] # W!None => place'[BoxOf[x]] = place[BoxOf[x]] BY <1>4, <1>5, ModelsAre
  <2>4. QED BY <1>2, <1>4, <1>5, <2>1, <2>2, <2>3
<1>9. \A r \in Slots : task'[r] = task[r] BY <1>1
<1>10. RecordsInv' BY <1>0, <1>1, <1>6, <1>7, <1>8, <1>9, RecordsMove
<1>11. settled' \in BOOLEAN /\ task' \in [Slots -> TaskRecords] BY <1>0, <1>1 DEF PlacesTyped
<1>12. QED BY <1>1, <1>3, <1>9, <1>10, <1>11, PlacedStill

LEMMA MailIsSaved ==
    ASSUME PlacesInv, NEW m \in Mails, W!SaveMail(m)
    PROVE  PlacesInv'
<1>0. PlacesTyped /\ NamesInv /\ RecordsInv BY InParts
<1> DEFINE b == BoxOf[m]
           record(r) == IF task[r] = W!Free THEN W!Free ELSE [task[r] EXCEPT !.clean = FALSE]
<1>1. /\ place[m] = W!Absent /\ b # W!None /\ place' = [place EXCEPT ![m] = loaded[b]]
      /\ UNCHANGED <<ws, loaded, unseen, hasty>>
      /\ IF loaded[b] = place[b] /\ ~W!IsOrphan(place'[m])
           THEN UNCHANGED <<task, settled>>
           ELSE settled' = FALSE /\ task' = [r \in Slots |-> record(r)]
  BY DEF W!SaveMail
<1>2. b \in Boxes /\ b \in W!Records /\ b \notin Mails /\ m \in W!Records BY <1>1, ModelsAre
<1>3. loaded[b] \in PlacesNow BY <1>0, <1>2 DEF PlacesTyped
<1>4. place' \in [W!Records -> PlacesNow] BY <1>0, <1>1, <1>2, <1>3 DEF PlacesTyped
<1>5. \A x \in W!Records : IF x = m THEN place'[x] = loaded[b] ELSE place'[x] = place[x] BY <1>0, <1>1 DEF PlacesTyped
<1>6. \A x \in W!Records \ Mails : place'[x] = place[x] BY <1>5
<1>7. W!Own' = W!Own /\ PlacesNow' = PlacesNow /\ (W!SlugTaken("default", 0)' <=> W!SlugTaken("default", 0))
  BY <1>1 DEF W!Own, PlacesNow, W!SlugTaken
<1>8. CASE loaded[b] = place[b] /\ ~W!IsOrphan(place'[m]) /\ UNCHANGED <<task, settled>>
  <2>1. \A x \in Mails : place'[x] = place[x] \/ place'[x] = place[BoxOf[x]] BY <1>5, <1>8, ModelsAre
  <2>2. \A r \in Slots : task'[r] = task[r] BY <1>8
  <2>3. W!NoOrphansAfter'
    <3>1. SUFFICES ASSUME settled, unseen = {}, NEW x \in W!Records
                   PROVE  /\ ~W!IsOrphan(place'[x])
                          /\ x \in Mails /\ place'[x] # W!Absent /\ BoxOf[x] # W!None => place'[x] = place'[BoxOf[x]]
      BY <1>1, <1>8 DEF W!NoOrphansAfter, W!IsOrphan, W!Absent, W!None
    <3>2. /\ ~W!IsOrphan(place[x])
          /\ x \in Mails /\ place[x] # W!Absent /\ BoxOf[x] # W!None => place[x] = place[BoxOf[x]]
      BY <1>0, <3>1 DEF RecordsInv, W!NoOrphansAfter
    <3>3. x \in Mails /\ BoxOf[x] # W!None => place'[BoxOf[x]] = place[BoxOf[x]] BY <1>6, ModelsAre
    <3>4. QED BY <1>5, <1>8, <3>1, <3>2, <3>3
  <2>4. RecordsInv' BY <1>0, <1>1, <1>6, <2>1, <2>2, <2>3, RecordsMove
  <2>5. settled' \in BOOLEAN /\ task' \in [Slots -> TaskRecords] BY <1>0, <1>8 DEF PlacesTyped
  <2>6. QED BY <1>1, <1>4, <2>2, <2>4, <2>5, PlacedStill
<1>9. CASE settled' = FALSE /\ task' = [r \in Slots |-> record(r)]
  <2>1. ASSUME NEW r \in Slots
        PROVE  /\ task'[r] \in TaskRecords /\ task'[r].step = task[r].step /\ task'[r].name = task[r].name
               /\ task'[r].id = task[r].id /\ task'[r].had = task[r].had /\ task'[r].own = task[r].own
               /\ task'[r].model = task[r].model /\ task'[r].boxes = task[r].boxes /\ (task'[r].step = "idle" \/ ~task'[r].clean)
    <3>1. task[r] \in TaskRecords BY <1>0 DEF PlacesTyped
    <3>2. task'[r] = record(r) BY <1>9
    <3>3. CASE task[r] = W!Free BY <3>1, <3>2, <3>3, FreeIsATask
    <3>4. CASE task[r] # W!Free
      <4>1. task'[r] = [task[r] EXCEPT !.clean = FALSE] BY <3>2, <3>4
      <4>2. QED BY <3>1, <4>1 DEF TaskRecords
    <3>5. QED BY <3>3, <3>4
  <2>2. task' \in [Slots -> TaskRecords] BY <1>9, <2>1
  <2>3. ASSUME NEW r \in Slots PROVE Knows(r)' /\ (unseen = {} => GoesOn(r)')
    <3>1. ~(task'[r].step = "mails" /\ task'[r].clean) BY <2>1
    <3>2. Knows(r) /\ (unseen = {} => GoesOn(r)) BY <1>0 DEF RecordsInv, TasksKnow, AdoptionsGoOn
    <3>3. Knows(r)' BY <1>1, <1>7, <2>1, <3>2 DEF Knows, W!Adopting
    <3>4. ASSUME unseen = {} PROVE GoesOn(r)'
      <4>1. \A x \in W!Records : Done(r, x)' <=> Done(r, x) BY <2>1 DEF Done
      <4>2. \A x \in W!Records : Done(r, x) => x \notin Mails
        <5>1. task[r].model \in 1..3 BY <1>0 DEF PlacesTyped, TaskRecords
        <5>2. QED BY <5>1, ModelsAre DEF Done
      <4>3. \A x \in W!Records : Done(r, x)' => ~W!IsOrphan(place'[x]) BY <1>6, <3>2, <3>4, <4>1, <4>2 DEF GoesOn
      <4>4. task'[r].step = "mails" => \A c \in Boxes : task'[r].boxes[c] = place'[c]
        BY <1>6, <2>1, <3>2, <3>4, ModelsAre DEF GoesOn
      <4>5. QED BY <3>1, <4>3, <4>4 DEF GoesOn, W!IsOrphan
    <3>5. QED BY <3>3, <3>4
  <2>4. W!NoOrphansAfter' BY <1>9 DEF W!NoOrphansAfter
  <2>5. RecordsInv' BY <1>1, <2>3, <2>4 DEF RecordsInv, TasksKnow, AdoptionsGoOn
  <2>6. settled' \in BOOLEAN BY <1>9
  <2>7. QED BY <1>1, <1>4, <2>1, <2>2, <2>5, <2>6, PlacedStill
<1>10. QED BY <1>1, <1>8, <1>9

-----------------------------------------------------------------------------
\* Every step of the workspaces.
LEMMA PlacesBegin == W!Init => PlacesInv
<1> SUFFICES ASSUME W!Init PROVE PlacesInv OBVIOUS
<1>1. PICK s \in WorkspaceScenes : ws = s.ws /\ place = s.place BY DEF W!Init
<1>2. /\ loaded = [b \in Boxes |-> W!None] /\ task = [r \in Slots |-> W!Free]
      /\ unseen = {} /\ hasty = FALSE /\ settled = FALSE
  BY DEF W!Init
<1>3. /\ ws \in Seq(WorkspaceRecords) /\ Len(ws) <= MaxWorkspaces
      /\ \A v, w \in W!Own : ws[v].name = ws[w].name => v = w
      /\ Cardinality(W!ActiveWs) <= MaxActive
      /\ place \in [W!Records -> PlacesNow]
  BY <1>1, PlacesAssumption DEF Begins, WorkspaceRecords, PlacesNow, W!Own, W!ActiveWs
<1>4. loaded \in [Boxes -> PlacesNow] BY <1>2 DEF PlacesNow
<1>5. task \in [Slots -> TaskRecords] /\ \A r \in Slots : task[r].step = "idle" BY <1>2, FreeIsATask
<1>6. PlacesTyped BY <1>2, <1>3, <1>4, <1>5 DEF PlacesTyped
<1>7. NamesInv BY <1>3, <1>5 DEF NamesInv, OneChecked, NamesKept, PlanKept, FirstKnown, W!Checked, W!NamesUnique
<1>8. RecordsInv BY <1>2, <1>5 DEF RecordsInv, TasksKnow, Knows, AdoptionsGoOn, GoesOn, Done, W!Adopting, W!NoOrphansAfter
<1>9. QED BY <1>6, <1>7, <1>8, InParts

LEMMA PlacesStay == PlacesInv /\ UNCHANGED places => PlacesInv'
BY DEF places, PlacesInv, PlacesTyped, OneChecked, NamesKept, PlanKept, FirstKnown, TasksKnow, Knows, AdoptionsGoOn, GoesOn,
       Done, Followed, W!NoOrphansAfter, W!NamesUnique, W!Own, W!ActiveWs, W!SlugTaken, W!Checked, W!Adopting, W!IsOrphan, PlacesNow

LEMMA PlacesGoOn == PlacesInv /\ [W!Next]_places => PlacesInv'
<1> SUFFICES ASSUME PlacesInv, W!Next PROVE PlacesInv' BY PlacesStay
<1>1. ASSUME NEW r \in Slots, W!Step(r) PROVE PlacesInv'
  <2>1. CASE W!assertAvailable(r) \/ W!LookForActive(r) BY <2>1, ChecksGoOn
  <2>2. CASE W!SaveWorkspace(r) BY <2>2, WorkspaceIsSaved
  <2>3. CASE W!SaveName(r) BY <2>3, NameIsSaved
  <2>4. CASE W!ListOwn(r) BY <2>4, OwnIsListed
  <2>5. CASE W!AdoptModel(r) BY <2>5, ModelIsAdopted
  <2>6. CASE W!ListBoxes(r) BY <2>6, BoxesAreListed
  <2>7. CASE W!AdoptMails(r) BY <2>7, MailsAreAdopted
  <2>8. CASE W!BackfillRecords(r) BY <2>8, BackfillIsDone
  <2>9. CASE \E b \in Boxes : W!FollowBox(r, b) BY <2>9, BoxIsFollowed
  <2>10. QED BY <1>1, <2>1, <2>2, <2>3, <2>4, <2>5, <2>6, <2>7, <2>8, <2>9 DEF W!Step
<1>2. ASSUME NEW r \in Slots, W!Repair(r) \/ W!Fault(r) PROVE PlacesInv' BY <1>2, ChecksGoOn
<1>3. ASSUME NEW r \in Slots, W!BackfillDefault(r) PROVE PlacesInv' BY <1>3, DefaultIsThere
<1>4. ASSUME NEW r \in Slots, \E n \in Names, s \in Slugs : W!Create(r, n, s) PROVE PlacesInv' BY <1>4, ChecksGoOn
<1>5. ASSUME NEW r \in Slots, \E w \in W!Ids, n \in Names : W!Rename(r, w, n) PROVE PlacesInv' BY <1>5, ChecksGoOn
<1>6. ASSUME NEW w \in W!Ids, W!Remove(w) PROVE PlacesInv' BY <1>6, IsRemoved
<1>7. ASSUME NEW w \in W!Ids, NEW x \in W!Records, W!CreateRecord(x, w) PROVE PlacesInv' BY <1>7, RecordIsCreated
<1>8. ASSUME NEW b \in Boxes, W!StartPass(b) PROVE PlacesInv' BY <1>8, PassStarts
<1>9. ASSUME NEW m \in Mails, W!SaveMail(m) PROVE PlacesInv' BY <1>9, MailIsSaved
<1>10. QED BY <1>1, <1>2, <1>3, <1>4, <1>5, <1>6, <1>7, <1>8, <1>9 DEF W!Next

LEMMA PlacesHold == PlacesInv => WorkspacesInOrder
<1> SUFFICES ASSUME PlacesInv PROVE WorkspacesInOrder OBVIOUS
<1>0. PlacesTyped /\ NamesInv /\ RecordsInv BY InParts
<1>1. \A w \in W!Own : ws[w] \in WorkspaceRecords BY <1>0, OwnNumbers
<1>2. W!Own \subseteq W!Ids BY <1>0, OwnNumbers DEF W!Ids
<1>3. W!TypeOK BY <1>0, <1>1, <1>2 DEF PlacesTyped, W!TypeOK, WorkspaceRecords, PlacesNow
<1>4. W!WithinPlan BY <1>0, WorkspacesCounted DEF NamesInv, PlanKept, W!WithinPlan
<1>5. QED BY <1>0, <1>3, <1>4 DEF WorkspacesInOrder, W!WorkspacesInOrder, NamesInv, NamesKept, RecordsInv

\* What is in a workspace that the adoptions at work know stays there.
LEMMA KnownStay ==
    ASSUME PlacesInv, W!Next, NEW x \in W!Records \ Mails, place[x] \in W!Own, place[x] \notin unseen
    PROVE  place'[x] = place[x]
<1>0. PlacesTyped /\ RecordsInv BY InParts
<1>1. place[x] # W!None /\ place[x] # W!Absent BY <1>0, OwnNumbers
<1>2. ASSUME NEW r \in Slots, W!AdoptModel(r) PROVE place'[x] = place[x]
  <2>1. place[x] \in task[r].own BY <1>0, <1>2 DEF RecordsInv, TasksKnow, Knows, W!AdoptModel, W!At, W!Adopting
  <2>2. QED BY <1>2, <2>1 DEF W!AdoptModel, W!Lost
<1>3. ASSUME NEW r \in Slots, NEW b \in Boxes, W!FollowBox(r, b) PROVE place'[x] = place[x] BY <1>3 DEF W!FollowBox
<1>4. ASSUME NEW r \in Slots, W!AdoptMails(r) PROVE place'[x] = place[x] BY <1>4 DEF W!AdoptMails
<1>5. ASSUME NEW r \in Slots, W!BackfillRecords(r) PROVE place'[x] = place[x] BY <1>1, <1>5 DEF W!BackfillRecords
<1>6. ASSUME NEW c \in W!Records, NEW w \in W!Ids, W!CreateRecord(c, w) PROVE place'[x] = place[x]
  BY <1>0, <1>1, <1>6 DEF W!CreateRecord, PlacesTyped
<1>7. ASSUME NEW m \in Mails, W!SaveMail(m) PROVE place'[x] = place[x] BY <1>0, <1>7 DEF W!SaveMail, PlacesTyped
<1>8. CASE place' = place BY <1>8
<1>9. QED BY <1>2, <1>3, <1>4, <1>5, <1>6, <1>7, <1>8
     DEF W!Next, W!Step, W!assertAvailable, W!LookForActive, W!SaveWorkspace, W!SaveName, W!ListOwn, W!ListBoxes,
         W!Repair, W!BackfillDefault, W!Fault, W!Create, W!Rename, W!Remove, W!StartPass

\* The first active workspace is one of a request that goes on to adopt.
LEMMA FirstGoesOn ==
    ASSUME PlacesInv, W!Next, ~hasty, W!ActiveWs = {}, W!ActiveWs' # {}
    PROVE  \E r \in Slots : task'[r].step \in {"own", "default"}
<1>0. PlacesTyped /\ NamesInv /\ RecordsInv BY InParts
<1>1. CASE ws' = ws BY <1>1 DEF W!ActiveWs, W!Own
<1>2. ASSUME NEW w \in W!Ids, W!Remove(w) PROVE FALSE BY <1>2 DEF W!Remove
<1>3. ASSUME NEW r \in Slots, W!SaveName(r) PROVE FALSE
  <2> DEFINE w == task[r].id   record == [ws[w] EXCEPT !.name = task[r].name]
  <2>1. task[r].step = "rename" /\ ws' = [ws EXCEPT ![w] = record] BY <1>3 DEF W!SaveName, W!At
  <2>2. w \in W!Own BY <1>0, <2>1 DEF RecordsInv, TasksKnow, Knows
  <2>3. ws[w] \in WorkspaceRecords /\ task[r].name \in W!Titles BY <1>0, <2>2, OwnNumbers DEF PlacesTyped, TaskRecords
  <2>4. record \in WorkspaceRecords /\ record.active = ws[w].active BY <2>3 DEF WorkspaceRecords
  <2> HIDE DEF w, record
  <2>5. W!Own' = W!Own /\ ws'[w] = record /\ \A v \in W!Own \ {w} : ws'[v] = ws[v] BY <1>0, <2>1, <2>2, <2>4, Rewritten
  <2>6. W!ActiveWs' = W!ActiveWs BY <2>4, <2>5 DEF W!ActiveWs
  <2>7. QED BY <2>6
<1>4. ASSUME NEW r \in Slots, W!SaveWorkspace(r), ws' # ws PROVE task'[r].step = "own"
  <2>1. task[r].step = "save" BY <1>4 DEF W!SaveWorkspace, W!At
  <2>2. ~task[r].had BY <1>0, <2>1 DEF NamesInv, FirstKnown
  <2>3. task' = [task EXCEPT ![r] = [W!Free EXCEPT !.step = "own", !.id = Len(ws) + 1]] BY <1>4, <2>2 DEF W!SaveWorkspace
  <2>4. QED BY <1>0, <2>3 DEF PlacesTyped, W!Free
<1>5. ASSUME NEW r \in Slots, W!BackfillDefault(r) PROVE task'[r].step = "default"
  BY <1>0, <1>5 DEF W!BackfillDefault, PlacesTyped, W!Free
<1>6. QED BY <1>1, <1>2, <1>3, <1>4, <1>5
     DEF W!Next, W!Step, W!assertAvailable, W!LookForActive, W!ListOwn, W!AdoptModel, W!ListBoxes, W!FollowBox, W!AdoptMails,
         W!BackfillRecords, W!Repair, W!Fault, W!Create, W!Rename, W!CreateRecord, W!StartPass, W!SaveMail

LEMMA AdoptsAsItShould == PlacesInv /\ [W!Next]_places => [W!AdoptsRightly]_places
<1> SUFFICES ASSUME PlacesInv, W!Next PROVE W!AdoptsRightly OBVIOUS
<1>1. QED BY KnownStay, FirstGoesOn DEF W!AdoptsRightly

\* Names and plan hold where requests did not meet (create and update check an await
\* before they save), and an adoption that nothing disturbed leaves no record without
\* a workspace of the account and no mail away from its mailbox (adoptOrphans).
THEOREM WorkspacesKept == MCSpec => []WorkspacesInOrder
<1>1. MCInit => PlacesInv BY PlacesBegin DEF MCInit
<1>2. PlacesInv /\ [MCNext]_<<vars, theirs, places>> => PlacesInv'
  <2>1. [MCNext]_<<vars, theirs, places>> => [W!Next]_places BY DEF MCNext
  <2>2. QED BY <2>1, PlacesGoOn
<1>3. QED BY <1>1, <1>2, PlacesHold, PTL DEF MCSpec

\* An adoption leaves the records of the workspaces it knew alone, and the first active
\* workspace of an account is followed by an adoption (create, backfillDefaultWorkspace).
THEOREM AdoptionKept == MCSpec => Adoption
<1>1. MCInit => PlacesInv BY PlacesBegin DEF MCInit
<1>2. [MCNext]_<<vars, theirs, places>> => [W!Next]_places BY DEF MCNext
<1>3. PlacesInv /\ [MCNext]_<<vars, theirs, places>> => PlacesInv' BY <1>2, PlacesGoOn
<1>4. PlacesInv /\ [MCNext]_<<vars, theirs, places>> => [W!AdoptsRightly]_places BY <1>2, AdoptsAsItShould
<1>5. QED BY <1>1, <1>3, <1>4, PTL DEF MCSpec, Adoption
=============================================================================
