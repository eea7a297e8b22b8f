------------------------------ MODULE MCAccess ------------------------------
(* A small instance of three parts of an account that share nothing but its  *)
(* users: memberships and invitations (Access), the password of one of them  *)
(* (Sessions) and the workspaces (Workspaces).  In a scene one of the three  *)
(* is at work and the bounds of the others are zero.                         *)
EXTENDS Access, Sequences, TLC

CONSTANTS p1, p2, p3, i1, i2, w1, w2, k1, k2, b1, a1, e1, e2, e3,
          PasswordScenes, WorkspaceScenes,
          Second, AccessLife, RefreshLife, Gap, LinkLife, MaxLinks,  \* durations, links
          Names, Slugs, MaxWorkspaces, MaxActive, Contacts, Boxes, Rules, Mails, BoxOf

VARIABLES now, password, epoch, changedAt, links, made, held, uses, tokens, changes, work, crossed, bounds,
          ws, place, loaded, task, unseen, hasty, settled, limits

TheBoxOf == (e1 :> b1) @@ (e2 :> 0) @@ (e3 :> b1)

S == INSTANCE Sessions WITH budget <- bounds, Scenes <- PasswordScenes
W == INSTANCE Workspaces WITH budget <- limits, Scenes <- WorkspaceScenes

-----------------------------------------------------------------------------
PasswordKinds  == {"logins", "refreshes", "forgets", "changes", "updates", "faults", "losses", "expiries",
                   "ticks", "forgotten"}
WorkspaceKinds == {"creates", "updates", "removals", "repairs", "backfills", "records", "passes", "faults"}
Bounds(kinds, f) == [k \in kinds |-> IF k \in DOMAIN f THEN f[k] ELSE 0]
None0(kinds)     == [k \in kinds |-> 0]

Users(f, none) == [p \in People |-> IF p \in DOMAIN f THEN f[p] ELSE none]
Scene(h, u, m, b) == [tenant |-> h # <<>>, home |-> Users(h, None), userRole |-> Users(u, "agent"),
                      member |-> Users(m, None), budget |-> Bounds(Kinds, b)]
Admin == p1 :> "admin"
Owner == p1 :> "owner"
\* A new account; a legacy one with two admins; with an agent; one whose owner
\* invites; one where he also grants and revokes; two managers who invite.
Registering == Scene(<<>>, <<>>, <<>>, [uses |-> 2, faults |-> 1])
Legacy      == Scene(p1 :> Here @@ p2 :> Here, Admin @@ p2 :> "admin", <<>>, [uses |-> 3])
Changing    == Scene(p1 :> Here @@ p2 :> Here, Admin @@ p2 :> "admin", Owner, [uses |-> 2, roles |-> 1])
Revoking    == Scene(p1 :> Here @@ p3 :> Here, Admin, Owner, [uses |-> 1, revokes |-> 1, grants |-> 1])
Inviting    == Scene(p1 :> Here, Admin, Owner, [invites |-> 1, cancels |-> 1, faults |-> 1])
Expiring    == Scene(p1 :> Here @@ p3 :> Away, Admin, Owner, [invites |-> 2, expiries |-> 1])
Granting    == Scene(p1 :> Here @@ p3 :> Away, Admin, Owner, [invites |-> 1, revokes |-> 1, faults |-> 1])
QuietAccess == Scene(p1 :> Here, Admin, Owner, <<>>)
QuietOnly   == {QuietAccess}
LegacyOnly  == {QuietAccess, Legacy}
AllScenes == {QuietAccess, Registering, Legacy, Changing, Revoking, Inviting, Expiring, Granting}
AllOffers == {[to |-> p3, role |-> "agent", wks |-> {w1, w2}], [to |-> p1, role |-> "manager", wks |-> {}]}

-----------------------------------------------------------------------------
\* A login, a refresh and a change; a change by update; a user who forgot.
Changed   == Bounds(PasswordKinds, [logins |-> 1, refreshes |-> 1, changes |-> 1, ticks |-> 6])
Updated   == Bounds(PasswordKinds, [logins |-> 1, changes |-> 1, updates |-> 1, ticks |-> 5])
Forgotten == Bounds(PasswordKinds, [forgotten |-> 1, forgets |-> 1, losses |-> 1, faults |-> 1, expiries |-> 1])
QuietPassword == None0(PasswordKinds)
AllPasswords  == {QuietPassword, Changed, Updated, Forgotten}
UpdatedOnly   == {QuietPassword, Updated}
NoPasswords   == {QuietPassword}

-----------------------------------------------------------------------------
There(n, s, a) == [name |-> n, slug |-> s, active |-> a]
Account(w, f, b) == [ws |-> w, place |-> [x \in {k1, k2, b1, a1, e1, e2, e3} |-> IF x \in DOMAIN f THEN f[x] ELSE 5],
                     budget |-> Bounds(WorkspaceKinds, b)]
\* 0: no workspace, 4: another tenant's, 5: the record is not there.
Orphans == (k1 :> 0) @@ (b1 :> 0) @@ (a1 :> 4) @@ (e1 :> 4) @@ (e2 :> 0)
\* The first workspaces of an account; a repair while another is created; one
\* with a deactivated workspace; requests for the same names; a full plan.
First     == Account(<<>>, Orphans, [creates |-> 2])
Repairing == Account(<<There("x", "sx", TRUE)>>, Orphans, [repairs |-> 1, creates |-> 1, records |-> 1])
Passing   == Account(<<There("x", "sx", FALSE), There("y", "sy", TRUE)>>,
                     (k1 :> 1) @@ (b1 :> 1) @@ (e1 :> 2) @@ (a1 :> 0), [repairs |-> 1, passes |-> 1, backfills |-> 1])
Naming    == Account(<<There("x", "sx", TRUE)>>, k1 :> 1, [creates |-> 1, updates |-> 1, removals |-> 1, faults |-> 1])
Full      == Account(<<There("v", "sv", TRUE), There("x", "sx", TRUE)>>, k1 :> 1, [creates |-> 1, removals |-> 1])
QuietAccount  == Account(<<>>, <<>>, <<>>)
AllAccounts   == {QuietAccount, First, Repairing, Passing, Naming, Full}
RepairingOnly == {QuietAccount, Repairing}
NoAccounts    == {QuietAccount}

-----------------------------------------------------------------------------
\* An account begins with workspaces whose names differ, within the plan, and records
\* in one of them, in none, in a stranger's or not there yet; mails have their mailbox.
Begins(s) ==
    /\ s.ws \in Seq([name : W!Titles, slug : W!Titles, active : BOOLEAN]) /\ Len(s.ws) <= MaxWorkspaces
    /\ \A v, w \in DOMAIN s.ws : s.ws[v].name = s.ws[w].name => v = w
    /\ Cardinality({w \in DOMAIN s.ws : s.ws[w].active}) <= MaxActive
    /\ s.place \in [W!Records -> DOMAIN s.ws \cup {W!None, W!Foreign, W!Absent}]
    /\ \A m \in Mails : s.place[m] # W!Absent /\ BoxOf[m] # W!None => s.place[BoxOf[m]] # W!Absent

ASSUME PlacesAssumption ==
    /\ MaxWorkspaces \in Nat /\ MaxActive \in Nat
    /\ Mails \cap (Contacts \cup Boxes \cup Rules) = {} /\ Contacts \cap Boxes = {}
    /\ BoxOf \in [Mails -> Boxes \cup {W!None}] /\ W!None \notin Boxes
    /\ \A s \in WorkspaceScenes : Begins(s)

\* At most one of the three has anything to do.
MCInit ==
    /\ Init /\ S!Init /\ W!Init
    /\ \/ budget = None0(Kinds) /\ tenant /\ bounds = QuietPassword
       \/ budget = None0(Kinds) /\ tenant /\ limits = None0(WorkspaceKinds)
       \/ bounds = QuietPassword /\ limits = None0(WorkspaceKinds)

theirs == <<now, password, epoch, changedAt, links, made, held, uses, tokens, changes, work, crossed, bounds>>
places == <<ws, place, loaded, task, unseen, hasty, settled, limits>>

MCNext ==
    \/ Next /\ UNCHANGED <<theirs, places>>
    \/ S!Next /\ UNCHANGED <<vars, places>>
    \/ W!Next /\ UNCHANGED <<vars, theirs>>

MCSpec == MCInit /\ [][MCNext]_<<vars, theirs, places>> /\ Fairness /\ S!Fairness

-----------------------------------------------------------------------------
\* Who forgot his password gets a new one in the end.
PasswordRecovered == S!PasswordRecovered
\* A change of the password by update ends the older sessions: it does not.
UpdateEndsSessions == S!UpdateEndsSessions
\* An adoption leaves the records of every workspace alone: not of one created meanwhile.
EveryOwnLeftAlone == W!EveryOwnLeftAlone

\* A new password ends the links and sessions before it (resetPassword, JwtStrategy).
SessionsInOrder == S!SessionsInOrder
\* Names and plan hold, and an adoption leaves no record behind (assertAvailable, adopt).
WorkspacesInOrder == W!WorkspacesInOrder
\* The first workspace adopts, and no adoption takes what is not an orphan.
Adoption == [][W!AdoptsRightly]_places
=============================================================================
