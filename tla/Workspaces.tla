----------------------------- MODULE Workspaces -----------------------------
(***************************************************************************)
(* The workspaces of one account and the records that belong to them       *)
(* (WorkspacesService): names and slugs, the limit of the plan, and the    *)
(* adoption of records that have no workspace or a stranger's, by the first*)
(* workspace and by the repair at start-up.                                *)
(***************************************************************************)
EXTENDS Naturals, FiniteSets, Sequences

CONSTANTS
    Names, Slugs,
    MaxWorkspaces,   \* bound of the workspaces ever created
    MaxActive,       \* what the plan allows
    Slots,           \* requests in progress at once
    Contacts, Boxes, Rules,  \* records, in the order in which their models are updated
    Mails, BoxOf,    \* mails, and the mailbox of each or None
    Scenes           \* initial contents and bounds on what happens

Ids     == 1 .. MaxWorkspaces
None    == 0
Foreign == MaxWorkspaces + 1  \* a workspace of another tenant
Absent  == MaxWorkspaces + 2  \* the record does not exist yet

Records == Contacts \cup Boxes \cup Rules \cup Mails
Models  == <<Contacts, Boxes, Rules>>
Kinds   == {"creates", "updates", "removals", "repairs", "backfills", "records", "passes", "faults"}

VARIABLES
    ws,       \* workspaces in the order of their creation
    place,    \* workspace of each record
    loaded,   \* what a sync pass knows of the workspace of its mailbox
    task,     \* what each slot is doing
    unseen,   \* history: workspaces created after an adoption listed them
    hasty,    \* history: a request came between another's checks and its save
    settled,  \* history: an adoption ended and nothing wrote an orphan since it began
    budget

vars == <<ws, place, loaded, task, unseen, hasty, settled, budget>>

Free == [step |-> "idle", name |-> "", slug |-> "", had |-> FALSE, id |-> 0,
         own |-> {}, model |-> 1, boxes |-> <<>>, left |-> {}, clean |-> TRUE]

Init ==
    /\ \E s \in Scenes : ws = s.ws /\ place = s.place /\ budget = s.budget
    /\ loaded = [b \in Boxes |-> None]
    /\ task = [r \in Slots |-> Free]
    /\ unseen = {} /\ hasty = FALSE /\ settled = FALSE

Spend(kind)  == budget[kind] > 0 /\ budget' = [budget EXCEPT ![kind] = @ - 1]
At(r, step)  == task[r].step = step
GoTo(r, step) == task' = [task EXCEPT ![r].step = step]
End(r)       == task' = [task EXCEPT ![r] = Free]

Own       == DOMAIN ws
ActiveWs  == {w \in Own : ws[w].active}
Oldest(S) == CHOOSE w \in S : \A v \in S : w <= v
IsOrphan(p) == p \in {None, Foreign}

-----------------------------------------------------------------------------
(* Names. *)

\* Mutant of Available: a workspace that is not active does not count.
AvailableIfActive(name, slug, but) ==
    \A w \in ActiveWs \ {but} : ws[w].name # name /\ ws[w].slug # slug

\* checkAvailability and assertAvailable
Available(name, slug, but) == \A w \in Own \ {but} : ws[w].name # name /\ ws[w].slug # slug

\* Requests that have checked and not saved yet.
Checked(r) == task[r].step \in {"names", "had", "save", "rename"}

\* assertCanCreateWorkspace
PlanAllows == Cardinality(ActiveWs) < MaxActive

\* create: the plan, the names, whether there was one, the save.
Create(r, name, slug) ==
    /\ task[r] = Free /\ Spend("creates")
    /\ PlanAllows
    /\ task' = [task EXCEPT ![r] = [Free EXCEPT !.step = "names", !.name = name, !.slug = slug]]
    /\ hasty' = (hasty \/ \E s \in Slots \ {r} : Checked(s))
    /\ UNCHANGED <<ws, place, loaded, unseen, settled>>

assertAvailable(r) ==
    /\ At(r, "names")
    /\ IF Available(task[r].name, task[r].slug, 0) THEN GoTo(r, "had") ELSE End(r)
    /\ UNCHANGED <<ws, place, loaded, unseen, hasty, settled, budget>>

\* Mutant of WasFirst: only an account without any workspace has a first one.
WasFirstEver == ws = <<>>

WasFirst == ActiveWs = {}

LookForActive(r) ==
    /\ At(r, "had")
    /\ task' = [task EXCEPT ![r].step = "save", ![r].had = ~WasFirst]
    /\ UNCHANGED <<ws, place, loaded, unseen, hasty, settled, budget>>

\* The index of slugs refuses a second one, names have none.
SlugTaken(slug, but) == \E w \in Own \ {but} : ws[w].slug = slug

Adopting(r) == task[r].step \in {"models", "boxes", "mails"}

SaveWorkspace(r) ==
    LET w == Len(ws) + 1 IN
    /\ At(r, "save") /\ w \in Ids
    /\ \/ SlugTaken(task[r].slug, 0) /\ End(r) /\ UNCHANGED <<ws, unseen>>
       \/ /\ ~SlugTaken(task[r].slug, 0)
          /\ ws' = Append(ws, [name |-> task[r].name, slug |-> task[r].slug, active |-> TRUE])
          /\ unseen' = IF \E s \in Slots : Adopting(s) THEN unseen \cup {w} ELSE unseen
          /\ IF task[r].had THEN End(r)
             ELSE task' = [task EXCEPT ![r] = [Free EXCEPT !.step = "own", !.id = w]]
    /\ UNCHANGED <<place, loaded, hasty, settled, budget>>

\* update: a new name is checked against the others, then written.
Rename(r, w, name) ==
    /\ task[r] = Free /\ w \in Own /\ Spend("updates")
    /\ Available(name, ws[w].slug, w)
    /\ task' = [task EXCEPT ![r] = [Free EXCEPT !.step = "rename", !.id = w, !.name = name]]
    /\ hasty' = (hasty \/ \E s \in Slots \ {r} : Checked(s))
    /\ UNCHANGED <<ws, place, loaded, unseen, settled>>

SaveName(r) ==
    /\ At(r, "rename")
    /\ ws' = [ws EXCEPT ![task[r].id].name = task[r].name]
    /\ End(r)
    /\ UNCHANGED <<place, loaded, unseen, hasty, settled, budget>>

\* remove deactivates; the records stay where they are.
Remove(w) ==
    /\ w \in ActiveWs /\ Spend("removals")
    /\ ws' = [ws EXCEPT ![w].active = FALSE]
    /\ hasty' = (hasty \/ \E r \in Slots : Checked(r))
    /\ UNCHANGED <<place, loaded, task, unseen, settled>>

-----------------------------------------------------------------------------
(* Adoption. *)

\* repairWorkspaceData: the oldest active workspace of the account.
Repair(r) ==
    /\ task[r] = Free /\ ActiveWs # {} /\ Spend("repairs")
    /\ task' = [task EXCEPT ![r] = [Free EXCEPT !.step = "own", !.id = Oldest(ActiveWs)]]
    /\ UNCHANGED <<ws, place, loaded, unseen, hasty, settled>>

OwnOf == Own

ListOwn(r) ==
    /\ At(r, "own")
    /\ task' = [task EXCEPT ![r].step = "models", ![r].own = OwnOf]
    /\ UNCHANGED <<ws, place, loaded, unseen, hasty, settled, budget>>

\* One updateMany for each model, those of the mails apart.
Lost(r, x) == place[x] # Absent /\ place[x] \notin task[r].own

AdoptModel(r) ==
    /\ At(r, "models")
    /\ place' = [x \in Records |-> IF x \in Models[task[r].model] /\ Lost(r, x) THEN task[r].id ELSE place[x]]
    /\ task' = [task EXCEPT ![r].step = IF task[r].model = Len(Models) THEN "boxes" ELSE "models",
                            ![r].model = IF task[r].model = Len(Models) THEN 1 ELSE @ + 1]
    /\ UNCHANGED <<ws, loaded, unseen, hasty, settled, budget>>

ListBoxes(r) ==
    /\ At(r, "boxes")
    /\ task' = [task EXCEPT ![r].step = "mails", ![r].boxes = [b \in Boxes |-> place[b]], ![r].left = Boxes]
    /\ UNCHANGED <<ws, place, loaded, unseen, hasty, settled, budget>>

\* "Email messages follow the workspace of their mailbox".
Follow(r, m) == task[r].boxes[BoxOf[m]]

FollowBox(r, b) ==
    /\ At(r, "mails") /\ b \in task[r].left
    /\ place' = [x \in Records |-> IF x \in Mails /\ BoxOf[x] = b /\ place[x] # Absent THEN Follow(r, x) ELSE place[x]]
    /\ task' = [task EXCEPT ![r].left = @ \ {b}]
    /\ UNCHANGED <<ws, loaded, unseen, hasty, settled, budget>>

\* "The rest go to the target workspace".
AdoptMails(r) ==
    /\ At(r, "mails") /\ task[r].left = {}
    /\ place' = [x \in Records |-> IF x \in Mails /\ BoxOf[x] = None /\ Lost(r, x) THEN task[r].id ELSE place[x]]
    /\ settled' = (settled \/ task[r].clean)
    /\ End(r)
    /\ UNCHANGED <<ws, loaded, unseen, hasty, budget>>

\* backfillDefaultWorkspace: records with no workspace at all, those of other
\* tenants not; the default workspace is created when there is none.
BackfillDefault(r) ==
    /\ task[r] = Free /\ Spend("backfills")
    /\ \/ SlugTaken("default", 0) /\ UNCHANGED <<ws, unseen>>
       \/ /\ ~SlugTaken("default", 0) /\ Len(ws) < MaxWorkspaces
          /\ ws' = Append(ws, [name |-> "default", slug |-> "default", active |-> TRUE])
          /\ unseen' = IF \E s \in Slots : Adopting(s) THEN unseen \cup {Len(ws')} ELSE unseen
    /\ hasty' = (hasty \/ \E s \in Slots : Checked(s))
    /\ task' = [task EXCEPT ![r] = [Free EXCEPT !.step = "default"]]
    /\ UNCHANGED <<place, loaded, settled>>

BackfillRecords(r) ==
    /\ At(r, "default")
    /\ LET w == CHOOSE v \in Own : ws[v].slug = "default" IN
       place' = [x \in Records |-> IF place[x] = None THEN w ELSE place[x]]
    /\ End(r)
    /\ UNCHANGED <<ws, loaded, unseen, hasty, settled, budget>>

-----------------------------------------------------------------------------
(* What others do meanwhile. *)

\* A user creates a record in a workspace he can open.
CreateRecord(x, w) ==
    /\ x \in Contacts /\ place[x] = Absent /\ w \in ActiveWs /\ Spend("records")
    /\ place' = [place EXCEPT ![x] = w]
    /\ UNCHANGED <<ws, loaded, task, unseen, hasty, settled>>

\* A sync pass loads its mailbox and saves mails with the workspace it saw.
StartPass(b) ==
    /\ place[b] # Absent /\ Spend("passes")
    /\ loaded' = [loaded EXCEPT ![b] = place[b]]
    /\ UNCHANGED <<ws, place, task, unseen, hasty, settled>>

SaveMail(m) ==
    /\ place[m] = Absent /\ BoxOf[m] # None /\ place[BoxOf[m]] # Absent
    /\ place' = [place EXCEPT ![m] = loaded[BoxOf[m]]]
    /\ IF loaded[BoxOf[m]] = place[BoxOf[m]] /\ ~IsOrphan(place'[m])
         THEN UNCHANGED <<task, settled>>
         ELSE /\ settled' = FALSE
              /\ task' = [r \in Slots |-> IF task[r] = Free THEN Free ELSE [task[r] EXCEPT !.clean = FALSE]]
    /\ UNCHANGED <<ws, loaded, unseen, hasty, budget>>

Fault(r) ==
    /\ task[r] # Free /\ Spend("faults")
    /\ End(r)
    /\ UNCHANGED <<ws, place, loaded, unseen, hasty, settled>>

-----------------------------------------------------------------------------

Step(r) == \/ assertAvailable(r) \/ LookForActive(r) \/ SaveWorkspace(r) \/ SaveName(r)
           \/ ListOwn(r) \/ AdoptModel(r) \/ ListBoxes(r) \/ AdoptMails(r) \/ BackfillRecords(r)
           \/ \E b \in Boxes : FollowBox(r, b)

Next ==
    \/ \E r \in Slots : \/ Step(r) \/ Repair(r) \/ BackfillDefault(r) \/ Fault(r)
                        \/ \E n \in Names, s \in Slugs : Create(r, n, s)
                        \/ \E w \in Ids, n \in Names : Rename(r, w, n)
    \/ \E w \in Ids : Remove(w) \/ \E x \in Records : CreateRecord(x, w)
    \/ \E b \in Boxes : StartPass(b)
    \/ \E m \in Mails : SaveMail(m)

Spec == Init /\ [][Next]_vars

-----------------------------------------------------------------------------
(* Properties. *)

\* No two workspaces of an account have one name, the deactivated included,
\* unless two requests were between their checks and their saves: names have no
\* index of their own.  The name of the default workspace is not checked.
NamesUnique ==
    ~hasty => \A v, w \in Own : ws[v].name = ws[w].name /\ ws[v].name # "default" => v = w

\* The plan is not exceeded, with the same reservation; the default workspace
\* is created whatever the plan says.
WithinPlan ==
    ~hasty /\ ~SlugTaken("default", 0) => Cardinality(ActiveWs) <= MaxActive

\* The same without the reservation: it does not hold.
EveryOwnLeftAlone ==
    [][\A x \in Records \ Mails : place[x] \in Own => place'[x] = place[x]]_vars

\* After an adoption that nothing disturbed no record is without a workspace of
\* the account, and every mail is where its mailbox is.
NoOrphansAfter ==
    settled /\ unseen = {} => \A x \in Records :
        /\ ~IsOrphan(place[x])
        /\ x \in Mails /\ place[x] # Absent /\ BoxOf[x] # None => place[x] = place[BoxOf[x]]

\* Names and slugs: those of the beginning, of requests (an idle slot has none), and
\* of the default workspace.
Titles == Names \cup Slugs \cup {"", "default"}
          \cup UNION {{s.ws[w].name : w \in DOMAIN s.ws} \cup {s.ws[w].slug : w \in DOMAIN s.ws} : s \in Scenes}

\* Every variable keeps its type.
TypeOK ==
    /\ \A w \in Own : ws[w].name \in Titles /\ ws[w].slug \in Titles /\ ws[w].active \in BOOLEAN
    /\ Len(ws) <= MaxWorkspaces
    /\ place \in [Records -> Ids \cup {None, Foreign, Absent}]
    /\ unseen \subseteq Ids /\ hasty \in BOOLEAN /\ settled \in BOOLEAN

\* What is checked an await before it is saved (names, the plan) holds where requests
\* did not meet, and an adoption that nothing disturbed leaves no record behind.
WorkspacesInOrder == TypeOK /\ NamesUnique /\ WithinPlan /\ NoOrphansAfter

\* "The first workspace of an account adopts the data created before workspaces
\* existed", and an adoption leaves the records of the workspaces it knew alone, mails
\* apart, which follow their mailbox.
AdoptsRightly ==
    /\ \A x \in Records \ Mails : place[x] \in Own \ unseen => place'[x] = place[x]
    /\ ~hasty /\ ActiveWs = {} /\ ActiveWs' # {} => \E r \in Slots : task'[r].step \in {"own", "default"}
Adoption == [][AdoptsRightly]_vars
=============================================================================
