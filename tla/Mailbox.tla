------------------------------- MODULE Mailbox -------------------------------
(***************************************************************************)
(* One mailbox of EmailsService: the mails on the IMAP server, the local   *)
(* documents that mirror them, the passes that bring the mirror up to date *)
(* (syncAllFolders of the auto-sync loop, syncFolder on request) and what  *)
(* a user does meanwhile: read, delete, send, purge.                       *)
(*                                                                         *)
(* Every step is one call to the server or the database.  The flag         *)
(* `isFlagged` behaves as `isRead` does and is left out, as are bodies,    *)
(* addresses and the sockets.  The mailbox stays connected.                *)
(***************************************************************************)
EXTENDS Integers, FiniteSets

CONSTANTS
    Folders,           \* paths of the folders on the server
    Inbox, Sent, Trash,
    Fallback,          \* 'Sent', the path used when the server's is not known
    Mails,             \* mails that arrive or are sent
    Subject,           \* [Mails -> subjects]
    Passes, Users,     \* synchronisations, user requests that may overlap
    Keys,              \* identities of documents (`_id`)
    Limit,             \* messages of a folder a pass looks at
    MaxUid,            \* bound of the UIDs of a folder
    MaxEdits,          \* bound of what users and other mail clients do
    MaxFaults          \* bound of failing calls and restarts

ASSUME MailboxAssumption ==
    /\ {Inbox, Sent, Trash} \subseteq Folders
    /\ Mails # {}
    /\ Subject \in [Mails -> {Subject[m] : m \in Mails}]
    /\ Keys \subseteq Nat
    /\ {Limit, MaxUid, MaxEdits, MaxFaults} \subseteq Nat

VARIABLES
    server,    \* mails on the server
    nextUid,   \* [Folders -> the UID the next mail of the folder gets]
    unwritten, \* mails nobody has sent yet
    docs,      \* emailModel
    syncing,   \* TRUE: the mailbox is in the set `syncing`
    pass,      \* [Passes -> where the pass is and what it remembers]
    user,      \* [Users -> where the request is and what it remembers]
    edits, faults

vars == <<server, nextUid, unwritten, docs, syncing, pass, user, edits, faults>>

Uids == 1..MaxUid
\* messageId of a document that sendEmail stored: `local_...`.
Local == 0

ServerMail == [folder: Folders, uid: Uids, mail: Mails, read: BOOLEAN]
Doc == [key: Keys, folder: Folders \cup {Fallback}, id: Uids \cup {Local},
        mail: Mails, read: BOOLEAN]

At(f) == {s \in server : s.folder = f}
Copies(f) == {d \in docs : d.folder = f}
\* The document stored for a mail of the server.
Stands(d, s) == d.folder = s.folder /\ d.id = s.uid

IdlePass == [pc |-> "idle", kind |-> "one", folders |-> {}, folder |-> Inbox, from |-> 1,
             listed |-> {}, fresh |-> {}, todo |-> {}, doomed |-> {}]
IdleUser == [pc |-> "idle", key |-> 0, folder |-> Inbox, id |-> Local,
             mail |-> CHOOSE m \in Mails : TRUE, read |-> FALSE]

Init ==
    /\ server = {}
    /\ nextUid = [f \in Folders |-> 1]
    /\ unwritten = Mails
    /\ docs = {}
    /\ syncing = FALSE
    /\ pass = [p \in Passes |-> IdlePass]
    /\ user = [u \in Users |-> IdleUser]
    /\ edits = 0 /\ faults = 0

-----------------------------------------------------------------------------
(* The server and other mail clients. *)

Edit  == edits < MaxEdits /\ edits' = edits + 1
Fault == faults < MaxFaults /\ faults' = faults + 1

\* The server gives a mail the next UID of the folder.
Deliver(f, m, read) ==
    /\ nextUid[f] \in Uids
    /\ nextUid' = [nextUid EXCEPT ![f] = @ + 1]
    /\ server' = server \cup {[folder |-> f, uid |-> nextUid[f], mail |-> m, read |-> read]}

SetRead(s, read) == server' = (server \ {s}) \cup {[s EXCEPT !.read = read]}

\* A rule of the server may file a mail in the Trash.
Arrive(m, f) ==
    /\ m \in unwritten
    /\ unwritten' = unwritten \ {m}
    /\ Deliver(f, m, FALSE)
    /\ UNCHANGED <<docs, syncing, pass, user, edits, faults>>

ReadElsewhere(s) ==
    /\ Edit
    /\ SetRead(s, ~s.read)
    /\ UNCHANGED <<nextUid, unwritten, docs, syncing, pass, user, faults>>

ExpungeElsewhere(s) ==
    /\ Edit
    /\ server' = server \ {s}
    /\ UNCHANGED <<nextUid, unwritten, docs, syncing, pass, user, faults>>

-----------------------------------------------------------------------------
(* The passes. *)

passEnv == <<server, nextUid, unwritten, user, edits, faults>>

syncAllFolders(p) ==
    /\ pass[p].pc = "idle"
    /\ ~syncing
    /\ syncing' = TRUE
    /\ pass' = [pass EXCEPT ![p].pc = "list", ![p].kind = "all"]
    /\ UNCHANGED <<passEnv, docs>>

syncFolder(p, f) ==
    /\ pass[p].pc = "idle"
    /\ Edit
    /\ pass' = [pass EXCEPT ![p].pc = "status", ![p].kind = "one", ![p].folder = f]
    /\ UNCHANGED <<server, nextUid, unwritten, docs, syncing, user, faults>>

\* client.list; documents under paths the server does not have are dropped.
ListFolders(p) ==
    /\ pass[p].pc = "list"
    /\ docs' = {d \in docs : d.folder \in Folders}
    /\ pass' = [pass EXCEPT ![p].pc = "next", ![p].folders = Folders]
    /\ UNCHANGED <<passEnv, syncing>>

\* The folders follow one another in the order of the list, whatever it is.
NextFolder(p) ==
    LET f == CHOOSE f \in pass[p].folders : TRUE
    IN  /\ pass[p].pc = "next"
        /\ pass[p].folders # {}
        /\ pass' = [pass EXCEPT ![p].pc = "status", ![p].folder = f, ![p].folders = @ \ {f}]
        /\ UNCHANGED <<passEnv, docs, syncing>>

\* The `finally` block.
Finish(p) ==
    /\ pass[p].pc = "next"
    /\ pass[p].folders = {}
    /\ syncing' = FALSE
    /\ pass' = [pass EXCEPT ![p] = IdlePass]
    /\ UNCHANGED <<passEnv, docs>>

\* The pass is through with its folder: to the next one, or done.
EndOfFolder(p) ==
    IF pass[p].kind = "all"
    THEN [IdlePass EXCEPT !.pc = "next", !.kind = "all", !.folders = pass[p].folders]
    ELSE IdlePass

\* The first UID asked for.  `total` counts messages, the range is one of UIDs.
WindowStart(total) == IF total > Limit THEN total - Limit + 1 ELSE 1

Status(p) ==
    LET total == Cardinality(At(pass[p].folder))
    IN  /\ pass[p].pc = "status"
        /\ pass' = [pass EXCEPT ![p].pc = IF total = 0 THEN "empty" ELSE "fetch",
                                ![p].from = WindowStart(total)]
        /\ UNCHANGED <<passEnv, docs, syncing>>

\* "Empty folder on the server: drop local leftovers."
DropLeftovers(p) ==
    /\ pass[p].pc = "empty"
    /\ docs' = docs \ Copies(pass[p].folder)
    /\ pass' = [pass EXCEPT ![p] = EndOfFolder(p)]
    /\ UNCHANGED <<passEnv, syncing>>

\* `from:*` always has the last mail of the folder in it.
Fetch(p) ==
    LET here == At(pass[p].folder)
    IN  /\ pass[p].pc = "fetch"
        /\ pass' = [pass EXCEPT ![p].pc = "compare",
                ![p].listed = {s \in here : s.uid >= pass[p].from \/ \A t \in here : t.uid <= s.uid}]
        /\ UNCHANGED <<passEnv, docs, syncing>>

\* What is new, and what has another flag than the document read just now.
Compare(p) ==
    LET known == {s \in pass[p].listed : \E d \in docs : Stands(d, s)}
    IN  /\ pass[p].pc = "compare"
        /\ pass' = [pass EXCEPT
                ![p].pc = "flags",
                ![p].fresh = pass[p].listed \ known,
                ![p].todo = {s \in known : \E d \in docs : Stands(d, s) /\ d.read # s.read}]
        /\ UNCHANGED <<passEnv, docs, syncing>>

UpdateFlag(p, s) ==
    /\ pass[p].pc = "flags"
    /\ s \in pass[p].todo
    /\ docs' = {IF Stands(d, s) THEN [d EXCEPT !.read = s.read] ELSE d : d \in docs}
    /\ pass' = [pass EXCEPT ![p].todo = @ \ {s}]
    /\ UNCHANGED <<passEnv, syncing>>

\* Documents of the folder the server did not list, from the first one it listed on.
FindGone(p) ==
    LET uids == {s.uid : s \in pass[p].listed}
        gone == {d \in Copies(pass[p].folder) : /\ d.id # Local
                                                /\ d.id \notin uids
                                                /\ uids = {} \/ \E n \in uids : n <= d.id}
    IN  /\ pass[p].pc = "flags"
        /\ pass[p].todo = {}
        /\ pass' = [pass EXCEPT ![p].pc = "gone", ![p].doomed = {d.key : d \in gone}]
        /\ UNCHANGED <<passEnv, docs, syncing>>

DeleteGone(p) ==
    /\ pass[p].pc = "gone"
    /\ docs' = {d \in docs : d.key \notin pass[p].doomed}
    /\ pass' = [pass EXCEPT ![p].pc = "save", ![p].doomed = {}, ![p].todo = pass[p].fresh]
    /\ UNCHANGED <<passEnv, syncing>>

\* Our own copies of sent mails that a new mail of this subject may replace.
OwnCopies(f, subject) == {d \in Copies(f) : d.id = Local /\ Subject[d.mail] = subject}

\* A new mail takes the place of one copy.  findOne and deleteOne by _id are one
\* step: nothing between them changes which copy goes.
ReplaceLocal(p, s) ==
    /\ pass[p].pc = "save"
    /\ s \in pass[p].todo
    /\ IF OwnCopies(s.folder, Subject[s.mail]) = {}
       THEN UNCHANGED docs
       ELSE \E d \in OwnCopies(s.folder, Subject[s.mail]) : docs' = docs \ {d}
    /\ pass' = [pass EXCEPT ![p].todo = @ \ {s}]
    /\ UNCHANGED <<passEnv, syncing>>

\* Identities nobody refers to.
FreeKeys ==
    Keys \ ({d.key : d \in docs} \cup UNION {pass[p].doomed : p \in Passes}
              \cup {user[u].key : u \in Users})

NewKey == CHOOSE k \in FreeKeys : TRUE

\* Mutant of Insert: the index on mailbox, folder and messageId is not unique.
InsertAnyway(s) ==
    /\ FreeKeys # {}
    /\ docs' = docs \cup {[key |-> NewKey, folder |-> s.folder, id |-> s.uid,
                           mail |-> s.mail, read |-> s.read]}

\* Mutant of Insert: the folder is the default one.
InsertInInbox(s) ==
    IF \E d \in docs : d.folder = Inbox /\ d.id = s.uid
    THEN UNCHANGED docs
    ELSE /\ FreeKeys # {}
         /\ docs' = docs \cup {[key |-> NewKey, folder |-> Inbox, id |-> s.uid,
                                mail |-> s.mail, read |-> s.read]}

\* doc.save; the unique index refuses what another pass stored first.
Insert(s) ==
    IF \E d \in docs : Stands(d, s)
    THEN UNCHANGED docs
    ELSE /\ FreeKeys # {}
         /\ docs' = docs \cup {[key |-> NewKey, folder |-> s.folder, id |-> s.uid,
                                mail |-> s.mail, read |-> s.read]}

\* download and save
Store(p, s) ==
    /\ pass[p].pc = "save"
    /\ pass[p].todo = {}
    /\ s \in pass[p].fresh
    /\ Insert(s)
    /\ pass' = [pass EXCEPT ![p].fresh = @ \ {s}]
    /\ UNCHANGED <<passEnv, syncing>>

FolderDone(p) ==
    /\ pass[p].pc = "save"
    /\ pass[p].todo = {} /\ pass[p].fresh = {}
    /\ pass' = [pass EXCEPT ![p] = EndOfFolder(p)]
    /\ UNCHANGED <<passEnv, docs, syncing>>

\* A call throws while a folder is open: on to the next folder.
FolderFails(p) ==
    /\ pass[p].pc \notin {"idle", "list", "next"}
    /\ Fault
    /\ pass' = [pass EXCEPT ![p] = EndOfFolder(p)]
    /\ UNCHANGED <<server, nextUid, unwritten, docs, syncing, user, edits>>

\* Mutant of ListFails: the mailbox stays in `syncing`.
ListFailsStuck(p) ==
    /\ pass[p].pc = "list"
    /\ Fault
    /\ pass' = [pass EXCEPT ![p] = IdlePass]
    /\ UNCHANGED <<server, nextUid, unwritten, docs, syncing, user, edits>>

\* Connecting or listing fails: the `finally` block lets the mailbox go.
ListFails(p) ==
    /\ pass[p].pc = "list"
    /\ Fault
    /\ syncing' = FALSE
    /\ pass' = [pass EXCEPT ![p] = IdlePass]
    /\ UNCHANGED <<server, nextUid, unwritten, docs, user, edits>>

-----------------------------------------------------------------------------
(* Users. *)

userEnv == <<unwritten, syncing, pass, edits>>

\* Mutant of Named: the UID is used in whatever folder is open.
NamedAnywhere(u) == {s \in server : s.uid = user[u].id}

\* The mail of the server that a document's folder and messageId name.
Named(u) == {s \in server : s.folder = user[u].folder /\ s.uid = user[u].id}

Ask(u, step, d) ==
    [pc |-> step, key |-> d.key, folder |-> d.folder, id |-> d.id, mail |-> d.mail, read |-> d.read]

markAsRead(u, d, read) ==
    /\ user[u].pc = "idle"
    /\ d.folder \in Folders
    /\ Edit
    /\ docs' = (docs \ {d}) \cup {[d EXCEPT !.read = read]}
    /\ user' = [user EXCEPT ![u] = [Ask(u, "flag", d) EXCEPT !.read = read]]
    /\ UNCHANGED <<server, nextUid, unwritten, syncing, pass, faults>>

\* messageFlagsAdd or messageFlagsRemove; nothing happens if no mail has the UID.
PropagateRead(u) ==
    /\ user[u].pc = "flag"
    /\ server' = (server \ Named(u)) \cup {[s EXCEPT !.read = user[u].read] : s \in Named(u)}
    /\ user' = [user EXCEPT ![u] = IdleUser]
    /\ UNCHANGED <<userEnv, nextUid, docs, faults>>

\* "server sync is best-effort"
PropagateFails(u) ==
    /\ user[u].pc = "flag"
    /\ Fault
    /\ user' = [user EXCEPT ![u] = IdleUser]
    /\ UNCHANGED <<userEnv, server, nextUid, docs>>

deleteEmail(u, d) ==
    /\ user[u].pc = "idle"
    /\ Edit
    /\ user' = [user EXCEPT ![u] = Ask(u, "delete", d)]
    /\ UNCHANGED <<server, nextUid, unwritten, docs, syncing, pass, faults>>

\* messageMove: the mail gets a UID of the Trash.
MoveToTrash(u) ==
    /\ user[u].pc = "delete"
    /\ user[u].folder \in Folders \ {Trash}
    /\ IF Named(u) = {}
       THEN UNCHANGED <<server, nextUid>>
       ELSE /\ nextUid[Trash] \in Uids
            /\ nextUid' = [nextUid EXCEPT ![Trash] = @ + 1]
            /\ server' = (server \ Named(u))
                         \cup {[s EXCEPT !.folder = Trash, !.uid = nextUid[Trash]] : s \in Named(u)}
    /\ user' = [user EXCEPT ![u].pc = "file"]
    /\ UNCHANGED <<userEnv, docs, faults>>

\* email.save with the folder changed.  It keeps its messageId; if that is taken
\* in the Trash, or the document is gone, the fallback deletes it.
FileInTrash(u) ==
    LET mine  == {d \in docs : d.key = user[u].key}
        taken == \E d \in Copies(Trash), e \in mine : d # e /\ d.id = e.id /\ d.id # Local
    IN  /\ user[u].pc = "file"
        /\ docs' = (docs \ mine) \cup (IF taken THEN {} ELSE {[d EXCEPT !.folder = Trash] : d \in mine})
        /\ user' = [user EXCEPT ![u] = IdleUser]
        /\ UNCHANGED <<userEnv, server, nextUid, faults>>

\* Already in the Trash: deleted for good.
ExpungeMail(u) ==
    /\ user[u].pc = "delete"
    /\ user[u].folder = Trash
    /\ server' = server \ Named(u)
    /\ user' = [user EXCEPT ![u].pc = "drop"]
    /\ UNCHANGED <<userEnv, nextUid, docs, faults>>

\* findTrashPath swallows a failing list: no Trash, deleted for good as well.
TrashUnknown(u) ==
    /\ user[u].pc = "delete"
    /\ user[u].folder \in Folders
    /\ Fault
    /\ server' = server \ Named(u)
    /\ user' = [user EXCEPT ![u].pc = "drop"]
    /\ UNCHANGED <<userEnv, nextUid, docs>>

\* The server does not have the folder: "just remove locally".
NoSuchFolder(u) ==
    /\ user[u].pc = "delete"
    /\ user[u].folder \notin Folders
    /\ user' = [user EXCEPT ![u].pc = "drop"]
    /\ UNCHANGED <<userEnv, server, nextUid, docs, faults>>

\* The server refuses, and it is the same.
DeleteFails(u) ==
    /\ user[u].pc = "delete"
    /\ Fault
    /\ user' = [user EXCEPT ![u].pc = "drop"]
    /\ UNCHANGED <<userEnv, server, nextUid, docs>>

DropLocal(u) ==
    /\ user[u].pc = "drop"
    /\ docs' = {d \in docs : d.key # user[u].key}
    /\ user' = [user EXCEPT ![u] = IdleUser]
    /\ UNCHANGED <<userEnv, server, nextUid, faults>>

\* transporter.sendMail has sent the mail.
sendEmail(u, m) ==
    /\ user[u].pc = "idle"
    /\ m \in unwritten
    /\ unwritten' = unwritten \ {m}
    /\ user' = [user EXCEPT ![u] = [IdleUser EXCEPT !.pc = "append", !.folder = Sent, !.mail = m]]
    /\ UNCHANGED <<server, nextUid, docs, syncing, pass, edits, faults>>

Append(u) ==
    /\ user[u].pc = "append"
    /\ Deliver(Sent, user[u].mail, TRUE)
    /\ user' = [user EXCEPT ![u].pc = "copy"]
    /\ UNCHANGED <<userEnv, docs, faults>>

\* The mail is not in the Sent folder; its path may not be known either.
AppendFails(u) ==
    /\ user[u].pc = "append"
    /\ Fault
    /\ \E path \in {Sent, Fallback} : user' = [user EXCEPT ![u].pc = "copy", ![u].folder = path]
    /\ UNCHANGED <<userEnv, server, nextUid, docs>>

SaveCopy(u) ==
    /\ user[u].pc = "copy"
    /\ FreeKeys # {}
    /\ docs' = docs \cup {[key |-> NewKey, folder |-> user[u].folder, id |-> Local,
                           mail |-> user[u].mail, read |-> TRUE]}
    /\ user' = [user EXCEPT ![u] = IdleUser]
    /\ UNCHANGED <<userEnv, server, nextUid, faults>>

purgeEmails ==
    /\ Edit
    /\ docs' = {}
    /\ UNCHANGED <<server, nextUid, unwritten, syncing, pass, user, faults>>

\* The program restarts: passes, requests and the set `syncing` are gone.
Restart ==
    /\ Fault
    /\ syncing' = FALSE
    /\ pass' = [p \in Passes |-> IdlePass]
    /\ user' = [u \in Users |-> IdleUser]
    /\ UNCHANGED <<server, nextUid, unwritten, docs, edits>>

-----------------------------------------------------------------------------
World ==
    \/ \E m \in Mails, f \in {Inbox, Trash} : Arrive(m, f)
    \/ \E s \in server : ReadElsewhere(s) \/ ExpungeElsewhere(s)
    \/ purgeEmails
    \/ Restart

PassStep(p) ==
    \/ ListFolders(p) \/ NextFolder(p) \/ Finish(p)
    \/ Status(p) \/ DropLeftovers(p) \/ Fetch(p) \/ Compare(p)
    \/ \E s \in pass[p].todo : UpdateFlag(p, s) \/ ReplaceLocal(p, s)
    \/ FindGone(p) \/ DeleteGone(p)
    \/ \E s \in pass[p].fresh : Store(p, s)
    \/ FolderDone(p)

Start == \E p \in Passes : syncAllFolders(p)

UserStep(u) ==
    \/ PropagateRead(u) \/ MoveToTrash(u) \/ FileInTrash(u) \/ ExpungeMail(u)
    \/ NoSuchFolder(u) \/ DropLocal(u) \/ Append(u) \/ SaveCopy(u)

UserAsks(u) ==
    \/ \E d \in docs : deleteEmail(u, d) \/ \E read \in BOOLEAN : markAsRead(u, d, read)
    \/ \E m \in Mails : sendEmail(u, m)
    \/ PropagateFails(u) \/ TrashUnknown(u) \/ DeleteFails(u) \/ AppendFails(u)

Next ==
    \/ World
    \/ Start
    \/ \E p \in Passes : \/ PassStep(p) \/ FolderFails(p) \/ ListFails(p)
                         \/ \E f \in Folders : syncFolder(p, f)
    \/ \E u \in Users : UserStep(u) \/ UserAsks(u)

Spec == Init /\ [][Next]_vars

\* The loop starts a pass every 30 s; a pass and a request go on once started.
Fairness ==
    /\ WF_vars(Start)
    /\ \A p \in Passes : WF_vars(PassStep(p))
    /\ \A u \in Users : WF_vars(UserStep(u))

FairSpec == Spec /\ Fairness

-----------------------------------------------------------------------------
(* Properties. *)

PassState == [pc: {"idle", "list", "next", "status", "empty", "fetch", "compare", "flags", "gone", "save"},
              kind: {"all", "one"}, folders: SUBSET Folders, folder: Folders, from: Nat,
              listed: SUBSET ServerMail, fresh: SUBSET ServerMail, todo: SUBSET ServerMail,
              doomed: SUBSET Keys]
UserState == [pc: {"idle", "flag", "delete", "file", "drop", "append", "copy"},
              key: Keys \cup {0}, folder: Folders \cup {Fallback}, id: Uids \cup {Local},
              mail: Mails, read: BOOLEAN]

\* Every variable has its type.
TypeOK ==
    /\ server \subseteq ServerMail
    /\ nextUid \in [Folders -> Nat]
    /\ unwritten \subseteq Mails
    /\ docs \subseteq Doc
    /\ syncing \in BOOLEAN
    /\ pass \in [Passes -> PassState]
    /\ user \in [Users -> UserState]
    /\ edits \in Nat /\ faults \in Nat

\* However passes overlap, a mail of the server is stored once: "IMAP UIDs repeat
\* across mailboxes, so uniqueness is per mailbox" (email-message.entity.ts:103),
\* "another sync run stored it first" (emails.service.ts:405).
OneCopyEach ==
    \A d, e \in docs : (d.folder = e.folder /\ d.id = e.id /\ d.id # Local) => d = e

\* A document never stands for another mail than the one it was made of, whatever
\* passes and deletions overlap.  (The Trash is another matter: see TrashIsTrue.)
StandsForItsMail ==
    \A d \in docs, s \in server : (Stands(d, s) /\ d.folder # Trash) => d.mail = s.mail

\* The same in the Trash, where messageId is still the UID of the folder the mail
\* was moved from, although it is said to be the "IMAP UID" (email-message.entity.ts:21).
TrashIsTrue ==
    \A d \in docs, s \in server : (Stands(d, s) /\ d.folder = Trash) => d.mail = s.mail

Full(p) == pass[p].pc # "idle" /\ pass[p].kind = "all"

\* "does not start a second concurrent sync of the same mailbox"
\* (emails.service.spec.ts:69), and the mailbox is let go on every way out.
OneFullSync ==
    /\ \A p, q \in Passes : Full(p) /\ Full(q) => p = q
    /\ syncing <=> \E p \in Passes : Full(p)

\* Deleting a mail outside the Trash removes that very mail, and no other, from
\* its folder, however old the document is that the user saw (deleteEmail).
DeletesWhatWasAsked ==
    [][\A u \in Users :
         (user[u].pc = "delete" /\ user'[u].pc # "delete" /\ user[u].folder # Trash)
            => \A s \in server \ server' : s.mail = user[u].mail]_vars

InWindow(s) == s.uid >= WindowStart(Cardinality(At(s.folder)))

Mirrored(f) ==
    \A s \in At(f) : InWindow(s) => \E d \in docs : Stands(d, s) /\ d.mail = s.mail /\ d.read = s.read

\* When users and the server leave a mailbox alone, the passes bring every mail of
\* the window, with its flag, into the local copy (syncOneFolder).  Outside the Trash.
MailsGetMirrored == \A f \in Folders \ {Trash} : <>[]Mirrored(f)

\* "Remove local emails deleted on the server (only within the fetched UID range)"
\* (emails.service.ts:341): no document stays for a mail that is not there any more.
NoGhosts(f) ==
    \A d \in Copies(f) :
        (d.id # Local /\ d.id >= WindowStart(Cardinality(At(f)))) => \E s \in server : Stands(d, s)
GhostsGo == \A f \in Folders : <>[]NoGhosts(f)

=============================================================================
