---------------------------- MODULE MailboxProofs ----------------------------
(***************************************************************************)
(* What holds of Mailbox for any folders, mails, passes and users: types,  *)
(* one copy of each mail, one full synchronisation at a time, and that a   *)
(* deletion outside the Trash never reaches another mail.                  *)
(***************************************************************************)
EXTENDS Mailbox, FiniteSetTheorems, TLAPS

-----------------------------------------------------------------------------
(* Types. *)

LEMMA Places == Inbox \in Folders /\ Sent \in Folders /\ Trash \in Folders /\ Limit \in Nat
  BY MailboxAssumption

LEMMA IdleTypes == IdlePass \in PassState /\ IdleUser \in UserState
<1>1. (CHOOSE m \in Mails : TRUE) \in Mails BY MailboxAssumption
<1>2. 1 \in Nat OBVIOUS
<1>3. QED BY <1>1, <1>2, Places DEF IdlePass, IdleUser, PassState, UserState, Local

LEMMA WindowType == ASSUME NEW n \in Nat PROVE WindowStart(n) \in Nat
  BY Places DEF WindowStart

LEMMA EndOfFolderType ==
    ASSUME TypeOK, NEW p \in Passes
    PROVE  EndOfFolder(p) \in PassState
  BY IdleTypes DEF EndOfFolder, TypeOK, PassState

LEMMA InitType == Init => TypeOK
<1> SUFFICES ASSUME Init PROVE TypeOK OBVIOUS
<1>1. pass \in [Passes -> PassState] /\ user \in [Users -> UserState]
  BY IdleTypes DEF Init
<1>2. nextUid \in [Folders -> Nat] BY DEF Init
<1>3. QED BY <1>1, <1>2 DEF Init, TypeOK

LEMMA EditType == ASSUME TypeOK, Edit PROVE edits' \in Nat
  BY DEF Edit, TypeOK

LEMMA FaultType == ASSUME TypeOK, Fault PROVE faults' \in Nat
  BY DEF Fault, TypeOK

LEMMA DeliverType ==
    ASSUME TypeOK, NEW f \in Folders, NEW m \in Mails, NEW read \in BOOLEAN, Deliver(f, m, read)
    PROVE  server' \subseteq ServerMail /\ nextUid' \in [Folders -> Nat]
  BY DEF Deliver, TypeOK, ServerMail

LEMMA WorldType == ASSUME TypeOK, World PROVE TypeOK'
<1>1. ASSUME NEW m \in Mails, NEW f \in Folders, Arrive(m, f) PROVE TypeOK'
  BY <1>1, Places, DeliverType DEF Arrive, TypeOK
<1>2. ASSUME NEW s \in server, ReadElsewhere(s) PROVE TypeOK'
  BY <1>2, EditType DEF ReadElsewhere, SetRead, TypeOK, ServerMail
<1>3. ASSUME NEW s \in server, ExpungeElsewhere(s) PROVE TypeOK'
  BY <1>3, EditType DEF ExpungeElsewhere, TypeOK
<1>4. CASE purgeEmails BY <1>4, EditType DEF purgeEmails, TypeOK
<1>5. CASE Restart BY <1>5, FaultType, IdleTypes DEF Restart, TypeOK
<1>6. QED BY Places, <1>1, <1>2, <1>3, <1>4, <1>5 DEF World

\* A pass moves on, and what it stores or deletes are documents.
LEMMA PassTypes ==
    ASSUME TypeOK, docs' \subseteq Doc, syncing' \in BOOLEAN,
           pass' \in [Passes -> PassState], UNCHANGED passEnv
    PROVE  TypeOK'
  BY DEF TypeOK, passEnv

LEMMA InsertType ==
    ASSUME TypeOK, NEW s \in ServerMail, Insert(s)
    PROVE  docs' \subseteq Doc
<1>1. FreeKeys # {} => NewKey \in Keys BY DEF NewKey, FreeKeys
<1>2. /\ s.folder \in Folders \cup {Fallback} /\ s.uid \in Uids \cup {Local}
      /\ s.mail \in Mails /\ s.read \in BOOLEAN
  BY DEF ServerMail
<1>3. CASE \E d \in docs : Stands(d, s) BY <1>3 DEF Insert, TypeOK
<1>4. CASE ~\E d \in docs : Stands(d, s)
  <2>1. [key |-> NewKey, folder |-> s.folder, id |-> s.uid, mail |-> s.mail, read |-> s.read] \in Doc
    BY <1>1, <1>2, <1>4 DEF Insert, Doc
  <2>2. QED BY <1>4, <2>1 DEF Insert, TypeOK
<1>5. QED BY <1>3, <1>4

LEMMA PassStepType ==
    ASSUME TypeOK, IsFiniteSet(server), NEW p \in Passes, PassStep(p)
    PROVE  TypeOK'
<1> DEFINE Moves == pass' \in [Passes -> PassState]
<1>1. pass[p] \in PassState BY DEF TypeOK
<1>2. CASE ListFolders(p)
  <2>1. Moves BY <1>1, <1>2 DEF ListFolders, TypeOK, PassState
  <2>2. QED BY <1>2, <2>1, PassTypes DEF ListFolders, TypeOK
<1>3. CASE NextFolder(p)
  <2>1. (CHOOSE f \in pass[p].folders : TRUE) \in Folders
    BY <1>1, <1>3 DEF NextFolder, PassState
  <2>2. Moves BY <1>1, <1>3, <2>1 DEF NextFolder, TypeOK, PassState
  <2>3. QED BY <1>3, <2>2, PassTypes DEF NextFolder, TypeOK
<1>4. CASE Finish(p)
  BY <1>4, PassTypes, IdleTypes DEF Finish, TypeOK
<1>5. CASE Status(p)
  <2>1. Cardinality(At(pass[p].folder)) \in Nat
    BY FS_Subset, FS_CardinalityType DEF At
  <2>2. Moves BY <1>1, <1>5, <2>1, WindowType DEF Status, TypeOK, PassState
  <2>3. QED BY <1>5, <2>2, PassTypes DEF Status, TypeOK
<1>6. CASE DropLeftovers(p)
  BY <1>6, PassTypes, EndOfFolderType DEF DropLeftovers, TypeOK
<1>7. CASE Fetch(p)
  <2>1. Moves BY <1>1, <1>7 DEF Fetch, TypeOK, PassState, At
  <2>2. QED BY <1>7, <2>1, PassTypes DEF Fetch, TypeOK
<1>8. CASE Compare(p)
  <2>1. Moves BY <1>1, <1>8 DEF Compare, TypeOK, PassState
  <2>2. QED BY <1>8, <2>1, PassTypes DEF Compare, TypeOK
<1>9. ASSUME NEW s \in pass[p].todo, UpdateFlag(p, s) PROVE TypeOK'
  <2>1. Moves BY <1>1, <1>9 DEF UpdateFlag, TypeOK, PassState
  <2>2. docs' \subseteq Doc
    <3>1. s.read \in BOOLEAN BY <1>1 DEF PassState, ServerMail
    <3>2. \A d \in docs : d \in Doc /\ [d EXCEPT !.read = s.read] \in Doc
      BY <3>1 DEF TypeOK, Doc
    <3>3. QED BY <1>9, <3>2 DEF UpdateFlag
  <2>3. QED BY <1>9, <2>1, <2>2, PassTypes DEF UpdateFlag, TypeOK
<1>10. ASSUME NEW s \in pass[p].todo, ReplaceLocal(p, s) PROVE TypeOK'
  <2>1. Moves BY <1>1, <1>10 DEF ReplaceLocal, TypeOK, PassState
  <2>2. docs' \subseteq Doc BY <1>10 DEF ReplaceLocal, TypeOK
  <2>3. QED BY <1>10, <2>1, <2>2, PassTypes DEF ReplaceLocal, TypeOK
<1>11. CASE FindGone(p)
  <2>1. \A d \in Copies(pass[p].folder) : d.key \in Keys BY DEF Copies, TypeOK, Doc
  <2>2. PICK K \in SUBSET Keys : pass' = [pass EXCEPT ![p].pc = "gone", ![p].doomed = K]
    BY <1>11, <2>1 DEF FindGone
  <2>3. Moves BY <1>1, <2>2 DEF TypeOK, PassState
  <2>4. QED BY <1>11, <2>3, PassTypes DEF FindGone, TypeOK
<1>12. CASE DeleteGone(p)
  <2>1. Moves BY <1>1, <1>12 DEF DeleteGone, TypeOK, PassState
  <2>2. QED BY <1>12, <2>1, PassTypes DEF DeleteGone, TypeOK
<1>13. ASSUME NEW s \in pass[p].fresh, Store(p, s) PROVE TypeOK'
  <2>1. s \in ServerMail BY <1>1 DEF PassState
  <2>2. docs' \subseteq Doc BY <1>13, <2>1, InsertType DEF Store
  <2>3. Moves BY <1>1, <1>13 DEF Store, TypeOK, PassState
  <2>4. QED BY <1>13, <2>2, <2>3, PassTypes DEF Store, TypeOK
<1>14. CASE FolderDone(p)
  BY <1>14, PassTypes, EndOfFolderType DEF FolderDone, TypeOK
<1>15. QED
  BY <1>2, <1>3, <1>4, <1>5, <1>6, <1>7, <1>8, <1>9, <1>10, <1>11, <1>12, <1>13, <1>14
     DEF PassStep

\* How a pass starts and how it fails.
LEMMA PassEdgeType ==
    ASSUME TypeOK, NEW p \in Passes
    PROVE  /\ syncAllFolders(p) => TypeOK'
           /\ \A f \in Folders : syncFolder(p, f) => TypeOK'
           /\ FolderFails(p) => TypeOK'
           /\ ListFails(p) => TypeOK'
<1>1. pass[p] \in PassState BY DEF TypeOK
<1>2. ASSUME syncAllFolders(p) PROVE TypeOK'
  <2>1. pass' \in [Passes -> PassState] BY <1>1, <1>2 DEF syncAllFolders, TypeOK, PassState
  <2>2. QED BY <1>2, <2>1, PassTypes DEF syncAllFolders, TypeOK
<1>3. ASSUME NEW f \in Folders, syncFolder(p, f) PROVE TypeOK'
  <2>1. pass' \in [Passes -> PassState] BY <1>1, <1>3 DEF syncFolder, TypeOK, PassState
  <2>2. QED BY <1>3, <2>1, EditType DEF syncFolder, TypeOK
<1>4. FolderFails(p) => TypeOK'
  BY EndOfFolderType, FaultType DEF FolderFails, TypeOK
<1>5. ListFails(p) => TypeOK'
  BY IdleTypes, FaultType DEF ListFails, TypeOK
<1>6. QED BY <1>2, <1>3, <1>4, <1>5

\* The requests: user' stays typed, and so does what they change.
LEMMA AskType ==
    ASSUME TypeOK, NEW u \in Users, NEW d \in docs, NEW step \in {"flag", "delete"},
           NEW read \in BOOLEAN
    PROVE  Ask(u, step, d) \in UserState /\ [Ask(u, step, d) EXCEPT !.read = read] \in UserState
<1>1. d \in Doc BY DEF TypeOK
<1>2. QED BY <1>1 DEF Ask, UserState, Doc

LEMMA NamedType ==
    ASSUME TypeOK, NEW u \in Users
    PROVE  Named(u) \subseteq server
  BY DEF Named

LEMMA UserStepType ==
    ASSUME TypeOK, NEW u \in Users, UserStep(u)
    PROVE  TypeOK'
<1>1. user[u] \in UserState BY DEF TypeOK
<1>2. CASE PropagateRead(u)
  <2>1. server' \subseteq ServerMail
    BY <1>1, <1>2, NamedType DEF PropagateRead, TypeOK, ServerMail, UserState
  <2>2. QED BY <1>2, <2>1, IdleTypes DEF PropagateRead, userEnv, TypeOK
<1>3. CASE MoveToTrash(u)
  <2>1. server' \subseteq ServerMail /\ nextUid' \in [Folders -> Nat]
    <3>1. CASE Named(u) = {} BY <1>3, <3>1 DEF MoveToTrash, TypeOK
    <3>2. CASE Named(u) # {}
      <4>1. nextUid[Trash] \in Uids BY <1>3, <3>2 DEF MoveToTrash
      <4>2. ASSUME NEW s \in Named(u)
            PROVE  [s EXCEPT !.folder = Trash, !.uid = nextUid[Trash]] \in ServerMail
        <5>1. s \in ServerMail BY NamedType DEF TypeOK
        <5>2. QED BY <4>1, <5>1, Places DEF ServerMail
      <4>3. nextUid' = [nextUid EXCEPT ![Trash] = @ + 1] BY <1>3, <3>2 DEF MoveToTrash
      <4>4. nextUid' \in [Folders -> Nat] BY <4>3, Places DEF TypeOK
      <4>5. server' = (server \ Named(u))
                      \cup {[s EXCEPT !.folder = Trash, !.uid = nextUid[Trash]] : s \in Named(u)}
        BY <1>3, <3>2 DEF MoveToTrash
      <4>6. QED BY <4>2, <4>4, <4>5 DEF TypeOK
    <3>3. QED BY <3>1, <3>2
  <2>2. user' \in [Users -> UserState] BY <1>1, <1>3 DEF MoveToTrash, TypeOK, UserState
  <2>3. QED BY <1>3, <2>1, <2>2 DEF MoveToTrash, userEnv, TypeOK
<1>4. CASE FileInTrash(u)
  <2>1. docs' \subseteq Doc BY <1>4, Places DEF FileInTrash, TypeOK, Doc
  <2>2. QED BY <1>4, <2>1, IdleTypes DEF FileInTrash, userEnv, TypeOK
<1>5. CASE ExpungeMail(u)
  BY <1>1, <1>5 DEF ExpungeMail, userEnv, TypeOK, UserState
<1>6. CASE NoSuchFolder(u)
  BY <1>1, <1>6 DEF NoSuchFolder, userEnv, TypeOK, UserState
<1>7. CASE DropLocal(u)
  BY <1>7, IdleTypes DEF DropLocal, userEnv, TypeOK
<1>8. CASE Append(u)
  <2>1. user[u].mail \in Mails BY <1>1 DEF UserState
  <2>2. server' \subseteq ServerMail /\ nextUid' \in [Folders -> Nat]
    BY <1>8, <2>1, DeliverType, Places DEF Append
  <2>3. QED BY <1>1, <1>8, <2>2 DEF Append, userEnv, TypeOK, UserState
<1>9. CASE SaveCopy(u)
  <2>1. NewKey \in Keys BY <1>9 DEF SaveCopy, NewKey, FreeKeys
  <2>2. [key |-> NewKey, folder |-> user[u].folder, id |-> Local,
         mail |-> user[u].mail, read |-> TRUE] \in Doc
    BY <1>1, <2>1 DEF UserState, Doc
  <2>3. QED BY <1>9, <2>2, IdleTypes DEF SaveCopy, userEnv, TypeOK
<1>10. QED
  BY <1>2, <1>3, <1>4, <1>5, <1>6, <1>7, <1>8, <1>9 DEF UserStep

LEMMA UserAsksType ==
    ASSUME TypeOK, NEW u \in Users, UserAsks(u)
    PROVE  TypeOK'
<1>1. user[u] \in UserState BY DEF TypeOK
<1>2. ASSUME NEW d \in docs, deleteEmail(u, d) PROVE TypeOK'
  BY <1>2, AskType, EditType DEF deleteEmail, TypeOK
<1>3. ASSUME NEW d \in docs, NEW read \in BOOLEAN, markAsRead(u, d, read) PROVE TypeOK'
  <2>1. docs' \subseteq Doc BY <1>3 DEF markAsRead, TypeOK, Doc
  <2>2. QED BY <1>3, <2>1, AskType, EditType DEF markAsRead, TypeOK
<1>4. ASSUME NEW m \in Mails, sendEmail(u, m) PROVE TypeOK'
  <2>1. [IdleUser EXCEPT !.pc = "append", !.folder = Sent, !.mail = m] \in UserState
    BY IdleTypes, Places DEF UserState
  <2>2. QED BY <1>4, <2>1 DEF sendEmail, TypeOK
<1>5. CASE PropagateFails(u)
  BY <1>5, IdleTypes, FaultType DEF PropagateFails, userEnv, TypeOK
<1>6. CASE TrashUnknown(u)
  BY <1>1, <1>6, FaultType DEF TrashUnknown, userEnv, TypeOK, UserState
<1>7. CASE DeleteFails(u)
  BY <1>1, <1>7, FaultType DEF DeleteFails, userEnv, TypeOK, UserState
<1>8. CASE AppendFails(u)
  <2>1. PICK path \in {Sent, Fallback} :
            user' = [user EXCEPT ![u].pc = "copy", ![u].folder = path]
    BY <1>8 DEF AppendFails
  <2>2. user' \in [Users -> UserState] BY <1>1, <2>1, Places DEF TypeOK, UserState
  <2>3. QED BY <1>8, <2>2, FaultType DEF AppendFails, userEnv, TypeOK
<1>9. QED
  BY <1>2, <1>3, <1>4, <1>5, <1>6, <1>7, <1>8 DEF UserAsks

-----------------------------------------------------------------------------
(* The server has finitely many mails. *)

LEMMA ImageFinite ==
    ASSUME TypeOK, IsFiniteSet(server), NEW u \in Users
    PROVE  /\ IsFiniteSet({[s EXCEPT !.read = user[u].read] : s \in Named(u)})
           /\ IsFiniteSet({[s EXCEPT !.folder = Trash, !.uid = nextUid[Trash]] : s \in Named(u)})
<1> DEFINE read  == [s \in Named(u) |-> [s EXCEPT !.read = user[u].read]]
           moved == [s \in Named(u) |-> [s EXCEPT !.folder = Trash, !.uid = nextUid[Trash]]]
           Image(f) == {f[s] : s \in Named(u)}
<1>1. IsFiniteSet(Named(u)) BY NamedType, FS_Subset
<1>2. read \in Surjection(Named(u), Image(read)) BY DEF Surjection
<1>3. moved \in Surjection(Named(u), Image(moved)) BY DEF Surjection
<1>4. IsFiniteSet(Image(read)) /\ IsFiniteSet(Image(moved)) BY ONLY <1>1, <1>2, <1>3, FS_Surjection
<1>5. QED BY <1>4

LEMMA ServerFinite ==
    ASSUME TypeOK, IsFiniteSet(server), [Next]_vars
    PROVE  IsFiniteSet(server')
<1>1. CASE server' \subseteq server BY <1>1, FS_Subset
<1>2. ASSUME NEW t, server' \subseteq server \cup {t} PROVE IsFiniteSet(server')
  BY <1>2, FS_AddElement, FS_Subset
<1>3. ASSUME NEW m \in Mails, NEW f \in Folders, Arrive(m, f) PROVE IsFiniteSet(server')
  BY <1>2, <1>3 DEF Arrive, Deliver
<1>4. ASSUME NEW s \in server, ReadElsewhere(s) PROVE IsFiniteSet(server')
  BY <1>2, <1>4 DEF ReadElsewhere, SetRead
<1>5. ASSUME NEW u \in Users, UserStep(u) PROVE IsFiniteSet(server')
  <2>1. CASE PropagateRead(u)
    BY <2>1, ImageFinite, FS_Subset, FS_Union DEF PropagateRead
  <2>2. CASE MoveToTrash(u)
    <3>1. CASE server' = server BY <3>1
    <3>2. CASE server' = (server \ Named(u))
                         \cup {[s EXCEPT !.folder = Trash, !.uid = nextUid[Trash]] : s \in Named(u)}
      BY <3>2, ImageFinite, FS_Subset, FS_Union
    <3>3. QED BY <2>2, <3>1, <3>2 DEF MoveToTrash
  <2>3. CASE Append(u) BY <1>2, <2>3 DEF Append, Deliver
  <2>4. CASE ~(PropagateRead(u) \/ MoveToTrash(u) \/ Append(u))
    BY <1>1, <1>5, <2>4 DEF UserStep, FileInTrash, ExpungeMail, NoSuchFolder, DropLocal, SaveCopy
  <2>5. QED BY <2>1, <2>2, <2>3, <2>4
<1>6. ASSUME NEW u \in Users, UserAsks(u) PROVE IsFiniteSet(server')
  BY <1>1, <1>6 DEF UserAsks, deleteEmail, markAsRead, sendEmail, PropagateFails, TrashUnknown,
                    DeleteFails, AppendFails, userEnv
<1>7. ASSUME NEW p \in Passes,
             \/ syncAllFolders(p) \/ PassStep(p) \/ FolderFails(p) \/ ListFails(p)
             \/ \E f \in Folders : syncFolder(p, f)
      PROVE  IsFiniteSet(server')
  BY <1>1, <1>7 DEF syncAllFolders, PassStep, FolderFails, ListFails, syncFolder, passEnv,
        ListFolders, NextFolder, Finish, Status, DropLeftovers, Fetch, Compare, UpdateFlag,
        ReplaceLocal, FindGone, DeleteGone, Store, FolderDone
<1>8. CASE World
  BY Places, <1>1, <1>3, <1>4, <1>8 DEF World, ExpungeElsewhere, purgeEmails, Restart
<1>9. CASE UNCHANGED vars BY <1>9 DEF vars
<1>10. QED BY <1>5, <1>6, <1>7, <1>8, <1>9 DEF Next, Start

Typed == TypeOK /\ IsFiniteSet(server)

LEMMA TypeStep == Typed /\ [Next]_vars => Typed'
<1> SUFFICES ASSUME Typed, [Next]_vars PROVE TypeOK' BY ServerFinite DEF Typed
<1> USE DEF Typed
<1>1. CASE World BY <1>1, WorldType
<1>2. CASE Start BY <1>2, PassEdgeType DEF Start
<1>3. ASSUME NEW p \in Passes,
             \/ PassStep(p) \/ FolderFails(p) \/ ListFails(p)
             \/ \E f \in Folders : syncFolder(p, f)
      PROVE  TypeOK'
  BY <1>3, PassStepType, PassEdgeType
<1>4. ASSUME NEW u \in Users, UserStep(u) \/ UserAsks(u) PROVE TypeOK'
  BY <1>4, UserStepType, UserAsksType
<1>5. CASE UNCHANGED vars BY <1>5 DEF vars, TypeOK
<1>6. QED BY <1>1, <1>2, <1>3, <1>4, <1>5 DEF Next

\* Every variable keeps its type (TypeOK), whatever runs at the same time.
THEOREM TypeInvariant == Spec => []TypeOK
<1>1. Init => Typed BY InitType, FS_EmptySet DEF Init, Typed
<1>2. Typed => TypeOK BY DEF Typed
<1>3. QED BY <1>1, <1>2, TypeStep, PTL DEF Spec

-----------------------------------------------------------------------------
(* One copy each. *)

\* Documents differ in their key, and in the mail they stand for.
OneEach ==
    /\ \A d, e \in docs : d.key = e.key => d = e
    /\ OneCopyEach

\* Documents go, or change what neither key, folder nor messageId tell.
LEMMA FewerCopies == ASSUME OneEach, docs' \subseteq docs PROVE OneEach'
  BY DEF OneEach, OneCopyEach

LEMMA NewCopy ==
    ASSUME OneEach, FreeKeys # {}, NEW e, e.key = NewKey, docs' = docs \cup {e},
           \/ e.id = Local
           \/ \A d \in docs : ~(d.folder = e.folder /\ d.id = e.id)
    PROVE  OneEach'
<1>1. NewKey \in FreeKeys BY DEF NewKey
<1>2. \A d \in docs : d.key # e.key BY <1>1 DEF FreeKeys
<1>3. QED BY <1>2 DEF OneEach, OneCopyEach

LEMMA UpdateFlagCopies ==
    ASSUME Typed, OneEach, NEW p \in Passes, NEW s \in pass[p].todo, UpdateFlag(p, s)
    PROVE  OneEach'
<1> DEFINE After(d) == IF Stands(d, s) THEN [d EXCEPT !.read = s.read] ELSE d
<1>1. docs' = {After(d) : d \in docs} BY DEF UpdateFlag
<1>2. \A d \in docs : /\ After(d).key = d.key /\ After(d).folder = d.folder
                      /\ After(d).id = d.id
  BY DEF Typed, TypeOK, Doc
<1> HIDE DEF After
<1>3. QED BY <1>1, <1>2 DEF OneEach, OneCopyEach

LEMMA MarkCopies ==
    ASSUME Typed, OneEach, NEW u \in Users, NEW d \in docs, NEW read \in BOOLEAN,
           markAsRead(u, d, read)
    PROVE  OneEach'
<1> DEFINE e == [d EXCEPT !.read = read]
<1>1. docs' = (docs \ {d}) \cup {e} BY DEF markAsRead
<1>2. e.key = d.key /\ e.folder = d.folder /\ e.id = d.id BY DEF Typed, TypeOK, Doc
<1> HIDE DEF e
<1>3. QED BY <1>1, <1>2 DEF OneEach, OneCopyEach

\* At most one document is filed, and not where its messageId is taken.
LEMMA FileCopies ==
    ASSUME Typed, OneEach, NEW u \in Users, FileInTrash(u)
    PROVE  OneEach'
<1> DEFINE mine  == {d \in docs : d.key = user[u].key}
           taken == \E d \in Copies(Trash), e \in mine : d # e /\ d.id = e.id /\ d.id # Local
           Filed(d) == [d EXCEPT !.folder = Trash]
<1>1. \A d \in docs : Filed(d).key = d.key /\ Filed(d).folder = Trash /\ Filed(d).id = d.id
  BY DEF Typed, TypeOK, Doc
<1>2. CASE taken BY <1>2, FewerCopies DEF FileInTrash
<1>3. CASE ~taken
  <2>1. docs' = (docs \ mine) \cup {Filed(d) : d \in mine} BY <1>3 DEF FileInTrash
  <2>2. \A d, e \in mine : d = e BY DEF OneEach
  <2>3. \A d \in docs \ mine, e \in mine : d.folder = Trash /\ d.id = e.id => d.id = Local
    BY <1>3 DEF Copies
  <2> HIDE DEF Filed
  <2>4. \A d \in docs : Filed(d).key = d.key /\ Filed(d).folder = Trash /\ Filed(d).id = d.id
    BY <1>1
  <2>5. \A d, e \in docs' : d.key = e.key => d = e
    BY <2>1, <2>2, <2>4 DEF OneEach
  <2>6. OneCopyEach'
    BY <2>1, <2>2, <2>3, <2>4 DEF OneEach, OneCopyEach
  <2>7. QED BY <2>5, <2>6 DEF OneEach
<1>4. QED BY <1>2, <1>3

LEMMA UserStepCopies ==
    ASSUME Typed, OneEach, NEW u \in Users, UserStep(u)
    PROVE  OneEach'
<1>1. CASE FileInTrash(u) BY <1>1, FileCopies
<1>2. CASE DropLocal(u) BY <1>2, FewerCopies DEF DropLocal
<1>3. CASE SaveCopy(u)
  <2>1. PICK e : e.key = NewKey /\ e.id = Local /\ docs' = docs \cup {e}
    BY <1>3 DEF SaveCopy
  <2>2. QED BY <1>3, <2>1, NewCopy DEF SaveCopy
<1>4. CASE docs' = docs BY <1>4, FewerCopies
<1>5. QED
  BY <1>1, <1>2, <1>3, <1>4
     DEF UserStep, PropagateRead, MoveToTrash, ExpungeMail, NoSuchFolder, Append

LEMMA PassStepCopies ==
    ASSUME Typed, OneEach, NEW p \in Passes, PassStep(p)
    PROVE  OneEach'
<1>1. ASSUME NEW s \in pass[p].todo, UpdateFlag(p, s) PROVE OneEach'
  BY <1>1, UpdateFlagCopies
<1>2. ASSUME NEW s \in pass[p].todo, ReplaceLocal(p, s) PROVE OneEach'
  BY <1>2, FewerCopies DEF ReplaceLocal
<1>3. ASSUME NEW s \in pass[p].fresh, Store(p, s) PROVE OneEach'
  <2>1. CASE docs' = docs BY <2>1, FewerCopies
  <2>2. CASE docs' # docs
    <3>1. FreeKeys # {} /\ \A d \in docs : ~Stands(d, s)
      BY <1>3, <2>2 DEF Store, Insert
    <3>2. PICK e : /\ e.key = NewKey /\ e.folder = s.folder /\ e.id = s.uid
                   /\ docs' = docs \cup {e}
      BY <1>3, <2>2 DEF Store, Insert
    <3>3. QED BY <3>1, <3>2, NewCopy DEF Stands
  <2>3. QED BY <2>1, <2>2
<1>4. CASE ListFolders(p) \/ DropLeftovers(p) \/ DeleteGone(p)
  BY <1>4, FewerCopies DEF ListFolders, DropLeftovers, DeleteGone
<1>5. CASE docs' = docs BY <1>5, FewerCopies
<1>6. QED
  BY <1>1, <1>2, <1>3, <1>4, <1>5
     DEF PassStep, NextFolder, Finish, Status, Fetch, Compare, FindGone, FolderDone

LEMMA CopiesStep ==
    ASSUME Typed, OneEach, [Next]_vars
    PROVE  OneEach'
<1>1. CASE World
  BY <1>1, FewerCopies DEF World, Arrive, ReadElsewhere, ExpungeElsewhere, purgeEmails, Restart
<1>2. ASSUME NEW p \in Passes,
             \/ syncAllFolders(p) \/ FolderFails(p) \/ ListFails(p)
             \/ \E f \in Folders : syncFolder(p, f)
      PROVE  OneEach'
  BY <1>2, FewerCopies DEF syncAllFolders, FolderFails, ListFails, syncFolder
<1>3. ASSUME NEW p \in Passes, PassStep(p) PROVE OneEach'
  BY <1>3, PassStepCopies
<1>4. ASSUME NEW u \in Users, UserStep(u) PROVE OneEach'
  BY <1>4, UserStepCopies
<1>5. ASSUME NEW u \in Users, UserAsks(u) PROVE OneEach'
  <2>1. ASSUME NEW d \in docs, NEW read \in BOOLEAN, markAsRead(u, d, read) PROVE OneEach'
    BY <2>1, MarkCopies
  <2>2. CASE docs' = docs BY <2>2, FewerCopies
  <2>3. QED
    BY <1>5, <2>1, <2>2 DEF UserAsks, deleteEmail, sendEmail, PropagateFails, TrashUnknown,
                            DeleteFails, AppendFails
<1>6. CASE UNCHANGED vars BY <1>6, FewerCopies DEF vars
<1>7. QED BY <1>1, <1>2, <1>3, <1>4, <1>5, <1>6 DEF Next, Start

\* However many passes overlap, and whatever users file away meanwhile, no mail of
\* the server is stored twice (OneCopyEach).
THEOREM NoMailTwice == Spec => []OneCopyEach
<1>1. Init => Typed /\ OneEach
  BY InitType, FS_EmptySet DEF Init, Typed, OneEach, OneCopyEach
<1>2. Typed /\ OneEach /\ [Next]_vars => (Typed /\ OneEach)'
  BY TypeStep, CopiesStep
<1>3. OneEach => OneCopyEach BY DEF OneEach
<1>4. QED BY <1>1, <1>2, <1>3, PTL DEF Spec

-----------------------------------------------------------------------------
(* One full synchronisation. *)

\* Only full synchronisations list the folders, so only they let the mailbox go.
Guarded ==
    /\ OneFullSync
    /\ \A p \in Passes : pass[p].pc \in {"list", "next"} => pass[p].kind = "all"

\* A pass that goes on, or a folder synchronised on request, keeps its kind.
LEMMA GoesOn ==
    ASSUME Typed, Guarded, syncing' = syncing, NEW p \in Passes,
           \A q \in Passes \ {p} : pass'[q] = pass[q],
           Full(p)' <=> Full(p),
           pass'[p].pc \in {"list", "next"} => pass'[p].kind = "all"
    PROVE  Guarded'
  BY DEF Guarded, OneFullSync, Full

\* A full synchronisation lets the mailbox go.
LEMMA LetsGo ==
    ASSUME Typed, Guarded, syncing' = FALSE, NEW p \in Passes, Full(p),
           pass' = [pass EXCEPT ![p] = IdlePass]
    PROVE  Guarded'
<1>1. \A q \in Passes : pass'[q] = IF q = p THEN IdlePass ELSE pass[q]
  BY DEF Typed, TypeOK
<1>2. IdlePass.pc = "idle" BY DEF IdlePass
<1>3. QED BY <1>1, <1>2 DEF Guarded, OneFullSync, Full

LEMMA EndOfFolderKind ==
    ASSUME Typed, NEW p \in Passes, pass[p].pc # "idle"
    PROVE  /\ (EndOfFolder(p).pc # "idle" /\ EndOfFolder(p).kind = "all") <=> Full(p)
           /\ EndOfFolder(p).pc \in {"list", "next"} => EndOfFolder(p).kind = "all"
  BY DEF EndOfFolder, IdlePass, Full

LEMMA PassStepGuarded ==
    ASSUME Typed, Guarded, NEW p \in Passes, PassStep(p)
    PROVE  Guarded'
<1>1. pass \in [Passes -> PassState] BY DEF Typed, TypeOK
<1>2. CASE Finish(p)
  BY <1>2, LetsGo DEF Finish, Guarded, Full
<1>3. CASE DropLeftovers(p) \/ FolderDone(p)
  <2>1. pass' = [pass EXCEPT ![p] = EndOfFolder(p)] /\ syncing' = syncing
    BY <1>3 DEF DropLeftovers, FolderDone
  <2>2. pass[p].pc # "idle" BY <1>3 DEF DropLeftovers, FolderDone
  <2>3. \A q \in Passes : pass'[q] = IF q = p THEN EndOfFolder(p) ELSE pass[q]
    BY <1>1, <2>1
  <2>4. QED BY <2>1, <2>2, <2>3, EndOfFolderKind, GoesOn DEF Full
<1>4. CASE ~(Finish(p) \/ DropLeftovers(p) \/ FolderDone(p))
  <2>1. /\ syncing' = syncing
        /\ \A q \in Passes \ {p} : pass'[q] = pass[q]
        /\ pass'[p].kind = pass[p].kind
        /\ pass[p].pc # "idle" /\ pass'[p].pc \notin {"idle", "list"}
        /\ pass'[p].pc = "next" => pass[p].pc \in {"list", "next"}
    <3> USE <1>1 DEF PassState
    <3>1. CASE ListFolders(p) BY <3>1 DEF ListFolders
    <3>2. CASE NextFolder(p) BY <3>2 DEF NextFolder
    <3>3. CASE Status(p) BY <3>3 DEF Status
    <3>4. CASE Fetch(p) \/ Compare(p)
      <4>1. CASE Fetch(p) BY <4>1 DEF Fetch
      <4>2. CASE Compare(p) BY <4>2 DEF Compare
      <4>3. QED BY <3>4, <4>1, <4>2
    <3>5. CASE FindGone(p) BY <3>5 DEF FindGone
    <3>6. CASE DeleteGone(p) BY <3>6 DEF DeleteGone
    <3>7. CASE \E s \in pass[p].todo : UpdateFlag(p, s) \/ ReplaceLocal(p, s)
      BY <3>7 DEF UpdateFlag, ReplaceLocal
    <3>8. CASE \E s \in pass[p].fresh : Store(p, s) BY <3>8 DEF Store
    <3>9. QED BY <1>4, <3>1, <3>2, <3>3, <3>4, <3>5, <3>6, <3>7, <3>8 DEF PassStep
  <2>2. QED BY <2>1, GoesOn DEF Full, Guarded
<1>5. QED BY <1>2, <1>3, <1>4

LEMMA GuardedStep ==
    ASSUME Typed, Guarded, [Next]_vars
    PROVE  Guarded'
<1>1. pass \in [Passes -> PassState] BY DEF Typed, TypeOK
<1>2. CASE UNCHANGED <<pass, syncing>> BY <1>2 DEF Guarded, OneFullSync, Full
<1>3. CASE Restart BY <1>3 DEF Restart, Guarded, OneFullSync, Full, IdlePass
<1>4. ASSUME NEW p \in Passes, syncAllFolders(p) PROVE Guarded'
  <2>1. /\ ~syncing /\ syncing' = TRUE
        /\ \A q \in Passes \ {p} : pass'[q] = pass[q]
        /\ pass'[p].pc = "list" /\ pass'[p].kind = "all"
    BY <1>1, <1>4 DEF syncAllFolders, PassState
  <2>2. QED BY <2>1 DEF Guarded, OneFullSync, Full
<1>5. ASSUME NEW p \in Passes, NEW f \in Folders, syncFolder(p, f) PROVE Guarded'
  <2>1. /\ syncing' = syncing
        /\ \A q \in Passes \ {p} : pass'[q] = pass[q]
        /\ pass[p].pc = "idle" /\ pass'[p].pc = "status" /\ pass'[p].kind = "one"
    BY <1>1, <1>5 DEF syncFolder, PassState
  <2>2. QED BY <2>1, GoesOn DEF Full
<1>6. ASSUME NEW p \in Passes, PassStep(p) PROVE Guarded'
  BY <1>6, PassStepGuarded
<1>7. ASSUME NEW p \in Passes, FolderFails(p) PROVE Guarded'
  <2>1. \A q \in Passes : pass'[q] = IF q = p THEN EndOfFolder(p) ELSE pass[q]
    BY <1>1, <1>7 DEF FolderFails
  <2>2. pass[p].pc # "idle" /\ syncing' = syncing BY <1>7 DEF FolderFails
  <2>3. QED BY <2>1, <2>2, EndOfFolderKind, GoesOn DEF Full
<1>8. ASSUME NEW p \in Passes, ListFails(p) PROVE Guarded'
  BY <1>8, LetsGo DEF ListFails, Guarded, Full
<1>9. CASE World
  BY <1>2, <1>3, <1>9 DEF World, Arrive, ReadElsewhere, ExpungeElsewhere, purgeEmails
<1>10. ASSUME NEW u \in Users, UserStep(u) \/ UserAsks(u) PROVE Guarded'
  BY <1>2, <1>10 DEF UserStep, UserAsks, userEnv, PropagateRead, MoveToTrash, FileInTrash, ExpungeMail,
        NoSuchFolder, DropLocal, Append, SaveCopy, deleteEmail, markAsRead, sendEmail,
        PropagateFails, TrashUnknown, DeleteFails, AppendFails
<1>11. CASE UNCHANGED vars BY <1>2, <1>11 DEF vars
<1>12. QED BY <1>4, <1>5, <1>6, <1>7, <1>8, <1>9, <1>10, <1>11 DEF Next, Start

\* At any time at most one full synchronisation of the mailbox runs, and the
\* mailbox counts as synchronising exactly as long as it does (OneFullSync).
THEOREM OneAtATime == Spec => []OneFullSync
<1>1. Init => Guarded BY DEF Init, Guarded, OneFullSync, Full, IdlePass
<1>2. Init => Typed BY InitType, FS_EmptySet DEF Init, Typed
<1>3. Typed /\ Guarded /\ [Next]_vars => (Typed /\ Guarded)'
  BY TypeStep, GuardedStep
<1>4. Guarded => OneFullSync BY DEF Guarded
<1>5. QED BY <1>1, <1>2, <1>3, <1>4, PTL DEF Spec

-----------------------------------------------------------------------------
(* A deletion reaches the mail it was asked for.  The server gives no UID of a *)
(* folder twice, so what is remembered of a UID stays true of it.              *)

\* The UID n of the folder f was given, and to m if that mail is still there.
Agrees(f, n, m) ==
    /\ n < nextUid[f]
    /\ \A s \in server : s.folder = f /\ s.uid = n => s.mail = m

\* In the Trash a document has the UID of another folder.
Known(f, n, m) == n # Local /\ f \in Folders \ {Trash} => Agrees(f, n, m)

Remembered(p) == pass[p].listed \cup pass[p].fresh \cup pass[p].todo

ServerTrue == \A s \in server : Agrees(s.folder, s.uid, s.mail)
DocsTrue   == \A d \in docs : Known(d.folder, d.id, d.mail)
PassesTrue == \A p \in Passes : \A s \in Remembered(p) : Agrees(s.folder, s.uid, s.mail)
UsersTrue  == \A u \in Users :
                user[u].pc = "delete" => Known(user[u].folder, user[u].id, user[u].mail)

AllTrue == ServerTrue /\ DocsTrue /\ PassesTrue /\ UsersTrue

\* What a step may make of the server, the documents, the passes and the requests.
ServerCarried ==
    /\ ServerTrue'
    /\ \A f \in Folders, n \in Int, m \in Mails : Agrees(f, n, m) => Agrees(f, n, m)'

SameMail(d, f, n, m) == d.folder = f /\ d.id = n /\ d.mail = m

DocsCarried ==
    \A d \in docs' :
        \/ d.id = Local \/ d.folder = Trash
        \/ \E e \in docs : SameMail(d, e.folder, e.id, e.mail)
        \/ \E p \in Passes : \E s \in pass[p].fresh : SameMail(d, s.folder, s.uid, s.mail)

PassesCarried == \A p \in Passes : Remembered(p)' \subseteq Remembered(p) \cup server

UsersCarried ==
    \A u \in Users :
        user'[u].pc = "delete" =>
            \/ user'[u] = user[u]
            \/ \E d \in docs : SameMail(d, user'[u].folder, user'[u].id, user'[u].mail)

LEMMA Carried ==
    ASSUME Typed, TypeOK', AllTrue, ServerCarried, DocsCarried, PassesCarried, UsersCarried
    PROVE  AllTrue'
<1>1. \A s \in ServerMail : s.folder \in Folders /\ s.uid \in Int /\ s.mail \in Mails
  BY DEF ServerMail, Uids
<1>2. \A d \in Doc : d.id \in Int /\ d.mail \in Mails BY DEF Doc, Uids, Local
<1>3. ServerTrue' BY DEF ServerCarried
<1>4. \A f, n, m : n \in Int /\ m \in Mails /\ Known(f, n, m) => Known(f, n, m)'
  BY DEF ServerCarried, Known
<1>5. ASSUME NEW s \in ServerMail, Agrees(s.folder, s.uid, s.mail)
      PROVE  Agrees(s.folder, s.uid, s.mail)'
  BY <1>1, <1>5 DEF ServerCarried
<1>6. \A p \in Passes : Remembered(p) \cup server \subseteq ServerMail
  BY DEF Typed, TypeOK, PassState, Remembered
<1>7. DocsTrue'
  <2> SUFFICES ASSUME NEW d \in docs' PROVE Known(d.folder, d.id, d.mail)'
    BY DEF DocsTrue
  <2>1. CASE d.id = Local \/ d.folder = Trash BY <2>1 DEF Known
  <2>2. CASE \E e \in docs : SameMail(d, e.folder, e.id, e.mail)
    BY <2>2, <1>2, <1>4 DEF SameMail, AllTrue, DocsTrue, Typed, TypeOK
  <2>3. ASSUME NEW p \in Passes, NEW s \in pass[p].fresh, SameMail(d, s.folder, s.uid, s.mail)
        PROVE  Known(d.folder, d.id, d.mail)'
    <3>1. s \in Remembered(p) /\ s \in ServerMail BY <1>6 DEF Remembered
    <3>2. Agrees(s.folder, s.uid, s.mail)' BY <3>1, <1>5 DEF AllTrue, PassesTrue
    <3>3. QED BY <2>3, <3>2 DEF SameMail, Known
  <2>4. QED BY <2>1, <2>2, <2>3 DEF DocsCarried
<1>8. PassesTrue'
  <2> SUFFICES ASSUME NEW p \in Passes, NEW s \in Remembered(p)'
               PROVE  Agrees(s.folder, s.uid, s.mail)'
    BY DEF PassesTrue
  <2>1. s \in Remembered(p) \cup server BY DEF PassesCarried
  <2>2. Agrees(s.folder, s.uid, s.mail) BY <2>1 DEF AllTrue, PassesTrue, ServerTrue
  <2>3. QED BY <1>5, <1>6, <2>1, <2>2
<1>9. UsersTrue'
  <2> SUFFICES ASSUME NEW u \in Users, user'[u].pc = "delete"
               PROVE  Known(user[u].folder, user[u].id, user[u].mail)'
    BY DEF UsersTrue
  <2>1. user'[u].id \in Int /\ user'[u].mail \in Mails
    BY DEF TypeOK, UserState, Uids, Local
  <2>2. PICK f, n, m : /\ f = user'[u].folder /\ n = user'[u].id /\ m = user'[u].mail
                       /\ Known(f, n, m)
    BY DEF UsersCarried, AllTrue, UsersTrue, DocsTrue, SameMail
  <2>3. Known(f, n, m)' BY <1>4, <2>1, <2>2
  <2>4. QED BY <2>2, <2>3 DEF Known, Agrees
<1>10. QED BY <1>3, <1>7, <1>8, <1>9 DEF AllTrue

\* The server delivers to f0 at most, and what it had is there still, or gone.
LEMMA ServerMoves ==
    ASSUME Typed, ServerTrue, NEW f0 \in Folders, NEW m0,
           \A f \in Folders : nextUid[f] <= nextUid'[f],
           nextUid' \in [Folders -> Nat],
           \A s \in server' :
              \/ \E t \in server : s.folder = t.folder /\ s.uid = t.uid /\ s.mail = t.mail
              \/ s.folder = f0 /\ s.uid = nextUid[f0] /\ s.mail = m0 /\ nextUid[f0] < nextUid'[f0]
    PROVE  ServerCarried
<1>1. nextUid \in [Folders -> Nat] BY DEF Typed, TypeOK
<1>2. ASSUME NEW f \in Folders, NEW n \in Int, NEW m, Agrees(f, n, m)
      PROVE  Agrees(f, n, m)'
  <2>1. n < nextUid'[f] BY <1>1, <1>2 DEF Agrees
  <2>2. ASSUME NEW s \in server', s.folder = f, s.uid = n PROVE s.mail = m
    <3>1. CASE s.folder = f0 /\ s.uid = nextUid[f0]
      BY <1>1, <1>2, <2>2, <3>1 DEF Agrees
    <3>2. CASE \E t \in server : s.folder = t.folder /\ s.uid = t.uid /\ s.mail = t.mail
      BY <1>2, <2>2, <3>2 DEF Agrees
    <3>3. QED BY <3>1, <3>2
  <2>3. QED BY <2>1, <2>2 DEF Agrees
<1>3. ASSUME NEW s \in server' PROVE Agrees(s.folder, s.uid, s.mail)'
  <2>1. CASE \E t \in server : s.folder = t.folder /\ s.uid = t.uid /\ s.mail = t.mail
    <3>1. PICK t \in server : s.folder = t.folder /\ s.uid = t.uid /\ s.mail = t.mail
      BY <2>1
    <3>2. t.folder \in Folders /\ t.uid \in Int
      BY DEF Typed, TypeOK, ServerMail, Uids
    <3>3. Agrees(t.folder, t.uid, t.mail)' BY <1>2, <3>2 DEF ServerTrue
    <3>4. QED BY <3>1, <3>3 DEF Agrees
  <2>2. CASE s.folder = f0 /\ s.uid = nextUid[f0] /\ s.mail = m0 /\ nextUid[f0] < nextUid'[f0]
    <3>1. ASSUME NEW r \in server', r.folder = f0, r.uid = nextUid[f0] PROVE r.mail = m0
      <4>1. ASSUME NEW t \in server, r.folder = t.folder, r.uid = t.uid PROVE FALSE
        BY <1>1, <3>1, <4>1 DEF ServerTrue, Agrees
      <4>2. QED BY <4>1
    <3>2. QED BY <2>2, <3>1 DEF Agrees
  <2>3. QED BY <2>1, <2>2
<1>4. QED BY <1>2, <1>3 DEF ServerCarried, ServerTrue

LEMMA ServerKeeps ==
    ASSUME Typed, ServerTrue, server' \subseteq server, nextUid' = nextUid
    PROVE  ServerCarried
<1>1. nextUid \in [Folders -> Nat] BY DEF Typed, TypeOK
<1>2. QED BY <1>1, Places, ServerMoves

LEMMA Delivered ==
    ASSUME Typed, ServerTrue, NEW f \in Folders, NEW m \in Mails, NEW read, Deliver(f, m, read)
    PROVE  ServerCarried
<1>1. nextUid \in [Folders -> Nat] BY DEF Typed, TypeOK
<1>2. nextUid' = [nextUid EXCEPT ![f] = @ + 1] BY DEF Deliver
<1>3. nextUid' \in [Folders -> Nat] /\ \A g \in Folders : nextUid[g] <= nextUid'[g]
  BY <1>1, <1>2
<1>4. nextUid[f] < nextUid'[f] BY <1>1, <1>2
<1>5. \A s \in server' :
         s \in server \/ (s.folder = f /\ s.uid = nextUid[f] /\ s.mail = m)
  BY DEF Deliver
<1>6. QED BY <1>3, <1>4, <1>5, ServerMoves

\* Flags change, and nothing else.
LEMMA Flagged ==
    ASSUME Typed, ServerTrue, nextUid' = nextUid,
           \A s \in server' :
              s \in server \/ \E t \in server, read \in BOOLEAN : s = [t EXCEPT !.read = read]
    PROVE  ServerCarried
<1>1. nextUid \in [Folders -> Nat] BY DEF Typed, TypeOK
<1>2. ASSUME NEW t \in server, NEW read \in BOOLEAN, NEW s, s = [t EXCEPT !.read = read]
      PROVE  s.folder = t.folder /\ s.uid = t.uid /\ s.mail = t.mail
  BY <1>2 DEF Typed, TypeOK, ServerMail
<1>3. ASSUME NEW s \in server'
      PROVE  \E t \in server : s.folder = t.folder /\ s.uid = t.uid /\ s.mail = t.mail
  <2>1. CASE s \in server BY <2>1
  <2>2. ASSUME NEW t \in server, NEW read \in BOOLEAN, s = [t EXCEPT !.read = read]
        PROVE  s.folder = t.folder /\ s.uid = t.uid /\ s.mail = t.mail
    BY <1>2, <2>2
  <2>3. QED BY <2>1, <2>2
<1>4. \A f \in Folders : nextUid[f] <= nextUid'[f] BY <1>1
<1>5. QED BY <1>1, <1>3, <1>4, Places, ServerMoves

\* A mail that is moved is delivered to the Trash.
LEMMA Moved ==
    ASSUME Typed, AllTrue, NEW u \in Users, MoveToTrash(u)
    PROVE  ServerCarried
<1>1. nextUid \in [Folders -> Nat] BY DEF Typed, TypeOK
<1>2. CASE Named(u) = {}
  BY <1>2, ServerKeeps DEF MoveToTrash, AllTrue
<1>3. CASE Named(u) # {}
  <2>1. PICK t \in Named(u) : TRUE BY <1>3
  <2>2. \A s \in Named(u) : s.mail = t.mail
    BY <2>1 DEF Named, AllTrue, ServerTrue, Agrees
  <2>3. nextUid' = [nextUid EXCEPT ![Trash] = @ + 1]
    BY <1>3 DEF MoveToTrash
  <2>4. /\ nextUid' \in [Folders -> Nat] /\ \A f \in Folders : nextUid[f] <= nextUid'[f]
        /\ nextUid[Trash] < nextUid'[Trash]
    BY <1>1, <2>3, Places
  <2> DEFINE InTrash(s) == [s EXCEPT !.folder = Trash, !.uid = nextUid[Trash]]
  <2>5. \A s \in Named(u) : /\ InTrash(s).folder = Trash /\ InTrash(s).uid = nextUid[Trash]
                            /\ InTrash(s).mail = s.mail
    BY DEF Named, Typed, TypeOK, ServerMail
  <2>6. server' = (server \ Named(u)) \cup {InTrash(s) : s \in Named(u)}
    BY <1>3 DEF MoveToTrash
  <2> HIDE DEF InTrash
  <2>7. \A s \in server' :
           s \in server \/ (s.folder = Trash /\ s.uid = nextUid[Trash] /\ s.mail = t.mail)
    BY <2>2, <2>5, <2>6
  <2>8. QED BY <2>4, <2>7, Places, ServerMoves DEF AllTrue
<1>4. QED BY <1>2, <1>3

\* Steps that leave documents, passes or requests as they are carry them.
LEMMA Untouched ==
    /\ docs' \subseteq docs => DocsCarried
    /\ pass' = pass => PassesCarried
    /\ user' = user => UsersCarried
<1>1. docs' \subseteq docs => DocsCarried BY DEF DocsCarried, SameMail
<1>2. pass' = pass => PassesCarried BY DEF PassesCarried, Remembered
<1>3. user' = user => UsersCarried BY DEF UsersCarried
<1>4. QED BY <1>1, <1>2, <1>3

LEMMA WorldCarried ==
    ASSUME Typed, AllTrue, World
    PROVE  ServerCarried /\ DocsCarried /\ PassesCarried /\ UsersCarried
<1>1. ASSUME NEW m \in Mails, NEW f \in Folders, Arrive(m, f)
      PROVE  ServerCarried /\ DocsCarried /\ PassesCarried /\ UsersCarried
  BY <1>1, Places, Delivered, Untouched DEF Arrive, AllTrue
<1>2. ASSUME NEW s \in server, ReadElsewhere(s)
      PROVE  ServerCarried /\ DocsCarried /\ PassesCarried /\ UsersCarried
  <2>1. (~s.read) \in BOOLEAN OBVIOUS
  <2>2. ServerCarried BY <1>2, <2>1, Flagged DEF ReadElsewhere, SetRead, AllTrue
  <2>3. QED BY <1>2, <2>2, Untouched DEF ReadElsewhere
<1>3. ASSUME NEW s \in server, ExpungeElsewhere(s)
      PROVE  ServerCarried /\ DocsCarried /\ PassesCarried /\ UsersCarried
  BY <1>3, ServerKeeps, Untouched DEF ExpungeElsewhere, AllTrue
<1>4. CASE purgeEmails
  BY <1>4, ServerKeeps, Untouched DEF purgeEmails, AllTrue
<1>5. CASE Restart
  <2>1. PassesCarried /\ UsersCarried
    BY <1>5 DEF Restart, PassesCarried, UsersCarried, Remembered, IdlePass, IdleUser
  <2>2. QED BY <1>5, <2>1, ServerKeeps, Untouched DEF Restart, AllTrue
<1>6. QED BY Places, <1>1, <1>2, <1>3, <1>4, <1>5 DEF World

\* What one pass remembers after a step.
LEMMA PassMoves ==
    ASSUME Typed, NEW p \in Passes, \A q \in Passes \ {p} : pass'[q] = pass[q],
           pass'[p].listed \subseteq pass[p].listed \cup server,
           pass'[p].fresh \subseteq Remembered(p), pass'[p].todo \subseteq Remembered(p)
    PROVE  PassesCarried
  BY DEF PassesCarried, Remembered

LEMMA IdleRemembers ==
    ASSUME NEW p \in Passes
    PROVE  /\ IdlePass.listed = {} /\ IdlePass.fresh = {} /\ IdlePass.todo = {}
           /\ EndOfFolder(p).listed = {} /\ EndOfFolder(p).fresh = {} /\ EndOfFolder(p).todo = {}
  BY DEF EndOfFolder, IdlePass

LEMMA PassStepPasses ==
    ASSUME Typed, NEW p \in Passes, PassStep(p)
    PROVE  PassesCarried
<1>1. pass \in [Passes -> PassState] BY DEF Typed, TypeOK
<1>2. CASE \E r \in {IdlePass, EndOfFolder(p)} : pass' = [pass EXCEPT ![p] = r]
  <2>1. PICK r \in {IdlePass, EndOfFolder(p)} : pass' = [pass EXCEPT ![p] = r] BY <1>2
  <2>2. r.listed = {} /\ r.fresh = {} /\ r.todo = {} BY <2>1, IdleRemembers
  <2>3. \A q \in Passes : pass'[q] = IF q = p THEN r ELSE pass[q] BY <1>1, <2>1
  <2>4. QED BY <2>2, <2>3, PassMoves
<1>3. CASE ListFolders(p)
  BY <1>1, <1>3, PassMoves DEF ListFolders, PassState, Remembered
<1>4. CASE NextFolder(p)
  BY <1>1, <1>4, PassMoves DEF NextFolder, PassState, Remembered
<1>5. CASE Status(p)
  BY <1>1, <1>5, PassMoves DEF Status, PassState, Remembered
<1>6. CASE Fetch(p)
  <2>1. PICK S \in SUBSET server : pass' = [pass EXCEPT ![p].pc = "compare", ![p].listed = S]
    BY <1>6 DEF Fetch, At
  <2>2. QED BY <1>1, <2>1, PassMoves DEF PassState, Remembered
<1>7. CASE Compare(p)
  <2>1. PICK S, T \in SUBSET pass[p].listed :
            pass' = [pass EXCEPT ![p].pc = "flags", ![p].fresh = S, ![p].todo = T]
    <3> DEFINE known == {s \in pass[p].listed : \E d \in docs : Stands(d, s)}
               other == {s \in known : \E d \in docs : Stands(d, s) /\ d.read # s.read}
    <3>1. pass' = [pass EXCEPT ![p].pc = "flags", ![p].fresh = pass[p].listed \ known, ![p].todo = other]
      BY <1>7 DEF Compare
    <3>2. QED BY <3>1
  <2>2. QED BY <1>1, <2>1, PassMoves DEF PassState, Remembered
<1>8. ASSUME NEW s \in pass[p].todo, UpdateFlag(p, s) \/ ReplaceLocal(p, s) PROVE PassesCarried
  <2>1. pass' = [pass EXCEPT ![p].todo = @ \ {s}] BY <1>8 DEF UpdateFlag, ReplaceLocal
  <2>2. QED BY <1>1, <2>1, PassMoves DEF PassState, Remembered
<1>9. CASE FindGone(p)
  BY <1>1, <1>9, PassMoves DEF FindGone, PassState, Remembered
<1>10. CASE DeleteGone(p)
  BY <1>1, <1>10, PassMoves DEF DeleteGone, PassState, Remembered
<1>11. ASSUME NEW s \in pass[p].fresh, Store(p, s) PROVE PassesCarried
  BY <1>1, <1>11, PassMoves DEF Store, PassState, Remembered
<1>12. QED
  BY <1>2, <1>3, <1>4, <1>5, <1>6, <1>7, <1>8, <1>9, <1>10, <1>11
     DEF PassStep, Finish, DropLeftovers, FolderDone

LEMMA PassStepDocs ==
    ASSUME Typed, NEW p \in Passes, PassStep(p)
    PROVE  DocsCarried
<1>1. ASSUME NEW s \in pass[p].todo, UpdateFlag(p, s) PROVE DocsCarried
  <2>1. ASSUME NEW d \in docs'
        PROVE  \E e \in docs : d.folder = e.folder /\ d.id = e.id /\ d.mail = e.mail
    <3>1. PICK e \in docs : d = IF Stands(e, s) THEN [e EXCEPT !.read = s.read] ELSE e
      BY <1>1 DEF UpdateFlag
    <3>2. QED BY <3>1 DEF Typed, TypeOK, Doc
  <2>2. QED BY <2>1 DEF DocsCarried, SameMail
<1>2. ASSUME NEW s \in pass[p].fresh, Store(p, s) PROVE DocsCarried
  BY <1>2 DEF Store, Insert, DocsCarried, SameMail
<1>3. CASE docs' \subseteq docs BY <1>3, Untouched
<1>4. QED
  BY <1>1, <1>2, <1>3 DEF PassStep, ListFolders, NextFolder, Finish, Status, DropLeftovers, Fetch,
                          Compare, ReplaceLocal, FindGone, DeleteGone, FolderDone

LEMMA PassStepServer ==
    ASSUME NEW p \in Passes, PassStep(p)
    PROVE  UNCHANGED <<server, nextUid, user>>
  BY DEF PassStep, passEnv, ListFolders, NextFolder, Finish, Status, DropLeftovers, Fetch, Compare,
         UpdateFlag, ReplaceLocal, FindGone, DeleteGone, Store, FolderDone

LEMMA PassEdgeCarried ==
    ASSUME Typed, AllTrue, NEW p \in Passes,
           \/ syncAllFolders(p) \/ FolderFails(p) \/ ListFails(p)
           \/ \E f \in Folders : syncFolder(p, f)
    PROVE  ServerCarried /\ DocsCarried /\ PassesCarried /\ UsersCarried
<1>1. pass \in [Passes -> PassState] BY DEF Typed, TypeOK
<1>2. UNCHANGED <<server, nextUid, docs, user>>
  BY DEF syncAllFolders, FolderFails, ListFails, syncFolder, passEnv
<1>3. ASSUME syncAllFolders(p) \/ \E f \in Folders : syncFolder(p, f) PROVE PassesCarried
  <2>1. CASE syncAllFolders(p)
    BY <1>1, <2>1, PassMoves DEF syncAllFolders, PassState, Remembered
  <2>2. ASSUME NEW f \in Folders, syncFolder(p, f) PROVE PassesCarried
    BY <1>1, <2>2, PassMoves DEF syncFolder, PassState, Remembered
  <2>3. QED BY <1>3, <2>1, <2>2
<1>4. ASSUME FolderFails(p) \/ ListFails(p) PROVE PassesCarried
  <2>1. PICK r \in {IdlePass, EndOfFolder(p)} : pass' = [pass EXCEPT ![p] = r]
    BY <1>4 DEF FolderFails, ListFails
  <2>2. r.listed = {} /\ r.fresh = {} /\ r.todo = {} BY <2>1, IdleRemembers
  <2>3. \A q \in Passes : pass'[q] = IF q = p THEN r ELSE pass[q] BY <1>1, <2>1
  <2>4. QED BY <2>2, <2>3, PassMoves
<1>5. PassesCarried BY <1>3, <1>4
<1>6. QED BY <1>2, <1>5, ServerKeeps, Untouched DEF AllTrue

\* What one request does to what requests remember: nothing is asked but of a document.
LEMMA UserMoves ==
    ASSUME Typed, NEW u \in Users, \A v \in Users \ {u} : user'[v] = user[v],
           user'[u].pc = "delete" =>
              \E d \in docs : SameMail(d, user'[u].folder, user'[u].id, user'[u].mail)
    PROVE  UsersCarried
  BY DEF UsersCarried

LEMMA UserStepUsers ==
    ASSUME Typed, NEW u \in Users, UserStep(u)
    PROVE  UsersCarried /\ PassesCarried
<1>1. user \in [Users -> UserState] BY DEF Typed, TypeOK
<1>2. IdleUser.pc = "idle" BY DEF IdleUser
<1>3. UsersCarried
  <2>1. (\A v \in Users \ {u} : user'[v] = user[v]) /\ user'[u].pc # "delete"
    BY <1>1, <1>2 DEF UserStep, PropagateRead, MoveToTrash, FileInTrash, ExpungeMail, NoSuchFolder,
                      DropLocal, Append, SaveCopy, UserState
  <2>2. QED BY <2>1, UserMoves
<1>4. PassesCarried
  BY Untouched DEF UserStep, userEnv, PropagateRead, MoveToTrash, FileInTrash, ExpungeMail,
                   NoSuchFolder, DropLocal, Append, SaveCopy
<1>5. QED BY <1>3, <1>4

LEMMA UserStepCarried ==
    ASSUME Typed, AllTrue, NEW u \in Users, UserStep(u)
    PROVE  ServerCarried /\ DocsCarried
<1>1. user[u] \in UserState BY DEF Typed, TypeOK
<1>2. CASE PropagateRead(u)
  <2>1. user[u].read \in BOOLEAN BY <1>1 DEF UserState
  <2>2. ServerCarried BY <1>2, <2>1, Flagged DEF PropagateRead, Named, AllTrue
  <2>3. QED BY <1>2, <2>2, Untouched DEF PropagateRead
<1>3. CASE MoveToTrash(u)
  BY <1>3, Moved, Untouched DEF MoveToTrash
<1>4. CASE FileInTrash(u)
  <2>1. \A d \in docs : [d EXCEPT !.folder = Trash].folder = Trash
    BY DEF Typed, TypeOK, Doc
  <2>2. \A d \in docs' : d \in docs \/ d.folder = Trash
    BY <1>4, <2>1 DEF FileInTrash
  <2>3. DocsCarried BY <2>2 DEF DocsCarried, SameMail
  <2>4. QED BY <1>4, <2>3, ServerKeeps DEF FileInTrash, AllTrue
<1>5. CASE ExpungeMail(u)
  BY <1>5, ServerKeeps, Untouched DEF ExpungeMail, AllTrue
<1>6. CASE NoSuchFolder(u) \/ DropLocal(u)
  BY <1>6, ServerKeeps, Untouched DEF NoSuchFolder, DropLocal, AllTrue
<1>7. CASE Append(u)
  <2>1. user[u].mail \in Mails BY <1>1 DEF UserState
  <2>2. QED BY <1>7, <2>1, Places, Delivered, Untouched DEF Append, AllTrue
<1>8. CASE SaveCopy(u)
  <2>1. DocsCarried BY <1>8 DEF SaveCopy, DocsCarried, SameMail
  <2>2. QED BY <1>8, <2>1, ServerKeeps DEF SaveCopy, AllTrue
<1>9. QED BY <1>2, <1>3, <1>4, <1>5, <1>6, <1>7, <1>8 DEF UserStep

LEMMA UserAsksCarried ==
    ASSUME Typed, AllTrue, NEW u \in Users, UserAsks(u)
    PROVE  ServerCarried /\ DocsCarried /\ PassesCarried /\ UsersCarried
<1>1. user \in [Users -> UserState] BY DEF Typed, TypeOK
<1>2. IdleUser.pc = "idle" BY DEF IdleUser
<1>3. ServerCarried /\ PassesCarried
  BY ServerKeeps, Untouched DEF UserAsks, userEnv, deleteEmail, markAsRead, sendEmail, PropagateFails,
       TrashUnknown, DeleteFails, AppendFails, AllTrue
<1>4. ASSUME NEW d \in docs, deleteEmail(u, d) PROVE DocsCarried /\ UsersCarried
  <2>1. \A v \in Users : user'[v] = IF v = u THEN Ask(u, "delete", d) ELSE user[v]
    BY <1>1, <1>4 DEF deleteEmail
  <2>2. SameMail(d, user'[u].folder, user'[u].id, user'[u].mail)
    BY <2>1 DEF Ask, SameMail
  <2>3. QED BY <1>4, <2>1, <2>2, UserMoves, Untouched DEF deleteEmail
<1>5. ASSUME NEW d \in docs, NEW read \in BOOLEAN, markAsRead(u, d, read)
      PROVE  DocsCarried /\ UsersCarried
  <2>1. \A v \in Users : user'[v] = IF v = u THEN [Ask(u, "flag", d) EXCEPT !.read = read] ELSE user[v]
    BY <1>1, <1>5 DEF markAsRead
  <2>2. user'[u].pc = "flag" BY <2>1 DEF Ask
  <2>3. \A e \in docs' : \E c \in docs : e.folder = c.folder /\ e.id = c.id /\ e.mail = c.mail
    <3>1. LET e == [d EXCEPT !.read = read]
          IN  e.folder = d.folder /\ e.id = d.id /\ e.mail = d.mail
      BY DEF Typed, TypeOK, Doc
    <3>2. QED BY <1>5, <3>1 DEF markAsRead
  <2>4. DocsCarried BY <2>3 DEF DocsCarried, SameMail
  <2>5. QED BY <2>1, <2>2, <2>4, UserMoves
<1>6. CASE docs' = docs /\ user'[u].pc # "delete" /\ \A v \in Users \ {u} : user'[v] = user[v]
  BY <1>3, <1>6, UserMoves, Untouched
<1>7. ASSUME NEW m \in Mails, sendEmail(u, m)
      PROVE  docs' = docs /\ user'[u].pc # "delete" /\ \A v \in Users \ {u} : user'[v] = user[v]
  BY <1>1, <1>7 DEF sendEmail, IdleUser
<1>8. ASSUME PropagateFails(u) \/ TrashUnknown(u) \/ DeleteFails(u) \/ AppendFails(u)
      PROVE  docs' = docs /\ user'[u].pc # "delete" /\ \A v \in Users \ {u} : user'[v] = user[v]
  BY <1>1, <1>2, <1>8 DEF PropagateFails, TrashUnknown, DeleteFails, AppendFails, UserState
<1>9. QED BY <1>3, <1>4, <1>5, <1>6, <1>7, <1>8 DEF UserAsks

LEMMA TrueStep ==
    ASSUME Typed, AllTrue, [Next]_vars
    PROVE  AllTrue'
<1>1. TypeOK' BY TypeStep DEF Typed
<1>2. CASE World BY <1>1, <1>2, WorldCarried, Carried
<1>3. ASSUME NEW p \in Passes,
             \/ syncAllFolders(p) \/ FolderFails(p) \/ ListFails(p)
             \/ \E f \in Folders : syncFolder(p, f)
      PROVE  AllTrue'
  BY <1>1, <1>3, PassEdgeCarried, Carried
<1>4. ASSUME NEW p \in Passes, PassStep(p) PROVE AllTrue'
  <2>1. ServerCarried /\ UsersCarried
    BY <1>4, PassStepServer, ServerKeeps, Untouched DEF AllTrue
  <2>2. QED BY <1>1, <1>4, <2>1, PassStepDocs, PassStepPasses, Carried
<1>5. ASSUME NEW u \in Users, UserStep(u) PROVE AllTrue'
  BY <1>1, <1>5, UserStepCarried, UserStepUsers, Carried
<1>6. ASSUME NEW u \in Users, UserAsks(u) PROVE AllTrue'
  BY <1>1, <1>6, UserAsksCarried, Carried
<1>7. CASE UNCHANGED vars
  BY <1>1, <1>7, ServerKeeps, Untouched, Carried DEF vars, AllTrue
<1>8. QED BY <1>2, <1>3, <1>4, <1>5, <1>6, <1>7 DEF Next, Start

LEMMA InitTrue == Init => Typed /\ AllTrue
<1> SUFFICES ASSUME Init PROVE Typed /\ AllTrue OBVIOUS
<1>1. Typed BY InitType, FS_EmptySet DEF Init, Typed
<1>2. PassesTrue BY DEF Init, PassesTrue, Remembered, IdlePass
<1>3. UsersTrue BY DEF Init, UsersTrue, IdleUser
<1>4. QED BY <1>1, <1>2, <1>3 DEF Init, AllTrue, ServerTrue, DocsTrue

LEMMA AllTrueAlways == Spec => [](Typed /\ AllTrue)
<1>1. Typed /\ AllTrue /\ [Next]_vars => (Typed /\ AllTrue)' BY TypeStep, TrueStep
<1>2. QED BY InitTrue, <1>1, PTL DEF Spec

\* Outside the Trash a document stands for the mail it was made of as long as that
\* mail is on the server (StandsForItsMail).
THEOREM DocumentsStandForTheirMail == Spec => []StandsForItsMail
<1>1. Typed /\ AllTrue => StandsForItsMail
  <2> SUFFICES ASSUME Typed, AllTrue, NEW d \in docs, NEW s \in server, Stands(d, s), d.folder # Trash
               PROVE  d.mail = s.mail
    BY DEF StandsForItsMail
  <2>1. s.folder \in Folders /\ s.uid # Local
    BY DEF Typed, TypeOK, ServerMail, Uids, Local
  <2>2. QED BY <2>1 DEF Stands, AllTrue, DocsTrue, Known, Agrees
<1>2. QED BY <1>1, AllTrueAlways, PTL

\* A step that ends a deletion outside the Trash removes the mail that the user saw,
\* or none (DeletesWhatWasAsked).
THEOREM DeletionsHitTheirMail == Spec => DeletesWhatWasAsked
<1>1. ASSUME Typed, AllTrue, [Next]_vars,
             NEW u \in Users, user[u].pc = "delete", user'[u].pc # "delete", user[u].folder # Trash,
             NEW s \in server \ server'
      PROVE  s.mail = user[u].mail
  <2>1. user \in [Users -> UserState] BY <1>1 DEF Typed, TypeOK
  <2>2. s \in Named(u)
    <3>1. ASSUME NEW v \in Users, UserStep(v) PROVE s \in Named(u)
      <4>1. CASE v # u
        <5>1. user'[u] = user[u]
          BY <2>1, <3>1, <4>1 DEF UserStep, PropagateRead, MoveToTrash, FileInTrash, ExpungeMail,
                                  NoSuchFolder, DropLocal, Append, SaveCopy
        <5>2. QED BY <1>1, <5>1
      <4>2. CASE v = u
        BY <1>1, <3>1, <4>2 DEF UserStep, PropagateRead, MoveToTrash, FileInTrash, ExpungeMail,
                                NoSuchFolder, DropLocal, Append, SaveCopy
      <4>3. QED BY <4>1, <4>2
    <3>2. ASSUME NEW v \in Users, UserAsks(v) PROVE s \in Named(u)
      <4>1. CASE v # u
        <5>1. user'[u] = user[u]
          BY <2>1, <3>2, <4>1 DEF UserAsks, deleteEmail, markAsRead, sendEmail, PropagateFails,
                                  TrashUnknown, DeleteFails, AppendFails
        <5>2. QED BY <1>1, <5>1
      <4>2. CASE v = u
        BY <1>1, <3>2, <4>2 DEF UserAsks, userEnv, deleteEmail, markAsRead, sendEmail, PropagateFails,
                                TrashUnknown, DeleteFails, AppendFails
      <4>3. QED BY <4>1, <4>2
    <3>3. ASSUME NEW p \in Passes,
                 \/ syncAllFolders(p) \/ PassStep(p) \/ FolderFails(p) \/ ListFails(p)
                 \/ \E f \in Folders : syncFolder(p, f)
          PROVE  FALSE
      BY <1>1, <3>3, PassStepServer DEF syncAllFolders, FolderFails, ListFails, syncFolder, passEnv
    <3>4. CASE World
      BY <1>1, <3>4 DEF World, Arrive, ReadElsewhere, ExpungeElsewhere, purgeEmails, Restart
    <3>5. CASE UNCHANGED vars BY <1>1, <3>5 DEF vars
    <3>6. QED BY <1>1, <3>1, <3>2, <3>3, <3>4, <3>5 DEF Next, Start
  <2>3. s.folder \in Folders /\ s.uid # Local
    BY <1>1 DEF Typed, TypeOK, ServerMail, Uids, Local
  <2>4. QED BY <1>1, <2>2, <2>3 DEF Named, AllTrue, UsersTrue, Known, Agrees
<1>2. Typed /\ AllTrue /\ [Next]_vars =>
        [\A u \in Users :
           (user[u].pc = "delete" /\ user'[u].pc # "delete" /\ user[u].folder # Trash)
              => \A s \in server \ server' : s.mail = user[u].mail]_vars
  BY <1>1
<1>3. QED BY <1>2, AllTrueAlways, PTL DEF Spec, DeletesWhatWasAsked

=============================================================================
