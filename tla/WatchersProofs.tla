---------------------------- MODULE WatchersProofs ----------------------------
(***************************************************************************)
(* What watches a tenant from outside, for any number of comments,         *)
(* handlers, pages, tenants, tasks and accounts.  A comment is stored      *)
(* once, by webhook, poll or both, told of, and never taken for an answer. *)
(* A task is told of once for a date and a notice mailed once.  A page and *)
(* its Instagram account go together and the records agree with Meta, but  *)
(* for the pages the properties name: requests met, one failed half way,   *)
(* or the page's record was taken alone.                                   *)
(***************************************************************************)
EXTENDS MCWatchers, FiniteSetTheorems, WellFoundedInduction, TLAPS

-----------------------------------------------------------------------------
(* Comments: the invariant. *)

\* What handlers and answers are made of.
JobSteps == {"idle", "next", "check", "look", "make", "find", "open", "save", "tell"}
JobsOf   == [kind : {"none", "webhook", "poll"}, step : JobSteps, rest : SUBSET Comments,
             on : Comments \cup {None}, contact : Nat, thread : Nat]
Answers  == [step : {"idle", "asked", "posted", "done"}, to : Comments \cup {None}, known : Nat]

CommentsTyped ==
    /\ job \in [Jobs -> JobsOf] /\ answer \in [Replies -> Answers]
    /\ network \in [Comments -> {"none", "soon", "there", "below", "gone"}]
    /\ contacts \in Seq([who : People, psid : BOOLEAN, named : BOOLEAN])
    /\ threads \in Seq([who : People, key : {"id", "name"}])
    /\ messages \in Seq([comment : Comments \ Replies, thread : Nat, told : BOOLEAN])
    /\ connected \in BOOLEAN /\ revoked \in BOOLEAN /\ recent \in BOOLEAN

\* What a handler knows at a step: a comment of somebody else, his contact, his
\* thread, the message it has just stored.
OnComment == {"check", "look", "make", "find", "open", "save", "tell"}
Storing   == {"look", "make", "find", "open", "save"}

Informed(j) ==
    /\ job[j].step \in OnComment => job[j].on \in Comments \ Replies
    /\ job[j].step \in {"find", "open", "save"} =>
          job[j].contact \in 1..Len(contacts) /\ contacts[job[j].contact].who = Who(j)
    /\ job[j].step = "save" => job[j].thread \in 1..Len(threads) /\ threads[job[j].thread].who = Who(j)
    /\ job[j].step = "tell" => job[j].contact \in 1..Len(messages) /\ messages[job[j].contact].comment = job[j].on

\* A message is in a thread of its author, and a contact without an id has a name.
Filed ==
    /\ \A i \in 1..Len(messages) : /\ messages[i].thread \in 1..Len(threads)
                                   /\ threads[messages[i].thread].who = Author[messages[i].comment]
    /\ \A i \in 1..Len(contacts) : contacts[i].psid \/ contacts[i].named

\* Who is about to store a comment that is stored, or that another is about to
\* store, is known to have crossed with him; likewise for contacts and threads.
StoredOnce ==
    /\ CommentOnce
    /\ \A j \in Jobs : job[j].step \in Storing /\ HasMessage(job[j].on) => job[j].on \in crossed
    /\ \A j, k \in Jobs : j # k /\ job[j].step \in Storing /\ job[k].step \in Storing /\ job[j].on = job[k].on
                            => job[j].on \in crossed

ContactsOnce ==
    /\ \A i, k \in 1..Len(contacts) :
         i # k /\ contacts[i].who = contacts[k].who /\ contacts[i].psid = contacts[k].psid => contacts[i].who \in crossed
    /\ \A j \in Jobs, i \in 1..Len(contacts) :
         job[j].step = "make" /\ contacts[i].who = Who(j) /\ contacts[i].psid = ~ByName(j) => Who(j) \in crossed
    /\ \A j, k \in Jobs :
         j # k /\ job[j].step = "make" /\ job[k].step = "make" /\ Who(j) = Who(k) /\ ByName(j) = ByName(k)
           => Who(j) \in crossed

ThreadsOnce ==
    /\ \A i, k \in 1..Len(threads) :
         i # k /\ threads[i].who = threads[k].who /\ threads[i].key = threads[k].key => threads[i].who \in crossed
    /\ \A j \in Jobs, i \in 1..Len(threads) :
         job[j].step = "open" /\ threads[i].who = Who(j) /\ threads[i].key = ThreadKey(j) => Who(j) \in crossed
    /\ \A j, k \in Jobs :
         j # k /\ job[j].step = "open" /\ job[k].step = "open" /\ Who(j) = Who(k) /\ ThreadKey(j) = ThreadKey(k)
           => Who(j) \in crossed

\* An answer knows a thread of the person it answers, and is recorded there.
Answered ==
    /\ \A r \in Replies : answer[r].known # None =>
          answer[r].known \in 1..Len(threads) /\ threads[answer[r].known].who = Author[answer[r].to]
    /\ \A r \in DOMAIN recorded : /\ r \in Replies /\ answer[r].step # "idle"
                                  /\ answer[r].known # None => recorded[r] = answer[r].known

CommentsInv ==
    /\ CommentsTyped
    /\ \A j \in Jobs : Informed(j)
    /\ Filed /\ StoredOnce /\ ContactsOnce /\ ThreadsOnce /\ EveryStoredTold /\ Answered

-----------------------------------------------------------------------------
\* The first of some numbers is one of them.
LEMMA FirstOf ==
    ASSUME NEW T \in SUBSET Nat, T # {}
    PROVE  First(T) \in T
<1> DEFINE Below == {p \in Nat \X Nat : p[1] < p[2]}
<1>1. IsWellFoundedOn(Below, Nat) BY NatLessThanWellFounded DEF OpToRel
<1>2. \A x, y \in Nat : <<y, x>> \notin Below => x <= y OBVIOUS
<1> HIDE DEF Below
<1>3. \E x \in T : \A y \in T : ~(<<y, x>> \in Below) BY <1>1, WFMin
<1>4. \E x \in T : \A y \in T : x <= y BY <1>2, <1>3
<1>5. QED BY <1>4 DEF First

LEMMA ElementOf == ASSUME NEW T, NEW list \in Seq(T), NEW i \in 1..Len(list) PROVE list[i] \in T
  OBVIOUS

LEMMA OthersOnly == ASSUME NEW c \in Comments, ~IsOwn(c) PROVE c \in Comments \ Replies /\ Author[c] \in People
  BY DEF IsOwn, Replies, People

LEMMA CommentsBegin ==
    ASSUME Init
    PROVE  CommentsInv
<1> USE DEF Init
<1>1. job \in [Jobs -> JobsOf] BY DEF Idle, JobsOf, JobSteps, None
<1>2. answer \in [Replies -> Answers] BY DEF NotAnswered, Answers, None
<1>3. CommentsTyped
  <2>1. network \in [Comments -> {"none", "soon", "there", "below", "gone"}] OBVIOUS
  <2>2. \A T : <<>> \in Seq(T) OBVIOUS
  <2>3. connected \in BOOLEAN /\ revoked \in BOOLEAN /\ recent \in BOOLEAN OBVIOUS
  <2>4. contacts = <<>> /\ threads = <<>> /\ messages = <<>> OBVIOUS
  <2> HIDE DEF Init
  <2>5. QED BY <1>1, <1>2, <2>1, <2>2, <2>3, <2>4 DEF CommentsTyped
<1>4. \A j \in Jobs : job[j].step = "idle" BY DEF Idle
<1>5. \A j \in Jobs : Informed(j) BY <1>4 DEF Informed, OnComment
<1>6. Filed BY DEF Filed
<1>7. StoredOnce BY <1>4 DEF StoredOnce, CommentOnce, Storing
<1>8. ContactsOnce BY <1>4 DEF ContactsOnce
<1>9. ThreadsOnce BY <1>4 DEF ThreadsOnce
<1>10. EveryStoredTold BY DEF EveryStoredTold
<1>11. Answered BY DEF Answered, NotAnswered
<1>12. QED BY <1>3, <1>5, <1>6, <1>7, <1>8, <1>9, <1>10, <1>11 DEF CommentsInv

-----------------------------------------------------------------------------
(* Types. *)

LEMMA IdleJob == Idle \in JobsOf /\ Idle.step = "idle"
  BY DEF Idle, JobsOf, JobSteps, None

LEMMA PollJob ==
    ASSUME NEW S \in SUBSET Comments
    PROVE  [Idle EXCEPT !.kind = "poll", !.step = "next", !.rest = S] \in
             {q \in JobsOf : q.step = "next"}
  BY DEF Idle, JobsOf, JobSteps, None

LEMMA DoneJob ==
    ASSUME CommentsTyped, NEW j \in Jobs
    PROVE  Done(j) \in JobsOf /\ Done(j).step \in {"idle", "next"}
<1>1. job[j] \in JobsOf BY DEF CommentsTyped
<1>2. job[j].rest \in SUBSET Comments BY <1>1 DEF JobsOf
<1>3. QED BY <1>2, IdleJob, PollJob DEF Done

\* One handler's step is all that happens to the handlers.
LEMMA OneJob ==
    ASSUME CommentsTyped, NEW j \in Jobs, NEW q \in JobsOf, Set(j, q)
    PROVE  /\ job' \in [Jobs -> JobsOf] /\ job'[j] = q
           /\ \A k \in Jobs \ {j} : job'[k] = job[k]
  BY DEF CommentsTyped, Set

\* What happens to a handler that is at rest or before its first search.
Resting(k) == /\ job'[k].step \in {"idle", "next", "check"}
              /\ job'[k].step = "check" => job'[k].on \in Comments \ Replies

LEMMA CheckJob ==
    ASSUME CommentsTyped, NEW c \in Comments
    PROVE  [Idle EXCEPT !.kind = "webhook", !.step = "check", !.on = c] \in
             {q \in JobsOf : q.step = "check" /\ q.on = c}
  BY DEF Idle, JobsOf, JobSteps, None

\* No handler finds out or stores anything: contacts, threads and messages are
\* the same but for what was told.
LEMMA NothingStored ==
    ASSUME CommentsInv, CommentsTyped', UNCHANGED <<contacts, threads>>, crossed \subseteq crossed',
           Len(messages') = Len(messages),
           \A i \in 1..Len(messages) : /\ messages'[i].comment = messages[i].comment
                                       /\ messages'[i].thread = messages[i].thread,
           \A k \in Jobs : job'[k] = job[k] \/ Resting(k)
    PROVE  (\A j \in Jobs : Informed(j)') /\ Filed' /\ StoredOnce' /\ ContactsOnce' /\ ThreadsOnce'
<1>1. ASSUME NEW j \in Jobs PROVE Informed(j)'
  <2>1. CASE Resting(j) BY <2>1 DEF Resting, Informed, OnComment
  <2>2. CASE job'[j] = job[j] BY <2>2, <1>1 DEF CommentsInv, Informed, OnComment, Who
  <2>3. QED BY <2>1, <2>2
<1>2. Filed' BY DEF CommentsInv, Filed
<1>3. \A k \in Jobs : job'[k].step \in Storing => job'[k] = job[k] BY DEF Resting, Storing
<1>4. \A c : HasMessage(c)' => HasMessage(c) BY DEF HasMessage
<1>5. StoredOnce'
  <2>1. CommentOnce' BY DEF CommentsInv, StoredOnce, CommentOnce
  <2>2. \A j \in Jobs : job'[j].step \in Storing /\ HasMessage(job[j].on)' => job'[j].on \in crossed'
    BY <1>3, <1>4 DEF CommentsInv, StoredOnce
  <2>3. \A j, k \in Jobs : j # k /\ job'[j].step \in Storing /\ job'[k].step \in Storing /\ job'[j].on = job'[k].on
                              => job'[j].on \in crossed'
    BY <1>3 DEF CommentsInv, StoredOnce
  <2>4. QED BY <2>1, <2>2, <2>3 DEF StoredOnce, HasMessage
<1>6. ContactsOnce'
  <2>1. \A k \in Jobs : job'[k].step = "make" => job'[k] = job[k] /\ Who(k)' = Who(k) /\ ByName(k)' = ByName(k)
    BY <1>3 DEF Storing, Who, ByName
  <2>2. QED BY <2>1 DEF CommentsInv, ContactsOnce
<1>7. ThreadsOnce'
  <2>1. \A k \in Jobs : job'[k].step = "open" => job'[k] = job[k] /\ Who(k)' = Who(k) /\ ThreadKey(k)' = ThreadKey(k)
    BY <1>3 DEF Storing, Who, ThreadKey
  <2>2. QED BY <2>1 DEF CommentsInv, ThreadsOnce
<1>8. QED BY <1>1, <1>2, <1>5, <1>6, <1>7

\* Nobody who was about to tell of a message forgets it.
LEMMA ToldStays ==
    ASSUME EveryStoredTold, messages' = messages, halved \subseteq halved',
           \A j \in Jobs : job[j].step = "tell" => job'[j] = job[j] \/ job[j].on \in halved',
           \A j \in Jobs : Informed(j)
    PROVE  EveryStoredTold'
<1> SUFFICES ASSUME NEW i \in 1..Len(messages), ~messages[i].told, messages[i].comment \notin halved'
             PROVE  \E j \in Jobs : job'[j].step = "tell" /\ job'[j].contact = i
  BY DEF EveryStoredTold
<1>1. PICK j \in Jobs : job[j].step = "tell" /\ job[j].contact = i BY DEF EveryStoredTold
<1>2. messages[i].comment = job[j].on BY <1>1 DEF Informed
<1>3. QED BY <1>1, <1>2

\* Threads are only added.
LEMMA AnsweredStays ==
    ASSUME Answered, UNCHANGED <<answer, recorded>>, Len(threads) \in Nat, Len(threads') \in Nat,
           Len(threads) <= Len(threads'), \A i \in 1..Len(threads) : threads'[i] = threads[i]
    PROVE  Answered'
  BY DEF Answered

\* The steps of a handler, each with the handler it leaves behind.
LEMMA LookJob ==
    ASSUME CommentsTyped, NEW j \in Jobs, NEW T \in SUBSET Nat
    PROVE  /\ [job[j] EXCEPT !.step = "look"] \in JobsOf
           /\ [job[j] EXCEPT !.step = AfterFinding(j, T), !.contact = IF T = {} THEN None ELSE First(T)] \in JobsOf
           /\ [job[j] EXCEPT !.step = IF T = {} THEN "open" ELSE "save", !.thread = IF T = {} THEN None ELSE First(T)] \in JobsOf
<1>1. job[j] \in JobsOf BY DEF CommentsTyped
<1>2. (IF T = {} THEN None ELSE First(T)) \in Nat BY FirstOf DEF None
<1>3. AfterFinding(j, T) \in JobSteps BY DEF AfterFinding, JobSteps
<1>4. QED BY <1>1, <1>2, <1>3 DEF JobsOf, JobSteps

ContactRecord == [who : People, psid : BOOLEAN, named : BOOLEAN]

LEMMA TypedComments ==
    ASSUME CommentsInv, Next
    PROVE  CommentsTyped'
<1>0. CommentsTyped /\ \A j \in Jobs : Informed(j) BY DEF CommentsInv
<1> DEFINE Lists == UNCHANGED <<contacts, threads, messages>>
           Flags == /\ network' \in [Comments -> {"none", "soon", "there", "below", "gone"}]
                    /\ connected' \in BOOLEAN /\ revoked' \in BOOLEAN /\ recent' \in BOOLEAN
           Jobbed == job' \in [Jobs -> JobsOf]
           Answering == answer' \in [Replies -> Answers]
<1>a. ASSUME Lists, Flags, Jobbed, Answering PROVE CommentsTyped' BY <1>0, <1>a DEF CommentsTyped
<1>b. ASSUME UNCHANGED network, UNCHANGED account, UNCHANGED recent PROVE Flags BY <1>0, <1>b DEF CommentsTyped, account
<1>c. ASSUME UNCHANGED job PROVE Jobbed BY <1>0, <1>c DEF CommentsTyped
<1>d. ASSUME UNCHANGED answer PROVE Answering BY <1>0, <1>d DEF CommentsTyped
<1>e. ASSUME UNCHANGED stored PROVE Lists BY <1>e DEF stored
<1> HIDE DEF Lists, Flags, Jobbed, Answering
<1>1. CASE Write
  <2>1. Flags BY <1>1, <1>0 DEF Write, CommentsTyped, account, Flags
  <2>2. QED BY <1>1, <2>1, <1>a, <1>c, <1>d, <1>e DEF Write
<1>2. CASE Revoke
  <2>1. Flags BY <1>2, <1>0 DEF Revoke, CommentsTyped, Flags
  <2>2. QED BY <1>2, <2>1, <1>a, <1>c, <1>d, <1>e DEF Revoke
<1>3. CASE Reconnect
  <2>1. Flags BY <1>3, <1>0 DEF Reconnect, CommentsTyped, Flags
  <2>2. QED BY <1>3, <2>1, <1>a, <1>c, <1>d, <1>e DEF Reconnect
<1>4. CASE FallsQuiet
  <2>1. Flags BY <1>4, <1>0 DEF FallsQuiet, CommentsTyped, account, Flags
  <2>2. QED BY <1>4, <2>1, <1>a, <1>c, <1>d, <1>e DEF FallsQuiet
<1>5. CASE Crash
  <2>1. Flags BY <1>5, <1>0 DEF Crash, CommentsTyped, account, Flags
  <2>2. Jobbed BY <1>5, IdleJob DEF Crash, Jobbed
  <2>3. Answering BY <1>5, <1>0 DEF Crash, CommentsTyped, Answers, Answering
  <2>4. QED BY <1>5, <2>1, <2>2, <2>3, <1>a, <1>e DEF Crash
<1>6. ASSUME NEW j \in Jobs, syncCommentsForTenant(j) PROVE Flags /\ Jobbed
  <2>1. Flags BY <1>6, <1>0 DEF syncCommentsForTenant, CommentsTyped, Flags
  <2>2. Listed(Facebook) \in SUBSET Comments BY DEF Listed, Comments
  <2>3. Jobbed BY <1>6, <2>2, <1>c, <1>0, PollJob, OneJob DEF syncCommentsForTenant, Poll, Jobbed
  <2>4. QED BY <2>1, <2>3
<1>7. CASE autoSyncComments BY <1>7, <1>6, <1>a, <1>d, <1>e DEF autoSyncComments, syncCommentsForTenant
<1>8. CASE syncComments BY <1>8, <1>6, <1>a, <1>d, <1>e DEF syncComments, syncCommentsForTenant
<1>9. ASSUME NEW j \in Jobs, syncInstagramComments(j) PROVE CommentsTyped'
  <2>1. PICK S \in SUBSET Listed(Instagram) : Poll(j, S) BY <1>9 DEF syncInstagramComments
  <2>2. S \in SUBSET Comments BY DEF Listed, Comments
  <2>3. Jobbed BY <2>1, <2>2, <1>0, PollJob, OneJob DEF Poll, Jobbed
  <2>4. QED BY <1>9, <2>3, <1>a, <1>b, <1>d, <1>e DEF syncInstagramComments
<1>10. ASSUME NEW j \in Jobs, NEW c \in Comments, Deliver(j, c) PROVE CommentsTyped'
  <2>1. Flags BY <1>10, <1>0 DEF Deliver, CommentsTyped, account, Flags
  <2>2. Jobbed BY <1>10, <1>0, IdleJob, CheckJob, OneJob DEF Deliver, Jobbed
  <2>3. QED BY <1>10, <2>1, <2>2, <1>a, <1>d, <1>e DEF Deliver
<1>11. ASSUME NEW j \in Jobs, NextOfPoll(j) PROVE CommentsTyped'
  <2>1. ASSUME NEW c \in job[j].rest
        PROVE  [job[j] EXCEPT !.rest = @ \ {c}, !.on = IF IsOwn(c) THEN None ELSE c,
                              !.step = IF IsOwn(c) THEN "next" ELSE "check"] \in JobsOf
    BY <1>0, <2>1 DEF CommentsTyped, JobsOf, JobSteps
  <2>2. Jobbed BY <1>11, <2>1, <1>0, IdleJob, OneJob DEF NextOfPoll, Jobbed
  <2>3. QED BY <1>11, <2>2, <1>a, <1>b, <1>d, <1>e DEF NextOfPoll
<1>12. ASSUME NEW j \in Jobs, Check(j) PROVE CommentsTyped'
  <2>1. Jobbed BY <1>12, <1>0, LookJob, DoneJob, OneJob DEF Check, Jobbed
  <2>2. QED BY <1>12, <2>1, <1>a, <1>b, <1>d, <1>e DEF Check
<1>13. ASSUME NEW j \in Jobs, LookForContact(j) PROVE CommentsTyped'
  <2> DEFINE found == ContactsOf(ByName(j), Who(j))
  <2>1. found \in SUBSET (1..Len(contacts)) BY DEF ContactsOf
  <2>2. found \in SUBSET Nat BY <2>1
  <2>3. Jobbed BY <1>13, <1>0, <2>2, LookJob, OneJob DEF LookForContact, Jobbed
  <2>4. contacts' \in Seq(ContactRecord)
    <3>1. contacts \in Seq(ContactRecord) BY <1>0 DEF CommentsTyped, ContactRecord
    <3>2. CASE UNCHANGED contacts BY <3>1, <3>2
    <3>3. CASE found # {} /\ contacts' = [contacts EXCEPT ![First(found)].named = TRUE]
      <4>1. First(found) \in 1..Len(contacts) BY <2>1, <2>2, <3>3, FirstOf
      <4>2. contacts[First(found)] \in ContactRecord BY <3>1, <4>1, ElementOf
      <4>3. [contacts[First(found)] EXCEPT !.named = TRUE] \in ContactRecord BY <4>2 DEF ContactRecord
      <4>4. QED BY <3>1, <3>3, <4>1, <4>3
    <3>4. QED BY <1>13, <3>2, <3>3 DEF LookForContact
  <2>5. QED BY <1>13, <2>3, <2>4, <1>0 DEF LookForContact, CommentsTyped, ContactRecord, account, Jobbed
<1>14. ASSUME NEW j \in Jobs, CreateContact(j) PROVE CommentsTyped'
  <2>1. job[j].on \in Comments \ Replies BY <1>14, <1>0 DEF Informed, OnComment, CreateContact
  <2>2. Who(j) \in People BY <2>1 DEF Who, Replies, People
  <2>3. PICK named \in BOOLEAN : contacts' = Append(contacts, [who |-> Who(j), psid |-> ~ByName(j), named |-> named])
    BY <1>14 DEF CreateContact
  <2>4. contacts \in Seq(ContactRecord) /\ [who |-> Who(j), psid |-> ~ByName(j), named |-> named] \in ContactRecord
    BY <1>0, <2>2 DEF CommentsTyped, ContactRecord, ByName
  <2>5. contacts' \in Seq(ContactRecord) /\ Len(contacts) + 1 \in Nat BY <2>3, <2>4
  <2>6. [job[j] EXCEPT !.step = "find", !.contact = Len(contacts) + 1] \in JobsOf
    BY <2>5, <1>0 DEF CommentsTyped, JobsOf, JobSteps
  <2>7. Jobbed BY <1>14, <2>6, <1>0, OneJob DEF CreateContact, Jobbed
  <2>8. QED BY <1>14, <2>5, <2>7, <1>0 DEF CreateContact, CommentsTyped, ContactRecord, account, Jobbed
<1>15. ASSUME NEW j \in Jobs, FindThread(j) PROVE CommentsTyped'
  <2>1. ThreadsOf(Who(j), ThreadKey(j)) \in SUBSET Nat BY DEF ThreadsOf
  <2>2. Jobbed BY <1>15, <1>0, <2>1, LookJob, OneJob DEF FindThread, Jobbed
  <2>3. QED BY <1>15, <2>2, <1>a, <1>b, <1>d, <1>e DEF FindThread
<1>16. ASSUME NEW j \in Jobs, OpenThread(j) PROVE CommentsTyped'
  <2>1. job[j].on \in Comments \ Replies BY <1>16, <1>0 DEF Informed, OnComment, OpenThread
  <2>2. Who(j) \in People BY <2>1 DEF Who, Replies, People
  <2>3. threads \in Seq([who : People, key : {"id", "name"}]) BY <1>0 DEF CommentsTyped
  <2>4. [who |-> Who(j), key |-> ThreadKey(j)] \in [who : People, key : {"id", "name"}] BY <2>2 DEF ThreadKey
  <2>5. threads' \in Seq([who : People, key : {"id", "name"}]) /\ Len(threads) + 1 \in Nat
    BY <1>16, <2>3, <2>4 DEF OpenThread
  <2>6. [job[j] EXCEPT !.step = "save", !.thread = Len(threads) + 1] \in JobsOf
    BY <2>5, <1>0 DEF CommentsTyped, JobsOf, JobSteps
  <2>7. Jobbed BY <1>16, <2>6, <1>0, OneJob DEF OpenThread, Jobbed
  <2>8. QED BY <1>16, <2>5, <2>7, <1>0 DEF OpenThread, CommentsTyped, account, Jobbed
<1>17. ASSUME NEW j \in Jobs, SaveComment(j) PROVE CommentsTyped'
  <2> DEFINE Message == [comment : Comments \ Replies, thread : Nat, told : BOOLEAN]
  <2>1. messages \in Seq(Message) BY <1>0 DEF CommentsTyped
  <2>2. [comment |-> job[j].on, thread |-> job[j].thread, told |-> FALSE] \in Message
    BY <1>17, <1>0 DEF Informed, OnComment, SaveComment, CommentsTyped, JobsOf
  <2>3. messages' \in Seq(Message) /\ Len(messages) + 1 \in Nat BY <1>17, <2>1, <2>2 DEF SaveComment
  <2>4. [job[j] EXCEPT !.step = "tell", !.contact = Len(messages) + 1] \in JobsOf
    BY <2>3, <1>0 DEF CommentsTyped, JobsOf, JobSteps
  <2>5. Jobbed BY <1>17, <2>4, <1>0, OneJob DEF SaveComment, Jobbed
  <2>6. QED BY <1>17, <2>3, <2>5, <1>0 DEF SaveComment, CommentsTyped, account, Jobbed
<1>18. ASSUME NEW j \in Jobs, Tell(j) PROVE CommentsTyped'
  <2> DEFINE Message == [comment : Comments \ Replies, thread : Nat, told : BOOLEAN]
             i == job[j].contact
  <2>1. messages \in Seq(Message) BY <1>0 DEF CommentsTyped
  <2>2. i \in 1..Len(messages) BY <1>18, <1>0 DEF Informed, Tell
  <2>a. messages[i] \in Message BY <2>1, <2>2, ElementOf
  <2>3. [messages[i] EXCEPT !.told = TRUE] \in Message BY <2>a
  <2>4. messages' \in Seq(Message) BY <1>18, <2>1, <2>2, <2>3 DEF Tell, Told
  <2>5. Jobbed BY <1>18, <1>0, DoneJob, OneJob DEF Tell, Jobbed
  <2>6. QED BY <1>18, <2>4, <2>5, <1>0 DEF Tell, CommentsTyped, account, Jobbed
<1>19. ASSUME NEW j \in Jobs, Fail(j) PROVE CommentsTyped'
  <2>1. Jobbed BY <1>19, <1>0, IdleJob, OneJob DEF Fail, Jobbed
  <2>2. QED BY <1>19, <2>1, <1>a, <1>b, <1>d, <1>e DEF Fail
<1>20. ASSUME NEW r \in Replies, NEW c \in Facebook, AskReply(r, c) PROVE CommentsTyped'
  <2>1. ThreadOf(c) \in Nat
    <3> DEFINE stores == {i \in 1..Len(messages) : messages[i].comment = c}
    <3>1. CASE stores = {} BY <3>1 DEF ThreadOf, None
    <3>2. CASE stores # {}
      <4>1. stores \in SUBSET Nat OBVIOUS
      <4>2. First(stores) \in stores BY <4>1, <3>2, FirstOf
      <4>3. messages[First(stores)] \in [comment : Comments \ Replies, thread : Nat, told : BOOLEAN]
        BY <4>2, <1>0, ElementOf DEF CommentsTyped
      <4>4. QED BY <4>3, <3>2 DEF ThreadOf
    <3>3. QED BY <3>1, <3>2
  <2>2. [step |-> "asked", to |-> c, known |-> ThreadOf(c)] \in Answers BY <2>1 DEF Answers, Comments
  <2>3. Answering BY <1>20, <1>0, <2>2 DEF AskReply, CommentsTyped, Answering
  <2>4. QED BY <1>20, <2>3, <1>a, <1>b, <1>c, <1>e DEF AskReply
<1>21. ASSUME NEW r \in Replies, PostReply(r) PROVE CommentsTyped'
  <2>a. answer[r] \in Answers /\ answer \in [Replies -> Answers] BY <1>0 DEF CommentsTyped
  <2>b. [answer[r] EXCEPT !.step = "done"] \in Answers /\ [answer[r] EXCEPT !.step = "posted"] \in Answers
    BY <2>a DEF Answers
  <2>1. Answering BY <1>21, <2>a, <2>b DEF PostReply, Answering
  <2>2. Flags BY <1>21, <1>0 DEF PostReply, CommentsTyped, account, Flags
  <2>3. QED BY <1>21, <2>1, <2>2, <1>a, <1>c, <1>e DEF PostReply
<1>22. ASSUME NEW r \in Replies, SaveReply(r) PROVE CommentsTyped'
  <2>1. Answering BY <1>22, <1>0 DEF SaveReply, CommentsTyped, Answers, Answering
  <2>2. Lists BY <1>22 DEF SaveReply, Lists
  <2>3. QED BY <1>22, <2>1, <2>2, <1>a, <1>b, <1>c DEF SaveReply
<1>23. ASSUME NEW r \in Replies, replyToInstagramComment(r) PROVE CommentsTyped'
  <2>1. Flags BY <1>23, <1>0 DEF replyToInstagramComment, CommentsTyped, account, Flags
  <2>2. QED BY <1>23, <2>1, <1>a, <1>c, <1>d, <1>e DEF replyToInstagramComment
<1>24. ASSUME NEW c \in Comments, Bury(c) \/ deleteComment(c) PROVE CommentsTyped'
  <2>1. Flags BY <1>24, <1>0 DEF Bury, deleteComment, CommentsTyped, account, Flags
  <2>2. QED BY <1>24, <2>1, <1>a, <1>c, <1>d, <1>e DEF Bury, deleteComment
<1>25. QED
  BY <1>1, <1>2, <1>3, <1>4, <1>5, <1>7, <1>8, <1>9, <1>10, <1>11, <1>12, <1>13, <1>14, <1>15, <1>16, <1>17,
     <1>18, <1>19, <1>20, <1>21, <1>22, <1>23, <1>24 DEF Next, Work

-----------------------------------------------------------------------------
(* The searches and what they lead to. *)

Found == (\A j \in Jobs : Informed(j)) /\ Filed /\ StoredOnce /\ ContactsOnce /\ ThreadsOnce

\* A message is looked for, and not found.
LEMMA CheckStays ==
    ASSUME CommentsInv, CommentsTyped', NEW j \in Jobs, Check(j), ~Known(j)
    PROVE  Found'
<1>0. CommentsTyped /\ Found BY DEF CommentsInv, Found
<1>1. /\ job[j] \in JobsOf /\ job[j].step = "check" /\ job[j].on \in Comments \ Replies
      /\ job' = [job EXCEPT ![j] = [job[j] EXCEPT !.step = "look"]]
      /\ UNCHANGED <<contacts, threads, messages>>
  BY <1>0 DEF CommentsTyped, Check, Found, Informed, OnComment, Set, stored
<1>2. /\ job'[j].step = "look" /\ job'[j].on = job[j].on
      /\ \A k \in Jobs \ {j} : job'[k] = job[k]
  BY <1>1, <1>0 DEF CommentsTyped, JobsOf
<1>3. crossed \subseteq crossed' BY DEF Check
<1>4. \A k \in Jobs \ {j} : job[k].step \in Storing /\ job[k].on = job[j].on => job[j].on \in crossed'
  BY DEF Check, Others, Storing
<1>5. ~HasMessage(job[j].on) BY DEF Known
<1>6. \A c : HasMessage(c)' <=> HasMessage(c) BY <1>1 DEF HasMessage
<1>7. ASSUME NEW k \in Jobs PROVE Informed(k)'
  BY <1>0, <1>1, <1>2 DEF Found, Informed, OnComment, Who
<1>8. Filed' BY <1>0, <1>1 DEF Found, Filed
<1>9. StoredOnce'
  <2>1. CommentOnce' BY <1>0, <1>1, <1>3 DEF Found, StoredOnce, CommentOnce
  <2>2. \A k \in Jobs : job'[k].step \in Storing /\ HasMessage(job[k].on)' => job'[k].on \in crossed'
    <3>1. ASSUME NEW k \in Jobs, k # j PROVE job'[k].step \in Storing /\ HasMessage(job[k].on)' => job'[k].on \in crossed'
      <4>1. job'[k] = job[k] BY <3>1, <1>2
      <4>2. HasMessage(job[k].on)' => HasMessage(job[k].on) BY <4>1, <1>1 DEF HasMessage
      <4>3. QED BY <4>1, <4>2, <1>0, <1>3 DEF Found, StoredOnce
    <3>2. ~HasMessage(job[j].on)' BY <1>1, <1>2, <1>5 DEF HasMessage
    <3>3. QED BY <3>1, <3>2
  <2>3. \A i, k \in Jobs : i # k /\ job'[i].step \in Storing /\ job'[k].step \in Storing /\ job'[i].on = job'[k].on
                              => job'[i].on \in crossed'
    BY <1>0, <1>2, <1>3, <1>4 DEF Found, StoredOnce
  <2>4. QED BY <2>1, <2>2, <2>3 DEF StoredOnce
<1>10. ContactsOnce'
  <2>1. \A k \in Jobs : job'[k].step = "make" => job'[k] = job[k] /\ Who(k)' = Who(k) /\ ByName(k)' = ByName(k)
    BY <1>2 DEF Who, ByName
  <2>2. QED BY <2>1, <1>0, <1>1, <1>3 DEF Found, ContactsOnce
<1>11. ThreadsOnce'
  <2>1. \A k \in Jobs : job'[k].step = "open" => job'[k] = job[k] /\ Who(k)' = Who(k) /\ ThreadKey(k)' = ThreadKey(k)
    BY <1>1, <1>2 DEF Who, ThreadKey
  <2>2. QED BY <2>1, <1>0, <1>1, <1>3 DEF Found, ThreadsOnce
<1>12. QED BY <1>7, <1>8, <1>9, <1>10, <1>11 DEF Found

\* The contact is looked for; one that is found may get his name.
LEMMA LookStays ==
    ASSUME CommentsInv, CommentsTyped', NEW j \in Jobs, LookForContact(j)
    PROVE  Found'
<1> DEFINE found == ContactsOf(ByName(j), Who(j))
<1>0. CommentsTyped /\ Found BY DEF CommentsInv, Found
<1>1. /\ job[j] \in JobsOf /\ job[j].step = "look" /\ job[j].on \in Comments \ Replies
      /\ UNCHANGED <<threads, messages>> /\ crossed \subseteq crossed'
      /\ Set(j, [job[j] EXCEPT !.step = AfterFinding(j, found), !.contact = IF found = {} THEN None ELSE First(found)])
  BY <1>0 DEF CommentsTyped, LookForContact, Found, Informed, OnComment
<1>2. /\ job'[j].step = (IF found = {} THEN "make" ELSE "find")
      /\ job'[j].contact = (IF found = {} THEN None ELSE First(found))
      /\ job'[j].on = job[j].on /\ job'[j].kind = job[j].kind
      /\ \A k \in Jobs \ {j} : job'[k] = job[k]
  BY <1>1, <1>0 DEF CommentsTyped, JobsOf, Set, AfterFinding
<1>3. found \subseteq 1..Len(contacts) /\ \A i \in found : contacts[i].who = Who(j) BY DEF ContactsOf, Contact
<1>4. found # {} => First(found) \in found BY <1>3, FirstOf
<1>5. /\ Len(contacts') = Len(contacts)
      /\ \A i \in 1..Len(contacts) : /\ contacts'[i].who = contacts[i].who /\ contacts'[i].psid = contacts[i].psid
                                     /\ contacts[i].named => contacts'[i].named
  <2>1. CASE UNCHANGED contacts BY <2>1
  <2>2. CASE found # {} /\ contacts' = [contacts EXCEPT ![First(found)].named = TRUE]
    <3>1. contacts \in Seq(ContactRecord) BY <1>0 DEF CommentsTyped, ContactRecord
    <3>2. \A i \in 1..Len(contacts) : contacts[i] \in ContactRecord BY <3>1, ElementOf
    <3>3. Len(contacts') = Len(contacts) BY <2>2, <3>1
    <3>4. \A i \in 1..Len(contacts) : contacts'[i] = IF i = First(found) THEN [contacts[i] EXCEPT !.named = TRUE] ELSE contacts[i]
      <4> DEFINE f == First(found)
      <4>1. contacts' = [contacts EXCEPT ![f].named = TRUE] BY <2>2
      <4> HIDE DEF f
      <4>2. \A i \in 1..Len(contacts) : contacts'[i] = IF i = f THEN [contacts[i] EXCEPT !.named = TRUE] ELSE contacts[i]
        <5>1. DOMAIN contacts = 1..Len(contacts) BY <3>1
        <5>2. \A i \in 1..Len(contacts) : i = f => contacts'[i] = [contacts[i] EXCEPT !.named = TRUE] BY <4>1, <5>1
        <5>3. \A i \in 1..Len(contacts) : i # f => contacts'[i] = contacts[i] BY <4>1, <5>1
        <5>4. QED BY <5>2, <5>3
      <4>3. QED BY <4>2 DEF f
    <3>5. QED BY <3>2, <3>3, <3>4 DEF ContactRecord
  <2>3. QED BY <2>1, <2>2 DEF LookForContact
<1>6. \A k \in Jobs : Who(k)' = Who(k) /\ ByName(k)' = ByName(k)
  BY <1>2 DEF Who, ByName
<1>7. ASSUME NEW k \in Jobs PROVE Informed(k)'
  <2>1. CASE k # j BY <2>1, <1>0, <1>1, <1>2, <1>5, <1>6 DEF Found, Informed, OnComment
  <2>2. CASE k = j BY <2>2, <1>1, <1>2, <1>3, <1>4, <1>5, <1>6 DEF Informed, OnComment
  <2>3. QED BY <2>1, <2>2
<1>8. Filed' BY <1>0, <1>1, <1>5 DEF Found, Filed
<1>9. StoredOnce'
  <2>1. CommentOnce' BY <1>0, <1>1 DEF Found, StoredOnce, CommentOnce
  <2>2. \A k \in Jobs : /\ job'[k].on = job[k].on /\ (HasMessage(job[k].on)' => HasMessage(job[k].on))
                        /\ job'[k].step \in Storing => job[k].step \in Storing
    BY <1>1, <1>2 DEF HasMessage, Storing
  <2>3. QED BY <2>1, <2>2, <1>0, <1>1 DEF Found, StoredOnce
<1>10. ContactsOnce'
  <2>1. \A i, k \in 1..Len(contacts') :
          i # k /\ contacts'[i].who = contacts'[k].who /\ contacts'[i].psid = contacts'[k].psid => contacts'[i].who \in crossed'
    BY <1>0, <1>1, <1>5 DEF Found, ContactsOnce
  <2>2. ASSUME job'[j].step = "make", NEW i \in 1..Len(contacts) PROVE ~(contacts[i].who = Who(j) /\ contacts[i].psid = ~ByName(j))
    <3>1. i \notin found BY <2>2, <1>2
    <3>2. contacts[i] \in ContactRecord BY <1>0, ElementOf DEF CommentsTyped, ContactRecord
    <3>3. contacts[i].psid \/ contacts[i].named BY <1>0 DEF Found, Filed
    <3>4. contacts[i].who = Who(j) => ~(IF ByName(j) THEN contacts[i].named ELSE contacts[i].psid)
      BY <3>1 DEF ContactsOf, Contact
    <3>5. QED BY <3>3, <3>4 DEF ByName
  <2>3. \A k \in Jobs, i \in 1..Len(contacts') :
          job'[k].step = "make" /\ contacts'[i].who = Who(k)' /\ contacts'[i].psid = (~ByName(k)') => Who(k)' \in crossed'
    <3>1. ASSUME NEW k \in Jobs, NEW i \in 1..Len(contacts), k # j, job'[k].step = "make", contacts'[i].who = Who(k)',
                 contacts'[i].psid = (~ByName(k)')
          PROVE  Who(k)' \in crossed'
      <4>1. job[k].step = "make" /\ contacts[i].who = Who(k) /\ contacts[i].psid = ~ByName(k) BY <3>1, <1>2, <1>5, <1>6
      <4>2. QED BY <4>1, <1>0, <1>1, <1>6 DEF Found, ContactsOnce
    <3>2. ASSUME NEW i \in 1..Len(contacts), job'[j].step = "make", contacts'[i].who = Who(j)', contacts'[i].psid = (~ByName(j)')
          PROVE  FALSE
      <4>1. contacts[i].who = Who(j) /\ contacts[i].psid = ~ByName(j) BY <3>2, <1>5, <1>6
      <4>2. QED BY <4>1, <2>2, <3>2
    <3>3. QED BY <3>1, <3>2, <1>5
  <2>4. \A i, k \in Jobs :
          i # k /\ job'[i].step = "make" /\ job'[k].step = "make" /\ Who(i)' = Who(k)' /\ ByName(i)' = ByName(k)'
            => Who(i)' \in crossed'
    <3>1. ASSUME NEW k \in Jobs \ {j}, job'[j].step = "make", job'[k].step = "make", Who(j) = Who(k), ByName(j) = ByName(k)
          PROVE  Who(j) \in crossed'
      <4>1. job[k].step = "make" BY <3>1, <1>2
      <4>2. k \in Others(j, {"make"}) BY <4>1 DEF Others
      <4>3. found = {} BY <3>1, <1>2
      <4>4. QED BY <3>1, <4>2, <4>3 DEF LookForContact
    <3>2. ASSUME NEW i \in Jobs \ {j}, NEW k \in Jobs \ {j}, i # k, job'[i].step = "make", job'[k].step = "make",
                 Who(i) = Who(k), ByName(i) = ByName(k)
          PROVE  Who(i) \in crossed'
      BY <3>2, <1>0, <1>1, <1>2 DEF Found, ContactsOnce
    <3>3. QED BY <3>1, <3>2, <1>6
  <2>5. QED BY <2>1, <2>3, <2>4 DEF ContactsOnce
<1>11. ThreadsOnce'
  <2>1. \A k \in Jobs : job'[k].step = "open" => k # j /\ job[k].step = "open" BY <1>2
  <2>2. \A k \in Jobs : job'[k].step = "open" => ThreadKey(k)' = ThreadKey(k)
    <3>1. ASSUME NEW k \in Jobs, job'[k].step = "open" PROVE ThreadKey(k)' = ThreadKey(k)
      <4>1. job'[k] = job[k] /\ job[k].step = "open" BY <3>1, <1>2
      <4>2. job[k].contact \in 1..Len(contacts) BY <4>1, <1>0 DEF Found, Informed
      <4>3. QED BY <4>1, <4>2, <1>5 DEF ThreadKey
    <3>2. QED BY <3>1
  <2>3. QED BY <2>1, <2>2, <1>0, <1>1, <1>6 DEF Found, ThreadsOnce
<1>12. QED BY <1>7, <1>8, <1>9, <1>10, <1>11 DEF Found

\* What stays of the others when one handler goes from a step to the next: the
\* comments they are at, whom they look for and, if they have a contact, how
\* the thread of his is found.
LEMMA OthersGoOn ==
    ASSUME CommentsInv, NEW j \in Jobs, \A k \in Jobs \ {j} : job'[k] = job[k],
           Len(contacts') \in Nat, Len(contacts) \in Nat, Len(contacts) <= Len(contacts'),
           \A i \in 1..Len(contacts) : contacts'[i].who = contacts[i].who /\ contacts'[i].psid = contacts[i].psid
    PROVE  \A k \in Jobs \ {j} :
             /\ Who(k)' = Who(k) /\ ByName(k)' = ByName(k)
             /\ job[k].step \in {"find", "open", "save"} => ThreadKey(k)' = ThreadKey(k)
<1> TAKE k \in Jobs \ {j}
<1>1. job'[k] = job[k] OBVIOUS
<1>2. Who(k)' = Who(k) /\ ByName(k)' = ByName(k) BY <1>1 DEF Who, ByName
<1>3. job[k].step \in {"find", "open", "save"} => ThreadKey(k)' = ThreadKey(k)
  <2> SUFFICES ASSUME job[k].step \in {"find", "open", "save"} PROVE ThreadKey(k)' = ThreadKey(k) OBVIOUS
  <2>1. job[k].contact \in 1..Len(contacts) BY DEF CommentsInv, Informed
  <2>2. QED BY <1>1, <2>1 DEF ThreadKey
<1>4. QED BY <1>2, <1>3

\* The contact is created.
LEMMA CreateStays ==
    ASSUME CommentsInv, CommentsTyped', NEW j \in Jobs, CreateContact(j)
    PROVE  Found'
<1>0. CommentsTyped /\ Found BY DEF CommentsInv, Found
<1>1. /\ job[j] \in JobsOf /\ job[j].step = "make" /\ job[j].on \in Comments \ Replies
      /\ UNCHANGED <<threads, messages, crossed>>
      /\ Set(j, [job[j] EXCEPT !.step = "find", !.contact = Len(contacts) + 1])
  BY <1>0 DEF CommentsTyped, CreateContact, Found, Informed, OnComment
<1>2. /\ job'[j].step = "find" /\ job'[j].contact = Len(contacts) + 1
      /\ job'[j].on = job[j].on /\ job'[j].kind = job[j].kind
      /\ \A k \in Jobs \ {j} : job'[k] = job[k]
  BY <1>1, <1>0 DEF CommentsTyped, JobsOf, Set
<1>3. PICK named \in BOOLEAN :
        /\ contacts' = Append(contacts, [who |-> Who(j), psid |-> ~ByName(j), named |-> named])
        /\ ByName(j) => named
  BY DEF CreateContact
<1>4. /\ contacts \in Seq(ContactRecord) /\ Len(contacts) \in Nat
      /\ [who |-> Who(j), psid |-> ~ByName(j), named |-> named] \in ContactRecord
  BY <1>0, <1>1 DEF CommentsTyped, ContactRecord, ByName, Who, Replies, People
<1>5. Len(contacts') = Len(contacts) + 1 /\ \A i \in 1..Len(contacts) : contacts'[i] = contacts[i] BY <1>3, <1>4
<1>6. LET new == contacts'[Len(contacts')] IN new.who = Who(j) /\ new.psid = ~ByName(j) /\ (new.psid \/ new.named)
  <2> DEFINE added == [who |-> Who(j), psid |-> ~ByName(j), named |-> named]
  <2>1. added.who = Who(j) /\ added.psid = ~ByName(j) /\ added.named = named OBVIOUS
  <2>2. added.psid \/ added.named BY <1>3
  <2> HIDE DEF added
  <2>3. contacts'[Len(contacts')] = added BY <1>3, <1>4 DEF added
  <2>4. QED BY <2>1, <2>2, <2>3
<1>7. Who(j)' = Who(j) /\ ByName(j)' = ByName(j) BY <1>2 DEF Who, ByName
<1>8. \A k \in Jobs \ {j} :
        /\ Who(k)' = Who(k) /\ ByName(k)' = ByName(k)
        /\ job[k].step \in {"find", "open", "save"} => ThreadKey(k)' = ThreadKey(k)
  BY <1>2, <1>4, <1>5, OthersGoOn
<1>9. ASSUME NEW k \in Jobs PROVE Informed(k)'
  <2>1. CASE k # j BY <2>1, <1>0, <1>1, <1>2, <1>4, <1>5, <1>8 DEF Found, Informed, OnComment
  <2>2. CASE k = j BY <2>2, <1>1, <1>2, <1>4, <1>5, <1>6, <1>7 DEF Informed, OnComment
  <2>3. QED BY <2>1, <2>2
<1>10. Filed' BY <1>0, <1>1, <1>4, <1>5, <1>6 DEF Found, Filed
<1>11. StoredOnce'
  <2>1. CommentOnce' BY <1>0, <1>1 DEF Found, StoredOnce, CommentOnce
  <2>2. \A k \in Jobs : /\ job'[k].on = job[k].on /\ (HasMessage(job[k].on)' => HasMessage(job[k].on))
                        /\ job'[k].step \in Storing => job[k].step \in Storing
    BY <1>1, <1>2 DEF HasMessage, Storing
  <2>3. QED BY <2>1, <2>2, <1>0, <1>1 DEF Found, StoredOnce
<1>12. ContactsOnce'
  <2>1. \A k \in Jobs : job'[k].step = "make" => k # j /\ job[k].step = "make" BY <1>2
  <2>2. \A i \in 1..Len(contacts) : contacts[i].who = Who(j) /\ contacts[i].psid = ~ByName(j) => Who(j) \in crossed
    BY <1>0, <1>1 DEF Found, ContactsOnce
  <2>3. \A i, k \in 1..Len(contacts') :
          i # k /\ contacts'[i].who = contacts'[k].who /\ contacts'[i].psid = contacts'[k].psid => contacts'[i].who \in crossed'
    <3>1. \A i, k \in 1..Len(contacts) :
            i # k /\ contacts[i].who = contacts[k].who /\ contacts[i].psid = contacts[k].psid => contacts[i].who \in crossed
      BY <1>0 DEF Found, ContactsOnce
    <3>2. \A i \in 1..Len(contacts') : i \in 1..Len(contacts) \/ i = Len(contacts') BY <1>4, <1>5
    <3>3. \A i \in 1..Len(contacts) :
            LET new == contacts'[Len(contacts')] IN contacts'[i].who = new.who /\ contacts'[i].psid = new.psid => new.who \in crossed
      BY <2>2, <1>5, <1>6
    <3>4. QED BY <3>1, <3>2, <3>3, <1>1, <1>5
  <2>4. \A k \in Jobs, i \in 1..Len(contacts') :
          job'[k].step = "make" /\ contacts'[i].who = Who(k)' /\ contacts'[i].psid = (~ByName(k)') => Who(k)' \in crossed'
    <3>1. ASSUME NEW k \in Jobs, NEW i \in 1..Len(contacts'), job'[k].step = "make", contacts'[i].who = Who(k)',
                 contacts'[i].psid = (~ByName(k)')
          PROVE  Who(k)' \in crossed'
      <4>1. k # j /\ job[k].step = "make" /\ Who(k)' = Who(k) /\ ByName(k)' = ByName(k) BY <3>1, <2>1, <1>8
      <4>2. CASE i \in 1..Len(contacts) BY <4>1, <4>2, <3>1, <1>0, <1>1, <1>5 DEF Found, ContactsOnce
      <4>3. CASE i = Len(contacts')
        <5>1. Who(k) = Who(j) /\ ByName(k) = ByName(j) BY <4>1, <4>3, <3>1, <1>6 DEF ByName
        <5>2. QED BY <4>1, <5>1, <1>0, <1>1 DEF Found, ContactsOnce
      <4>4. QED BY <4>2, <4>3, <1>4, <1>5
    <3>2. QED BY <3>1
  <2>5. \A i, k \in Jobs :
          i # k /\ job'[i].step = "make" /\ job'[k].step = "make" /\ Who(i)' = Who(k)' /\ ByName(i)' = ByName(k)'
            => Who(i)' \in crossed'
    BY <2>1, <1>0, <1>1, <1>8 DEF Found, ContactsOnce
  <2>6. QED BY <2>3, <2>4, <2>5 DEF ContactsOnce
<1>13. ThreadsOnce'
  <2>1. \A k \in Jobs : job'[k].step = "open" => k # j /\ job[k].step = "open" /\ ThreadKey(k)' = ThreadKey(k) /\ Who(k)' = Who(k)
    BY <1>2, <1>8
  <2>2. QED BY <2>1, <1>0, <1>1 DEF Found, ThreadsOnce
<1>14. QED BY <1>9, <1>10, <1>11, <1>12, <1>13 DEF Found

\* The thread is looked for.
LEMMA FindStays ==
    ASSUME CommentsInv, CommentsTyped', NEW j \in Jobs, FindThread(j)
    PROVE  Found'
<1> DEFINE found == ThreadsOf(Who(j), ThreadKey(j))
<1>0. CommentsTyped /\ Found BY DEF CommentsInv, Found
<1>1. /\ job[j] \in JobsOf /\ job[j].step = "find" /\ job[j].on \in Comments \ Replies
      /\ UNCHANGED <<contacts, threads, messages>> /\ crossed \subseteq crossed'
      /\ Set(j, [job[j] EXCEPT !.step = IF found = {} THEN "open" ELSE "save", !.thread = IF found = {} THEN None ELSE First(found)])
  BY <1>0 DEF CommentsTyped, FindThread, Found, Informed, OnComment, stored
<1>2. /\ job'[j].step = (IF found = {} THEN "open" ELSE "save")
      /\ job'[j].thread = (IF found = {} THEN None ELSE First(found))
      /\ job'[j].on = job[j].on /\ job'[j].kind = job[j].kind /\ job'[j].contact = job[j].contact
      /\ \A k \in Jobs \ {j} : job'[k] = job[k]
  BY <1>1, <1>0 DEF CommentsTyped, JobsOf, Set
<1>3. found \subseteq 1..Len(threads) /\ \A i \in found : threads[i].who = Who(j) BY DEF ThreadsOf
<1>4. found # {} => First(found) \in found BY <1>3, FirstOf
<1>5. \A k \in Jobs : Who(k)' = Who(k) /\ ByName(k)' = ByName(k) /\ ThreadKey(k)' = ThreadKey(k)
  BY <1>1, <1>2 DEF Who, ByName, ThreadKey
<1>6. ASSUME NEW k \in Jobs PROVE Informed(k)'
  <2>1. CASE k # j BY <2>1, <1>0, <1>1, <1>2, <1>5 DEF Found, Informed, OnComment
  <2>2. CASE k = j
    <3>1. job[j].contact \in 1..Len(contacts) /\ contacts[job[j].contact].who = Who(j)
      BY <1>0, <1>1 DEF Found, Informed
    <3>2. found # {} => First(found) \in 1..Len(threads) /\ threads[First(found)].who = Who(j) BY <1>3, <1>4
    <3>3. QED BY <2>2, <3>1, <3>2, <1>1, <1>2, <1>5 DEF Informed, OnComment
  <2>3. QED BY <2>1, <2>2
<1>7. Filed' BY <1>0, <1>1 DEF Found, Filed
<1>8. StoredOnce'
  <2>1. CommentOnce' BY <1>0, <1>1 DEF Found, StoredOnce, CommentOnce
  <2>2. \A k \in Jobs : /\ job'[k].on = job[k].on /\ (HasMessage(job[k].on)' => HasMessage(job[k].on))
                        /\ job'[k].step \in Storing => job[k].step \in Storing
    BY <1>1, <1>2 DEF HasMessage, Storing
  <2>3. QED BY <2>1, <2>2, <1>0, <1>1 DEF Found, StoredOnce
<1>9. ContactsOnce'
  <2>1. \A k \in Jobs : job'[k].step = "make" => k # j /\ job[k].step = "make" BY <1>2
  <2>2. QED BY <2>1, <1>0, <1>1, <1>5 DEF Found, ContactsOnce
<1>10. ThreadsOnce'
  <2>1. \A i, k \in 1..Len(threads') :
          i # k /\ threads'[i].who = threads'[k].who /\ threads'[i].key = threads'[k].key => threads'[i].who \in crossed'
    BY <1>0, <1>1 DEF Found, ThreadsOnce
  <2>2. ASSUME NEW k \in Jobs, NEW i \in 1..Len(threads), job'[k].step = "open", threads[i].who = Who(k), threads[i].key = ThreadKey(k)
        PROVE  Who(k) \in crossed'
    <3>1. CASE k = j
      <4>1. i \in found BY <2>2, <3>1 DEF ThreadsOf
      <4>2. QED BY <4>1, <2>2, <3>1, <1>2
    <3>2. CASE k # j BY <2>2, <3>2, <1>0, <1>1, <1>2 DEF Found, ThreadsOnce
    <3>3. QED BY <3>1, <3>2
  <2>3. ASSUME NEW k \in Jobs \ {j}, job'[j].step = "open", job'[k].step = "open", Who(j) = Who(k), ThreadKey(j) = ThreadKey(k)
        PROVE  Who(j) \in crossed'
    <3>1. job[k].step = "open" BY <2>3, <1>2
    <3>2. k \in Others(j, {"open"}) BY <3>1 DEF Others
    <3>3. found = {} BY <2>3, <1>2
    <3>4. QED BY <2>3, <3>2, <3>3 DEF FindThread
  <2>4. ASSUME NEW i \in Jobs \ {j}, NEW k \in Jobs \ {j}, i # k, job'[i].step = "open", job'[k].step = "open",
               Who(i) = Who(k), ThreadKey(i) = ThreadKey(k)
        PROVE  Who(i) \in crossed'
    BY <2>4, <1>0, <1>1, <1>2 DEF Found, ThreadsOnce
  <2>5. \A k \in Jobs, i \in 1..Len(threads') :
          job'[k].step = "open" /\ threads'[i].who = Who(k)' /\ threads'[i].key = ThreadKey(k)' => Who(k)' \in crossed'
    BY <2>2, <1>1, <1>5
  <2>6. \A i, k \in Jobs :
          i # k /\ job'[i].step = "open" /\ job'[k].step = "open" /\ Who(i)' = Who(k)' /\ ThreadKey(i)' = ThreadKey(k)'
            => Who(i)' \in crossed'
    BY <2>3, <2>4, <1>5
  <2>7. QED BY <2>1, <2>5, <2>6 DEF ThreadsOnce
<1>11. QED BY <1>6, <1>7, <1>8, <1>9, <1>10 DEF Found

\* The thread is opened.
LEMMA OpenStays ==
    ASSUME CommentsInv, CommentsTyped', NEW j \in Jobs, OpenThread(j)
    PROVE  Found'
<1>0. CommentsTyped /\ Found BY DEF CommentsInv, Found
<1>1. /\ job[j] \in JobsOf /\ job[j].step = "open" /\ job[j].on \in Comments \ Replies
      /\ UNCHANGED <<contacts, messages, crossed>>
      /\ threads' = Append(threads, [who |-> Who(j), key |-> ThreadKey(j)])
      /\ Set(j, [job[j] EXCEPT !.step = "save", !.thread = Len(threads) + 1])
  BY <1>0 DEF CommentsTyped, OpenThread, Found, Informed, OnComment
<1>2. /\ job'[j].step = "save" /\ job'[j].thread = Len(threads) + 1
      /\ job'[j].on = job[j].on /\ job'[j].kind = job[j].kind /\ job'[j].contact = job[j].contact
      /\ \A k \in Jobs \ {j} : job'[k] = job[k]
  BY <1>1, <1>0 DEF CommentsTyped, JobsOf, Set
<1>3. threads \in Seq([who : People, key : {"id", "name"}]) /\ Len(threads) \in Nat BY <1>0 DEF CommentsTyped
<1>4. Len(threads') = Len(threads) + 1 /\ \A i \in 1..Len(threads) : threads'[i] = threads[i] BY <1>1, <1>3
<1>5. threads'[Len(threads')].who = Who(j) /\ threads'[Len(threads')].key = ThreadKey(j)
  <2> DEFINE added == [who |-> Who(j), key |-> ThreadKey(j)]
  <2>1. added.who = Who(j) /\ added.key = ThreadKey(j) OBVIOUS
  <2> HIDE DEF added
  <2>2. threads'[Len(threads')] = added BY <1>1, <1>3 DEF added
  <2>3. QED BY <2>1, <2>2
<1>6. \A k \in Jobs : Who(k)' = Who(k) /\ ByName(k)' = ByName(k) /\ ThreadKey(k)' = ThreadKey(k)
  BY <1>1, <1>2 DEF Who, ByName, ThreadKey
<1>7. ASSUME NEW k \in Jobs PROVE Informed(k)'
  <2>1. CASE k # j BY <2>1, <1>0, <1>1, <1>2, <1>3, <1>4, <1>6 DEF Found, Informed, OnComment
  <2>2. CASE k = j
    <3>1. job[j].contact \in 1..Len(contacts) /\ contacts[job[j].contact].who = Who(j)
      BY <1>0, <1>1 DEF Found, Informed
    <3>2. QED BY <2>2, <3>1, <1>1, <1>2, <1>3, <1>4, <1>5, <1>6 DEF Informed, OnComment
  <2>3. QED BY <2>1, <2>2
<1>8. Filed' BY <1>0, <1>1, <1>3, <1>4 DEF Found, Filed
<1>9. StoredOnce'
  <2>1. CommentOnce' BY <1>0, <1>1 DEF Found, StoredOnce, CommentOnce
  <2>2. \A k \in Jobs : /\ job'[k].on = job[k].on /\ (HasMessage(job[k].on)' => HasMessage(job[k].on))
                        /\ job'[k].step \in Storing => job[k].step \in Storing
    BY <1>1, <1>2 DEF HasMessage, Storing
  <2>3. QED BY <2>1, <2>2, <1>0, <1>1 DEF Found, StoredOnce
<1>10. ContactsOnce'
  <2>1. \A k \in Jobs : job'[k].step = "make" => k # j /\ job[k].step = "make" BY <1>2
  <2>2. QED BY <2>1, <1>0, <1>1, <1>6 DEF Found, ContactsOnce
<1>11. ThreadsOnce'
  <2>1. \A k \in Jobs : job'[k].step = "open" => k # j /\ job[k].step = "open" BY <1>2
  <2>2. \A i \in 1..Len(threads) : threads[i].who = Who(j) /\ threads[i].key = ThreadKey(j) => Who(j) \in crossed
    BY <1>0, <1>1 DEF Found, ThreadsOnce
  <2>3. \A i, k \in 1..Len(threads') :
          i # k /\ threads'[i].who = threads'[k].who /\ threads'[i].key = threads'[k].key => threads'[i].who \in crossed'
    <3>1. \A i, k \in 1..Len(threads) :
            i # k /\ threads[i].who = threads[k].who /\ threads[i].key = threads[k].key => threads[i].who \in crossed
      BY <1>0 DEF Found, ThreadsOnce
    <3>2. \A i \in 1..Len(threads') : i \in 1..Len(threads) \/ i = Len(threads') BY <1>3, <1>4
    <3>3. \A i \in 1..Len(threads) :
            LET new == threads'[Len(threads')] IN threads'[i].who = new.who /\ threads'[i].key = new.key => new.who \in crossed
      BY <2>2, <1>4, <1>5
    <3>4. QED BY <3>1, <3>2, <3>3, <1>1, <1>4
  <2>4. \A k \in Jobs, i \in 1..Len(threads') :
          job'[k].step = "open" /\ threads'[i].who = Who(k)' /\ threads'[i].key = ThreadKey(k)' => Who(k)' \in crossed'
    <3>1. ASSUME NEW k \in Jobs, NEW i \in 1..Len(threads'), job'[k].step = "open", threads'[i].who = Who(k)',
                 threads'[i].key = ThreadKey(k)'
          PROVE  Who(k)' \in crossed'
      <4>1. k # j /\ job[k].step = "open" /\ Who(k)' = Who(k) /\ ThreadKey(k)' = ThreadKey(k) BY <3>1, <2>1, <1>6
      <4>2. CASE i \in 1..Len(threads) BY <4>1, <4>2, <3>1, <1>0, <1>1, <1>4 DEF Found, ThreadsOnce
      <4>3. CASE i = Len(threads')
        <5>1. Who(k) = Who(j) /\ ThreadKey(k) = ThreadKey(j) BY <4>1, <4>3, <3>1, <1>5
        <5>2. QED BY <4>1, <5>1, <1>0, <1>1 DEF Found, ThreadsOnce
      <4>4. QED BY <4>2, <4>3, <1>3, <1>4
    <3>2. QED BY <3>1
  <2>5. \A i, k \in Jobs :
          i # k /\ job'[i].step = "open" /\ job'[k].step = "open" /\ Who(i)' = Who(k)' /\ ThreadKey(i)' = ThreadKey(k)'
            => Who(i)' \in crossed'
    BY <2>1, <1>0, <1>1, <1>6 DEF Found, ThreadsOnce
  <2>6. QED BY <2>3, <2>4, <2>5 DEF ThreadsOnce
<1>12. QED BY <1>7, <1>8, <1>9, <1>10, <1>11 DEF Found

\* The message is saved.
LEMMA SaveStays ==
    ASSUME CommentsInv, CommentsTyped', NEW j \in Jobs, SaveComment(j)
    PROVE  Found' /\ EveryStoredTold'
<1>0. CommentsTyped /\ Found /\ EveryStoredTold BY DEF CommentsInv, Found
<1>1. /\ job[j] \in JobsOf /\ job[j].step = "save" /\ job[j].on \in Comments \ Replies
      /\ UNCHANGED <<contacts, threads, crossed, halved>>
      /\ messages' = Append(messages, [comment |-> job[j].on, thread |-> job[j].thread, told |-> FALSE])
      /\ Set(j, [job[j] EXCEPT !.step = "tell", !.contact = Len(messages) + 1])
  BY <1>0 DEF CommentsTyped, SaveComment, Found, Informed, OnComment
<1>2. /\ job'[j].step = "tell" /\ job'[j].contact = Len(messages) + 1
      /\ job'[j].on = job[j].on /\ job'[j].kind = job[j].kind
      /\ \A k \in Jobs \ {j} : job'[k] = job[k]
  BY <1>1, <1>0 DEF CommentsTyped, JobsOf, Set
<1>3. messages \in Seq([comment : Comments \ Replies, thread : Nat, told : BOOLEAN]) /\ Len(messages) \in Nat
  BY <1>0 DEF CommentsTyped
<1>4. Len(messages') = Len(messages) + 1 /\ \A i \in 1..Len(messages) : messages'[i] = messages[i] BY <1>1, <1>3
<1>5. messages'[Len(messages')].comment = job[j].on /\ messages'[Len(messages')].thread = job[j].thread
  <2> DEFINE added == [comment |-> job[j].on, thread |-> job[j].thread, told |-> FALSE]
  <2>1. added.comment = job[j].on /\ added.thread = job[j].thread OBVIOUS
  <2> HIDE DEF added
  <2>2. messages'[Len(messages')] = added BY <1>1, <1>3 DEF added
  <2>3. QED BY <2>1, <2>2
<1>6. \A k \in Jobs : Who(k)' = Who(k) /\ ByName(k)' = ByName(k)
  BY <1>1, <1>2 DEF Who, ByName
<1>7. \A i \in 1..Len(messages') : i \in 1..Len(messages) \/ i = Len(messages') BY <1>3, <1>4
<1>8. ASSUME NEW k \in Jobs PROVE Informed(k)'
  <2>1. CASE k # j
    <3>1. job'[k] = job[k] /\ Informed(k) BY <2>1, <1>0, <1>2 DEF Found
    <3>2. job[k].step = "tell" =>
            job[k].contact \in 1..Len(messages') /\ messages'[job[k].contact].comment = job[k].on
      BY <3>1, <1>3, <1>4 DEF Informed
    <3>3. QED BY <3>1, <3>2, <1>1, <1>6 DEF Informed, OnComment
  <2>2. CASE k = j BY <2>2, <1>1, <1>2, <1>3, <1>4, <1>5, <1>6 DEF Informed, OnComment
  <2>3. QED BY <2>1, <2>2
<1>9. Filed'
  <2>1. job[j].thread \in 1..Len(threads) /\ threads[job[j].thread].who = Author[job[j].on]
    BY <1>0, <1>1 DEF Found, Informed, Who
  <2>2. QED BY <2>1, <1>0, <1>1, <1>4, <1>5, <1>7 DEF Found, Filed
<1>10. HasMessage(job[j].on) => job[j].on \in crossed BY <1>0, <1>1 DEF Found, StoredOnce, Storing
<1>11. StoredOnce'
  <2>1. CommentOnce'
    <3>1. \A i \in 1..Len(messages) : messages[i].comment = job[j].on => job[j].on \in crossed BY <1>10 DEF HasMessage
    <3>2. \A i, k \in 1..Len(messages) : i # k /\ messages[i].comment = messages[k].comment => messages[i].comment \in crossed
      BY <1>0 DEF Found, StoredOnce, CommentOnce
    <3>3. QED BY <3>1, <3>2, <1>1, <1>4, <1>5, <1>7 DEF CommentOnce
  <2>2. \A k \in Jobs : job'[k].step \in Storing => k # j /\ job[k].step \in Storing BY <1>2 DEF Storing
  <2>3. ASSUME NEW k \in Jobs, job'[k].step \in Storing, HasMessage(job[k].on)'
        PROVE  job'[k].on \in crossed'
    <3>1. k # j /\ job[k].step \in Storing /\ job'[k].on = job[k].on BY <2>2, <2>3, <1>2
    <3>2. PICK i \in 1..Len(messages') : messages'[i].comment = job[k].on BY <2>3, <3>1 DEF HasMessage
    <3>3. CASE i \in 1..Len(messages)
      <4>1. HasMessage(job[k].on) BY <3>2, <3>3, <1>4 DEF HasMessage
      <4>2. QED BY <4>1, <3>1, <1>0, <1>1 DEF Found, StoredOnce
    <3>4. CASE i = Len(messages')
      <4>1. job[k].on = job[j].on BY <3>2, <3>4, <1>5
      <4>2. job[j].step \in Storing BY <1>1 DEF Storing
      <4>3. QED BY <4>1, <4>2, <3>1, <1>0, <1>1 DEF Found, StoredOnce
    <3>5. QED BY <3>3, <3>4, <1>7
  <2>4. \A i, k \in Jobs : i # k /\ job'[i].step \in Storing /\ job'[k].step \in Storing /\ job'[i].on = job'[k].on
                              => job'[i].on \in crossed'
    BY <2>2, <1>0, <1>1, <1>2 DEF Found, StoredOnce
  <2>5. QED BY <2>1, <2>3, <2>4 DEF StoredOnce
<1>12. ContactsOnce'
  <2>1. \A k \in Jobs : job'[k].step = "make" => k # j /\ job[k].step = "make" BY <1>2
  <2>2. QED BY <2>1, <1>0, <1>1, <1>6 DEF Found, ContactsOnce
<1>13. ThreadsOnce'
  <2>1. \A k \in Jobs : job'[k].step = "open" => k # j /\ job[k].step = "open" /\ ThreadKey(k)' = ThreadKey(k)
    BY <1>1, <1>2 DEF ThreadKey
  <2>2. QED BY <2>1, <1>0, <1>1, <1>6 DEF Found, ThreadsOnce
<1>14. EveryStoredTold'
  <2>1. ASSUME NEW i \in 1..Len(messages), ~messages[i].told, messages[i].comment \notin halved
        PROVE  \E k \in Jobs : job'[k].step = "tell" /\ job'[k].contact = i
    <3>1. PICK k \in Jobs : job[k].step = "tell" /\ job[k].contact = i BY <2>1, <1>0 DEF EveryStoredTold
    <3>2. k # j BY <3>1, <1>1
    <3>3. QED BY <3>1, <3>2, <1>2
  <2>2. job'[j].step = "tell" /\ job'[j].contact = Len(messages') BY <1>2, <1>4
  <2>3. QED BY <2>1, <2>2, <1>1, <1>4, <1>7 DEF EveryStoredTold
<1>15. QED BY <1>8, <1>9, <1>11, <1>12, <1>13, <1>14 DEF Found

-----------------------------------------------------------------------------
(* Everything else. *)

\* A handler is busy with no search, and nothing is stored.
LEMMA RestStays ==
    ASSUME CommentsInv, Next,
           \A k \in Jobs : job'[k] = job[k] \/ Resting(k),
           UNCHANGED <<contacts, threads, messages>>, crossed \subseteq crossed', halved \subseteq halved',
           \A k \in Jobs : job[k].step = "tell" => job'[k] = job[k] \/ job[k].on \in halved'
    PROVE  Found' /\ EveryStoredTold'
<1>1. CommentsTyped' BY TypedComments
<1>2. Found' BY <1>1, NothingStored DEF Found
<1>3. EveryStoredTold' BY ToldStays DEF CommentsInv
<1>4. QED BY <1>2, <1>3

\* A step that a handler takes alone, one that leads to rest.
LEMMA OneRests ==
    ASSUME CommentsTyped, NEW j \in Jobs, NEW q \in JobsOf, Set(j, q), q.step \in {"idle", "next", "check"},
           q.step = "check" => q.on \in Comments \ Replies
    PROVE  /\ \A k \in Jobs : job'[k] = job[k] \/ Resting(k)
           /\ job[j].step # "tell" => \A k \in Jobs : job[k].step = "tell" => job'[k] = job[k]
<1>1. job'[j] = q /\ \A k \in Jobs \ {j} : job'[k] = job[k] BY OneJob
<1>2. Resting(j) BY <1>1 DEF Resting
<1>3. QED BY <1>1, <1>2

LEMMA TellStays ==
    ASSUME CommentsInv, Next, NEW j \in Jobs, Tell(j)
    PROVE  Found' /\ EveryStoredTold'
<1> DEFINE m == job[j].contact
           Message == [comment : Comments \ Replies, thread : Nat, told : BOOLEAN]
<1>0. CommentsTyped /\ CommentsTyped' /\ EveryStoredTold /\ Informed(j) BY TypedComments DEF CommentsInv
<1>1. /\ job[j].step = "tell" /\ m \in 1..Len(messages)
      /\ messages' = [messages EXCEPT ![m].told = TRUE] /\ Set(j, Done(j))
      /\ UNCHANGED <<contacts, threads, crossed, halved>>
  BY <1>0 DEF Tell, Told, Informed
<1>2. Done(j) \in JobsOf /\ Done(j).step \in {"idle", "next"} BY <1>0, DoneJob
<1>3. (\A k \in Jobs : job'[k] = job[k] \/ Resting(k)) /\ \A k \in Jobs \ {j} : job'[k] = job[k]
  BY <1>0, <1>1, <1>2, OneRests, OneJob
<1>4. messages \in Seq(Message) /\ Len(messages) \in Nat BY <1>0 DEF CommentsTyped
<1> HIDE DEF m
<1>5. Len(messages') = Len(messages) BY <1>1, <1>4
<1>6. \A i \in 1..Len(messages) : messages'[i] = IF i = m THEN [messages[m] EXCEPT !.told = TRUE] ELSE messages[i]
  <2>1. DOMAIN messages = 1..Len(messages) BY <1>4
  <2>2. QED BY <1>1, <2>1
<1>7. messages[m] \in Message BY <1>1, <1>4, ElementOf
<1>8. \A i \in 1..Len(messages) : /\ messages'[i].comment = messages[i].comment
                                  /\ messages'[i].thread = messages[i].thread
                                  /\ messages'[i].told = (messages[i].told \/ i = m)
  <2>1. [messages[m] EXCEPT !.told = TRUE].comment = messages[m].comment /\ [messages[m] EXCEPT !.told = TRUE].thread = messages[m].thread
        /\ [messages[m] EXCEPT !.told = TRUE].told = TRUE
    BY <1>7
  <2>2. \A i \in 1..Len(messages) : messages[i].told \in BOOLEAN
    <3>1. \A i \in 1..Len(messages) : messages[i] \in Message BY <1>4, ElementOf
    <3>2. QED BY <3>1
  <2>3. QED BY <1>6, <2>1, <2>2
<1>9. Found' BY <1>0, <1>1, <1>3, <1>5, <1>8, NothingStored DEF Found
<1>10. EveryStoredTold'
  <2>1. ASSUME NEW i \in 1..Len(messages), ~messages'[i].told, messages[i].comment \notin halved
        PROVE  \E k \in Jobs : job'[k].step = "tell" /\ job'[k].contact = i
    <3>1. ~messages[i].told /\ i # m BY <2>1, <1>8
    <3>2. PICK k \in Jobs : job[k].step = "tell" /\ job[k].contact = i BY <2>1, <3>1, <1>0 DEF EveryStoredTold
    <3>3. k # j BY <3>1, <3>2 DEF m
    <3>4. QED BY <3>2, <3>3, <1>3
  <2>2. QED BY <2>1, <1>1, <1>5, <1>8 DEF EveryStoredTold
<1>11. QED BY <1>9, <1>10

LEMMA FoundStays ==
    ASSUME CommentsInv, Next
    PROVE  Found' /\ EveryStoredTold'
<1>0. CommentsTyped /\ EveryStoredTold /\ CommentsTyped' BY TypedComments DEF CommentsInv
<1>a. ASSUME UNCHANGED <<job, stored, crossed, halved>> PROVE Found' /\ EveryStoredTold' BY <1>a, RestStays DEF stored
<1>b. ASSUME NEW j \in Jobs, NEW q \in JobsOf, Set(j, q), q.step \in {"idle", "next", "check"},
             q.step = "check" => q.on \in Comments \ Replies, job[j].step # "tell", UNCHANGED <<stored, crossed, halved>>
      PROVE  Found' /\ EveryStoredTold'
  BY <1>b, <1>0, OneRests, RestStays DEF stored
<1>c. ASSUME NEW j \in Jobs, job[j].step # "tell", \A k \in Jobs \ {j} : job'[k] = job[k], UNCHANGED <<messages, halved>>
      PROVE  EveryStoredTold'
  BY <1>c, ToldStays DEF CommentsInv
<1>1. CASE Write BY <1>1, <1>a DEF Write
<1>2. CASE Revoke BY <1>2, <1>a DEF Revoke
<1>3. CASE Reconnect BY <1>3, <1>a DEF Reconnect
<1>4. CASE FallsQuiet BY <1>4, <1>a DEF FallsQuiet
<1>5. CASE Crash
  <2>1. \A k \in Jobs : Resting(k) BY <1>5, IdleJob DEF Crash, Resting
  <2>2. \A k \in Jobs : job[k].step = "tell" => job[k].on \in halved' BY <1>5 DEF Crash
  <2>3. QED BY <1>5, <2>1, <2>2, RestStays DEF Crash, stored
<1>6. ASSUME NEW j \in Jobs, syncCommentsForTenant(j) PROVE Found' /\ EveryStoredTold'
  <2>1. Listed(Facebook) \in SUBSET Comments BY DEF Listed, Comments
  <2>2. job[j].step # "tell" BY <1>6 DEF syncCommentsForTenant, Idle
  <2>3. CASE UNCHANGED job BY <2>3, <1>6, <1>a DEF syncCommentsForTenant
  <2>4. CASE Poll(j, Listed(Facebook)) BY <2>1, <2>2, <2>4, <1>6, <1>b, PollJob DEF syncCommentsForTenant, Poll
  <2>5. QED BY <1>6, <2>3, <2>4 DEF syncCommentsForTenant
<1>7. CASE autoSyncComments BY <1>7, <1>6 DEF autoSyncComments
<1>8. CASE syncComments BY <1>8, <1>6 DEF syncComments
<1>9. ASSUME NEW j \in Jobs, syncInstagramComments(j) PROVE Found' /\ EveryStoredTold'
  <2>1. PICK S \in SUBSET Listed(Instagram) : Poll(j, S) BY <1>9 DEF syncInstagramComments
  <2>2. S \in SUBSET Comments BY DEF Listed, Comments
  <2>3. job[j].step # "tell" BY <1>9 DEF syncInstagramComments, Idle
  <2>4. QED BY <2>1, <2>2, <2>3, <1>9, <1>b, PollJob DEF syncInstagramComments, Poll
<1>10. ASSUME NEW j \in Jobs, NEW c \in Comments, Deliver(j, c) PROVE Found' /\ EveryStoredTold'
  <2>1. job[j].step # "tell" BY <1>10 DEF Deliver, Idle
  <2>2. CASE IsOwn(c) \/ (c \in Facebook /\ ~connected) BY <2>1, <2>2, <1>10, <1>b, IdleJob DEF Deliver
  <2>3. CASE ~(IsOwn(c) \/ (c \in Facebook /\ ~connected))
    <3>1. c \in Comments \ Replies BY <2>3, OthersOnly
    <3> DEFINE q == [Idle EXCEPT !.kind = "webhook", !.step = "check", !.on = c]
    <3>2. q \in JobsOf /\ q.step = "check" /\ q.on = c BY CheckJob, <1>0
    <3>3. Set(j, q) /\ UNCHANGED <<stored, crossed, halved>> BY <2>3, <1>10 DEF Deliver
    <3> HIDE DEF q
    <3>4. QED BY <2>1, <3>1, <3>2, <3>3, <1>b
  <2>4. QED BY <2>2, <2>3
<1>11. ASSUME NEW j \in Jobs, NextOfPoll(j) PROVE Found' /\ EveryStoredTold'
  <2>1. job[j] \in JobsOf /\ job[j].step = "next" BY <1>11, <1>0 DEF NextOfPoll, CommentsTyped
  <2>2. CASE Set(j, Idle) BY <2>1, <2>2, <1>11, <1>b, IdleJob DEF NextOfPoll
  <2>3. ASSUME NEW c \in job[j].rest,
               Set(j, [job[j] EXCEPT !.rest = @ \ {c}, !.on = IF IsOwn(c) THEN None ELSE c,
                                     !.step = IF IsOwn(c) THEN "next" ELSE "check"])
        PROVE  Found' /\ EveryStoredTold'
    <3> DEFINE q == [job[j] EXCEPT !.rest = @ \ {c}, !.on = IF IsOwn(c) THEN None ELSE c,
                                   !.step = IF IsOwn(c) THEN "next" ELSE "check"]
    <3>1. q \in JobsOf BY <2>1, <2>3 DEF JobsOf, JobSteps
    <3>2. q.step = (IF IsOwn(c) THEN "next" ELSE "check") /\ (~IsOwn(c) => q.on = c) BY <2>1 DEF JobsOf
    <3>3. c \in Comments BY <2>1, <2>3 DEF JobsOf
    <3>4. ~IsOwn(c) => c \in Comments \ Replies BY <3>3, OthersOnly
    <3>5. Set(j, q) BY <2>3
    <3> HIDE DEF q
    <3>6. QED BY <3>1, <3>2, <3>4, <3>5, <2>1, <1>11, <1>b DEF NextOfPoll
  <2>4. QED BY <1>11, <2>2, <2>3 DEF NextOfPoll
<1>12. ASSUME NEW j \in Jobs, Check(j) PROVE Found' /\ EveryStoredTold'
  <2>1. job[j].step # "tell" BY <1>12 DEF Check
  <2>2. CASE Known(j)
    <3>1. Done(j) \in JobsOf /\ Done(j).step \in {"idle", "next"} BY <1>0, DoneJob
    <3>2. Set(j, Done(j)) /\ UNCHANGED <<stored, crossed, halved>> BY <1>12, <2>2 DEF Check
    <3>3. QED BY <2>1, <3>1, <3>2, <1>b
  <2>3. CASE ~Known(j)
    <3>1. Found' BY <2>3, <1>0, <1>12, CheckStays
    <3>2. Set(j, [job[j] EXCEPT !.step = "look"]) /\ UNCHANGED <<messages, halved>> BY <1>12, <2>3 DEF Check, stored
    <3>3. \A k \in Jobs \ {j} : job'[k] = job[k] BY <3>2, <1>0, LookJob, OneJob
    <3>4. QED BY <3>1, <3>2, <3>3, <2>1, <1>c
  <2>4. QED BY <2>2, <2>3
<1>d. ASSUME NEW j \in Jobs, NEW q, Set(j, q) PROVE \A k \in Jobs \ {j} : job'[k] = job[k]
  BY <1>d, <1>0 DEF Set, CommentsTyped
<1>13. ASSUME NEW j \in Jobs, LookForContact(j) PROVE Found' /\ EveryStoredTold'
  <2>1. job[j].step # "tell" /\ UNCHANGED <<messages, halved>> /\ \A k \in Jobs \ {j} : job'[k] = job[k]
    BY <1>13, <1>d DEF LookForContact
  <2>2. QED BY <2>1, <1>0, <1>13, <1>c, LookStays
<1>14. ASSUME NEW j \in Jobs, CreateContact(j) PROVE Found' /\ EveryStoredTold'
  <2>1. job[j].step # "tell" /\ UNCHANGED <<messages, halved>> /\ \A k \in Jobs \ {j} : job'[k] = job[k]
    BY <1>14, <1>d DEF CreateContact
  <2>2. QED BY <2>1, <1>0, <1>14, <1>c, CreateStays
<1>15. ASSUME NEW j \in Jobs, FindThread(j) PROVE Found' /\ EveryStoredTold'
  <2>1. job[j].step # "tell" /\ UNCHANGED <<messages, halved>> /\ \A k \in Jobs \ {j} : job'[k] = job[k]
    BY <1>15, <1>d DEF FindThread, stored
  <2>2. QED BY <2>1, <1>0, <1>15, <1>c, FindStays
<1>16. ASSUME NEW j \in Jobs, OpenThread(j) PROVE Found' /\ EveryStoredTold'
  <2>1. job[j].step # "tell" /\ UNCHANGED <<messages, halved>> /\ \A k \in Jobs \ {j} : job'[k] = job[k]
    BY <1>16, <1>d DEF OpenThread
  <2>2. QED BY <2>1, <1>0, <1>16, <1>c, OpenStays
<1>17. ASSUME NEW j \in Jobs, SaveComment(j) PROVE Found' /\ EveryStoredTold' BY <1>0, <1>17, SaveStays
<1>18. ASSUME NEW j \in Jobs, Tell(j) PROVE Found' /\ EveryStoredTold' BY <1>18, TellStays
<1>19. ASSUME NEW j \in Jobs, Fail(j) PROVE Found' /\ EveryStoredTold'
  <2>1. /\ \A k \in Jobs : job'[k] = job[k] \/ Resting(k)
        /\ \A k \in Jobs \ {j} : job'[k] = job[k]
    BY <1>19, <1>0, <1>d, IdleJob, OneRests DEF Fail
  <2>2. job[j].step = "tell" => job[j].on \in halved' BY <1>19 DEF Fail
  <2>3. halved \subseteq halved' BY <1>19 DEF Fail
  <2>4. QED BY <2>1, <2>2, <2>3, <1>19, RestStays DEF Fail, stored
<1>20. ASSUME NEW r \in Replies, NEW c \in Facebook, AskReply(r, c) PROVE Found' /\ EveryStoredTold' BY <1>20, <1>a DEF AskReply
<1>21. ASSUME NEW r \in Replies, PostReply(r) PROVE Found' /\ EveryStoredTold' BY <1>21, <1>a DEF PostReply
<1>22. ASSUME NEW r \in Replies, SaveReply(r) PROVE Found' /\ EveryStoredTold' BY <1>22, RestStays DEF SaveReply
<1>23. ASSUME NEW r \in Replies, replyToInstagramComment(r) PROVE Found' /\ EveryStoredTold'
  BY <1>23, <1>a DEF replyToInstagramComment
<1>24. ASSUME NEW c \in Comments, Bury(c) \/ deleteComment(c) PROVE Found' /\ EveryStoredTold'
  BY <1>24, <1>a DEF Bury, deleteComment
<1>25. QED
  BY <1>1, <1>2, <1>3, <1>4, <1>5, <1>7, <1>8, <1>9, <1>10, <1>11, <1>12, <1>13, <1>14, <1>15, <1>16, <1>17,
     <1>18, <1>19, <1>20, <1>21, <1>22, <1>23, <1>24 DEF Next, Work

\* What answers know, and where they are recorded.
LEMMA AnswersStay ==
    ASSUME CommentsInv, Next
    PROVE  Answered'
<1>0. CommentsTyped /\ CommentsTyped' /\ Answered /\ Filed BY TypedComments DEF CommentsInv
<1>1. /\ Len(threads) \in Nat /\ Len(threads') \in Nat
      /\ answer \in [Replies -> Answers] /\ answer' \in [Replies -> Answers]
  BY <1>0 DEF CommentsTyped
<1>a. ASSUME UNCHANGED <<threads, answer, recorded>> PROVE Answered' BY <1>a, <1>0 DEF Answered
<1>2. ASSUME NEW j \in Jobs, OpenThread(j) PROVE Answered'
  <2>1. threads \in Seq([who : People, key : {"id", "name"}]) BY <1>0 DEF CommentsTyped
  <2>2. threads' = Append(threads, [who |-> Who(j), key |-> ThreadKey(j)]) BY <1>2 DEF OpenThread
  <2>3. Len(threads) <= Len(threads') /\ \A i \in 1..Len(threads) : threads'[i] = threads[i] BY <2>1, <2>2
  <2>4. QED BY <2>3, <1>0, <1>1, <1>2, AnsweredStays DEF OpenThread
<1>3. ASSUME NEW r \in Replies, NEW c \in Facebook, AskReply(r, c) PROVE Answered'
  <2>1. ThreadOf(c) # None => ThreadOf(c) \in 1..Len(threads) /\ threads[ThreadOf(c)].who = Author[c]
    <3> DEFINE stores == {i \in 1..Len(messages) : messages[i].comment = c}
    <3>1. CASE stores = {} BY <3>1 DEF ThreadOf
    <3>2. CASE stores # {}
      <4>1. stores \in SUBSET Nat OBVIOUS
      <4>2. First(stores) \in stores BY <4>1, <3>2, FirstOf
      <4>3. ThreadOf(c) = messages[First(stores)].thread BY <3>2 DEF ThreadOf
      <4>4. QED BY <4>2, <4>3, <1>0 DEF Filed
    <3>3. QED BY <3>1, <3>2
  <2>2. answer' = [answer EXCEPT ![r] = [step |-> "asked", to |-> c, known |-> ThreadOf(c)]] /\ UNCHANGED <<threads, recorded>>
    BY <1>3 DEF AskReply, stored
  <2>3. /\ answer'[r].known = ThreadOf(c) /\ answer'[r].to = c /\ answer'[r].step = "asked"
        /\ \A s \in Replies \ {r} : answer'[s] = answer[s]
    BY <2>2, <1>1
  <2>4. r \notin DOMAIN recorded BY <1>3, <1>0 DEF AskReply, Answered
  <2>5. QED BY <2>1, <2>2, <2>3, <2>4, <1>0 DEF Answered
<1>4. ASSUME NEW r \in Replies, PostReply(r) PROVE Answered'
  <2>1. \A s \in Replies : /\ answer'[s].known = answer[s].known /\ answer'[s].to = answer[s].to
                           /\ answer[s].step # "idle" => answer'[s].step # "idle"
    BY <1>4, <1>1 DEF PostReply, Answers
  <2>2. UNCHANGED <<threads, recorded>> BY <1>4 DEF PostReply, stored
  <2>3. \A s \in Replies : answer'[s].known # None =>
          answer'[s].known \in 1..Len(threads) /\ threads[answer'[s].known].who = Author[answer'[s].to]
    BY <2>1, <1>0 DEF Answered
  <2>4. \A s \in DOMAIN recorded : /\ s \in Replies /\ answer'[s].step # "idle"
                                   /\ answer'[s].known # None => recorded[s] = answer'[s].known
    BY <2>1, <1>0 DEF Answered
  <2>5. QED BY <2>2, <2>3, <2>4 DEF Answered
<1>5. ASSUME NEW r \in Replies, SaveReply(r) PROVE Answered'
  <2>1. \A s \in Replies : /\ answer'[s].known = answer[s].known /\ answer'[s].to = answer[s].to
                           /\ answer[s].step # "idle" => answer'[s].step # "idle"
    BY <1>5, <1>1 DEF SaveReply, Answers
  <2>2. answer'[r].step = "done" BY <1>5, <1>1 DEF SaveReply, Answers
  <2>3. CASE UNCHANGED recorded BY <2>1, <2>3, <1>5, <1>0 DEF Answered, SaveReply
  <2>4. ASSUME NEW i \in Where(r), recorded' = [x \in DOMAIN recorded \cup {r} |-> IF x = r THEN i ELSE recorded[x]]
        PROVE  Answered'
    <3>1. answer[r].known # None => i = answer[r].known BY <2>4 DEF Where
    <3>2. DOMAIN recorded' = DOMAIN recorded \cup {r} /\ \A x \in DOMAIN recorded' : recorded'[x] = IF x = r THEN i ELSE recorded[x]
      BY <2>4
    <3>3. QED BY <3>1, <3>2, <2>1, <2>2, <1>5, <1>0 DEF Answered, SaveReply
  <2>5. QED BY <1>5, <2>3, <2>4 DEF SaveReply
<1>6. CASE Crash
  <2>1. \A s \in Replies : /\ answer'[s].known = answer[s].known /\ answer'[s].to = answer[s].to
                           /\ answer[s].step # "idle" => answer'[s].step # "idle"
    BY <1>6, <1>1 DEF Crash, Answers
  <2>2. QED BY <2>1, <1>6, <1>0 DEF Answered, Crash, stored
<1>7. ASSUME NEW j \in Jobs, Work(j), ~OpenThread(j) PROVE Answered'
  BY <1>7, <1>a DEF Work, NextOfPoll, Check, LookForContact, CreateContact, FindThread, SaveComment, Tell, stored
<1>8. ASSUME NEW j \in Jobs, Fail(j) \/ syncInstagramComments(j) \/ syncCommentsForTenant(j) \/ \E c \in Comments : Deliver(j, c)
      PROVE  Answered'
  BY <1>8, <1>a DEF Fail, syncInstagramComments, syncCommentsForTenant, Deliver, stored
<1>9. CASE Write \/ Revoke \/ Reconnect \/ FallsQuiet BY <1>9, <1>a DEF Write, Revoke, Reconnect, FallsQuiet, stored
<1>10. ASSUME NEW c \in Comments, Bury(c) \/ deleteComment(c) PROVE Answered' BY <1>10, <1>a DEF Bury, deleteComment, stored
<1>11. ASSUME NEW r \in Replies, replyToInstagramComment(r) PROVE Answered' BY <1>11, <1>a DEF replyToInstagramComment, stored
<1>12. CASE autoSyncComments \/ syncComments BY <1>12, <1>8 DEF autoSyncComments, syncComments
<1>13. QED BY <1>2, <1>3, <1>4, <1>5, <1>6, <1>7, <1>8, <1>9, <1>10, <1>11, <1>12 DEF Next

LEMMA CommentsGoOn ==
    ASSUME CommentsInv, [Next]_commentVars
    PROVE  CommentsInv'
<1>1. CASE Next BY <1>1, TypedComments, FoundStays, AnswersStay DEF CommentsInv, Found
<1>2. CASE UNCHANGED commentVars
  <2>1. CommentsTyped' BY <1>2 DEF CommentsInv, CommentsTyped, commentVars, stored, account
  <2>2. Found'
    <3>1. \A k \in Jobs : job'[k] = job[k] BY <1>2 DEF commentVars
    <3>2. QED BY <2>1, <3>1, <1>2, NothingStored DEF commentVars, stored, Found
  <2>3. EveryStoredTold' BY <1>2 DEF CommentsInv, EveryStoredTold, commentVars, stored
  <2>4. Answered' BY <1>2 DEF CommentsInv, Answered, commentVars, stored
  <2>5. QED BY <2>1, <2>2, <2>3, <2>4 DEF CommentsInv, Found
<1>3. QED BY <1>1, <1>2

LEMMA CommentsHold ==
    ASSUME CommentsInv
    PROVE  CommentsInOrder
<1>0. CommentsTyped BY DEF CommentsInv
<1>1. \A i \in 1..Len(threads) : threads[i] \in [who : People, key : {"id", "name"}] BY <1>0, ElementOf DEF CommentsTyped
<1>2. \A i \in 1..Len(messages) : messages[i] \in [comment : Comments \ Replies, thread : Nat, told : BOOLEAN]
  BY <1>0, ElementOf DEF CommentsTyped
<1>3. \A j \in Jobs : job[j].step \in JobSteps BY <1>0 DEF CommentsTyped, JobsOf
<1>4. TypeOK BY <1>0, <1>1, <1>3 DEF CommentsInv, CommentsTyped, Filed, TypeOK, JobSteps
<1>5. CommentOnce BY DEF CommentsInv, StoredOnce
<1>6. OnePerKey BY DEF CommentsInv, ContactsOnce, ThreadsOnce, OnePerKey
<1>7. OwnNotInbound BY <1>2 DEF OwnNotInbound
<1>8. EveryStoredTold BY DEF CommentsInv
<1>9. ReplyInItsThread BY DEF CommentsInv, Answered, ReplyInItsThread
<1>10. QED BY <1>4, <1>5, <1>6, <1>7, <1>8, <1>9 DEF CommentsInOrder

\* Whatever comments are written, however often a webhook and any number of polls
\* bring them and whichever handler fails or dies, a comment is stored once, with one
\* contact and one thread of its author unless two searches crossed, told of unless
\* its handler was cut off, and never stored when the account wrote it; a reply is
\* recorded with the person it answers (facebook.service.ts:503, :3432, :3975).
THEOREM CommentsKept == CommentsSpec => []CommentsInOrder
<1>1. Init => CommentsInv BY CommentsBegin
<1>2. CommentsInv /\ [Next]_commentVars => CommentsInv' BY CommentsGoOn
<1>3. CommentsInv => CommentsInOrder BY CommentsHold
<1>4. QED BY <1>1, <1>2, <1>3, PTL DEF CommentsSpec

-----------------------------------------------------------------------------
(* Reminders: the invariant. *)

TaskRecords    == [status : {"open", "done", "gone"}, due : {"none", "later", "soon"}, reminded : BOOLEAN]
Keys           == {"none", "past_due", "ending", "expired"} \X Nat
AccountRecords == [status : {"trialing", "active", "past_due"}, trial : {"running", "ending", "over"},
                   graces : Nat, notices : SUBSET Keys, marked : BOOLEAN, old : BOOLEAN, stripe : BOOLEAN]
Snapshots      == UNION {[S -> AccountRecords] : S \in SUBSET Accounts}
RoundRecords   == [step : {"rest", "migrate", "migrating", "check", "record"}, left : SUBSET Accounts,
                   on : Accounts \cup {Nothing}, seen : Snapshots]
Passes         == [step : {"rest", "tell", "save"}, left : SUBSET Tasks, on : Tasks \cup {Nothing}]

TasksTyped ==
    /\ tasks \in [Tasks -> TaskRecords] /\ pass \in Passes
    /\ told \subseteq Tasks /\ repeated \subseteq Tasks /\ rearmed \subseteq Tasks

RoundsTyped ==
    /\ tenants \in [Accounts -> AccountRecords] /\ round \in [R!Rounds -> RoundRecords]
    /\ mailed \subseteq Accounts \X Keys /\ remailed \subseteq mailed
    /\ paid \subseteq Accounts /\ undone \subseteq Accounts

\* A task that was told of is marked, gone, or about to be marked; one a pass has
\* still to tell of was not told of: but for those cut off or armed under a pass.
ToldOnce ==
    /\ pass.step = "save" <=> pass.on # Nothing
    /\ pass.step = "rest" => pass.left = {}
    /\ repeated \subseteq blurred \cup rearmed
    /\ \A k \in Tasks \ (blurred \cup rearmed) :
         /\ k \in told => tasks[k].reminded \/ tasks[k].status = "gone" \/ pass.on = k
         /\ k \in pass.left => k \notin told

\* A round that is at work holds what it read of the accounts it has left.
AtWork(n) == round[n].step \in {"migrating", "check", "record"}
Held(n)   == round[n].left \cup ({round[n].on} \ {Nothing})

RoundsShaped ==
    \A n \in R!Rounds :
        /\ Held(n) \subseteq DOMAIN round[n].seen
        /\ round[n].step = "record" <=> round[n].on # Nothing
        /\ round[n].on \notin round[n].left
        /\ Held(n) # {} => AtWork(n)

\* Two rounds at work have met.
RoundsApart == \A n, m \in R!Rounds : n # m /\ AtWork(n) /\ AtWork(m) => Accounts \subseteq blurred

\* A round knows all the notices of an account, and a notice that was mailed is
\* recorded or about to be: but for accounts rounds met on or a crash cut off.
MailedOnce ==
    /\ \A notice \in remailed : notice[1] \in blurred
    /\ \A n \in R!Rounds : \A a \in Held(n) \ blurred : round[n].seen[a].notices = tenants[a].notices
    /\ \A notice \in mailed :
         \/ notice[1] \in blurred \/ notice[2] \in tenants[notice[1]].notices
         \/ \E n \in R!Rounds : round[n].on = notice[1] /\ R!DueNotice(round[n].seen[notice[1]]) = notice[2]

\* What a migration has left has no mark, and without a mark there was no grace period.
\* It read nobody as on trial who had paid by then.
MigratedOnce ==
    /\ \A a \in Accounts : tenants[a].graces <= 1 /\ (~tenants[a].marked => tenants[a].graces = 0)
    /\ round["boot"].step = "migrating" => \A a \in round["boot"].left :
         /\ ~tenants[a].marked
         /\ a \in paid \ undone => round["boot"].seen[a].status # "trialing"
    /\ \A a \in paid \ undone : tenants[a].status # "trialing"

TasksInv  == TasksTyped /\ ToldOnce
NoticeInv == RoundsTyped /\ RoundsShaped /\ RoundsApart /\ MailedOnce /\ MigratedOnce
ClocksInv == TasksInv /\ NoticeInv

-----------------------------------------------------------------------------
(* Reminders: it holds. *)

LEMMA ClocksBegin == R!Init => ClocksInv
<1> SUFFICES ASSUME R!Init PROVE ClocksInv OBVIOUS
<1>1. turn \in ClockScenes BY DEF R!Init
<1>a. /\ turn.tasks \in [Tasks -> [status : {"open"}, due : {"none", "later", "soon"}, reminded : {FALSE}]]
      /\ turn.tenants \in [Accounts -> [status : {"trialing", "active", "past_due"},
                                       trial : {"running", "ending", "over"}, graces : {0}, notices : {{}},
                                       marked : BOOLEAN, old : BOOLEAN, stripe : BOOLEAN]]
  BY <1>1, ClocksAssumption
<1>b. tasks = [k \in Tasks |-> turn.tasks[k]] /\ tenants = [a \in Accounts |-> turn.tenants[a]] BY DEF R!Init
<1>2. TasksTyped
  <2>1. tasks \in [Tasks -> TaskRecords]
    <3>1. \A k \in Tasks : turn.tasks[k] \in TaskRecords BY <1>a DEF TaskRecords
    <3>2. QED BY <1>b, <3>1
  <2>2. QED BY <2>1 DEF R!Init, TasksTyped, Passes, R!NoPass
<1>3. ToldOnce BY ClocksAssumption DEF R!Init, ToldOnce, R!NoPass
<1>4. R!NoRound.seen \in Snapshots
  <2>1. R!NoRound.seen \in [{} -> AccountRecords] BY DEF R!NoRound
  <2>2. QED BY <2>1 DEF Snapshots
<1>5. \A n \in R!Rounds : round[n] \in RoundRecords /\ round[n].left = {} /\ round[n].on = Nothing
                          /\ round[n].step \in {"rest", "migrate"}
  BY <1>1, <1>4, ClocksAssumption DEF R!Init, R!NoRound, RoundRecords
<1>6. RoundsTyped
  <2>1. tenants \in [Accounts -> AccountRecords]
    <3>1. \A a \in Accounts : turn.tenants[a] \in AccountRecords BY <1>a DEF AccountRecords
    <3>2. QED BY <1>b, <3>1
  <2>2. round \in [R!Rounds -> RoundRecords] BY <1>5 DEF R!Init
  <2>3. QED BY <2>1, <2>2 DEF R!Init, RoundsTyped
<1>7. RoundsShaped /\ RoundsApart BY <1>5 DEF RoundsShaped, RoundsApart, Held, AtWork
<1>8. MailedOnce BY <1>5 DEF R!Init, MailedOnce, Held
<1>9. MigratedOnce
  <2>1. \A a \in Accounts : tenants[a].graces = 0 BY <1>a, <1>b
  <2>2. paid = {} BY DEF R!Init
  <2>3. round["boot"].left = {} BY <1>5 DEF R!Rounds
  <2>4. QED BY <2>1, <2>2, <2>3 DEF MigratedOnce
<1>10. QED BY <1>2, <1>3, <1>6, <1>7, <1>8, <1>9 DEF ClocksInv, TasksInv, NoticeInv

\* The tasks: what a step of the pass or of a user leaves.
LEMMA TasksGoOn ==
    ASSUME TasksInv, R!TimePasses \/ R!Passing \/ R!PassFails
                     \/ \E k \in Tasks : R!rearmTask(k) \/ \E s \in {"open", "done", "gone"} : R!updateTask(k, s)
    PROVE  TasksInv'
<1>0. TasksTyped /\ ToldOnce BY DEF TasksInv
<1>1. \A k \in Tasks : tasks[k] \in TaskRecords BY <1>0 DEF TasksTyped
<1>2. CASE R!TimePasses
  <2>1. \A k \in Tasks : tasks'[k] = [tasks[k] EXCEPT !.due = IF @ = "later" THEN "soon" ELSE @]
    BY <1>2 DEF R!TimePasses
  <2>2. \A k \in Tasks : tasks'[k] \in TaskRecords /\ tasks'[k].status = tasks[k].status /\ tasks'[k].reminded = tasks[k].reminded
    BY <1>1, <2>1 DEF TaskRecords
  <2>3. TasksTyped' BY <1>0, <1>2, <2>2 DEF R!TimePasses, TasksTyped
  <2>4. ToldOnce' BY <1>0, <1>2, <2>2 DEF R!TimePasses, ToldOnce
  <2>5. QED BY <2>3, <2>4 DEF TasksInv
<1>3. ASSUME NEW k \in Tasks, NEW s \in {"open", "done", "gone"}, R!updateTask(k, s) PROVE TasksInv'
  <2>1. TasksTyped' BY <1>0, <1>1, <1>3 DEF R!updateTask, TasksTyped, TaskRecords
  <2>2. \A i \in Tasks : tasks'[i].reminded = tasks[i].reminded /\ (tasks[i].status = "gone" => tasks'[i].status = "gone")
    BY <1>0, <1>1, <1>3 DEF R!updateTask, TasksTyped, TaskRecords
  <2>3. ToldOnce' BY <1>0, <1>3, <2>2 DEF R!updateTask, ToldOnce
  <2>4. QED BY <2>1, <2>3 DEF TasksInv
<1>4. ASSUME NEW k \in Tasks, R!rearmTask(k) PROVE TasksInv'
  <2>1. TasksTyped' BY <1>0, <1>1, <1>4 DEF R!rearmTask, R!Armed, TasksTyped, TaskRecords
  <2>2. \A i \in Tasks \ {k} : tasks'[i] = tasks[i] BY <1>0, <1>4 DEF R!rearmTask, TasksTyped
  <2>3. ToldOnce' BY <1>0, <1>4, <2>2 DEF R!rearmTask, ToldOnce
  <2>4. QED BY <2>1, <2>3 DEF TasksInv
<1>5. CASE R!FindDue
  <2>1. PICK batch \in SUBSET {k \in Tasks : R!Due(k)} : pass' = [step |-> "tell", left |-> batch, on |-> Nothing]
    BY <1>5 DEF R!FindDue
  <2>2. TasksTyped' BY <1>0, <1>5, <2>1 DEF R!FindDue, TasksTyped, Passes
  <2>3. ToldOnce' BY <1>0, <1>5, <2>1, ClocksAssumption DEF R!FindDue, R!Due, R!NoPass, ToldOnce
  <2>4. QED BY <2>2, <2>3 DEF TasksInv
<1>6. CASE R!TellTask
  <2>1. PICK k \in pass.left : /\ pass' = [step |-> "save", left |-> pass.left \ {k}, on |-> k]
                               /\ told' = told \cup {k}
                               /\ repeated' = IF k \in told THEN repeated \cup {k} ELSE repeated
    BY <1>6 DEF R!TellTask
  <2>2. k \in Tasks BY <1>0 DEF TasksTyped, Passes
  <2>3. TasksTyped' BY <1>0, <1>6, <2>1, <2>2 DEF R!TellTask, TasksTyped, Passes
  <2>4. ToldOnce' BY <1>0, <1>6, <2>1, <2>2, ClocksAssumption DEF R!TellTask, ToldOnce
  <2>5. QED BY <2>3, <2>4 DEF TasksInv
<1>7. CASE R!SaveTask
  <2>1. pass.on \in Tasks BY <1>0, <1>7 DEF R!SaveTask, TasksTyped, Passes, ToldOnce
  <2>2. TasksTyped'
    <3>1. tasks' \in [Tasks -> TaskRecords]
      <4>1. [tasks[pass.on] EXCEPT !.reminded = TRUE] \in TaskRecords BY <1>1, <2>1 DEF TaskRecords
      <4>2. tasks' = tasks \/ tasks' = [tasks EXCEPT ![pass.on] = [tasks[pass.on] EXCEPT !.reminded = TRUE]]
        BY <1>7 DEF R!SaveTask
      <4>3. QED BY <1>0, <2>1, <4>1, <4>2 DEF TasksTyped
    <3>2. pass' \in Passes
      <4>1. [pass EXCEPT !.step = "tell", !.on = Nothing] \in Passes /\ R!NoPass \in Passes
        BY <1>0 DEF TasksTyped, Passes, R!NoPass
      <4>2. QED BY <1>7, <4>1 DEF R!SaveTask
    <3>3. QED BY <1>0, <1>7, <3>1, <3>2 DEF R!SaveTask, TasksTyped
  <2>3. \A k \in Tasks : /\ tasks'[k].status = tasks[k].status
                         /\ tasks'[k].reminded = tasks[k].reminded \/ tasks'[k].reminded
                         /\ k = pass.on => tasks'[k].reminded \/ tasks'[k].status = "gone"
    BY <1>0, <1>1, <1>7, <2>1 DEF R!SaveTask, TasksTyped, TaskRecords
  <2>4. pass'.on = Nothing /\ pass'.left \subseteq pass.left /\ pass'.step # "save" /\ (pass'.step = "rest" => pass'.left = {})
    <3>1. CASE pass' = R!NoPass BY <3>1 DEF R!NoPass
    <3>2. CASE pass' = [pass EXCEPT !.step = "tell", !.on = Nothing] BY <1>0, <3>2 DEF TasksTyped, Passes
    <3>3. QED BY <1>7, <3>1, <3>2 DEF R!SaveTask
  <2>5. ToldOnce' BY <1>0, <1>7, <2>3, <2>4 DEF R!SaveTask, ToldOnce
  <2>6. QED BY <2>2, <2>5 DEF TasksInv
<1>8. CASE R!EndPass
  <2>1. TasksTyped' BY <1>0, <1>8 DEF R!EndPass, R!NoPass, TasksTyped, Passes
  <2>2. ToldOnce' BY <1>0, <1>8 DEF R!EndPass, R!NoPass, ToldOnce
  <2>3. QED BY <2>1, <2>2 DEF TasksInv
<1>9. CASE R!PassFails
  <2>1. TasksTyped' BY <1>0, <1>9 DEF R!PassFails, R!NoPass, TasksTyped, Passes
  <2>2. ToldOnce' BY <1>0, <1>9 DEF R!PassFails, R!NoPass, ToldOnce
  <2>3. QED BY <2>1, <2>2 DEF TasksInv
<1>10. QED BY <1>2, <1>3, <1>4, <1>5, <1>6, <1>7, <1>8, <1>9 DEF R!Passing

\* The notices: what is left alone stays.
LEMMA NoticesStay ==
    ASSUME NoticeInv, UNCHANGED <<tenants, round, mailed, remailed, paid, undone>>, blurred \subseteq blurred'
    PROVE  NoticeInv'
<1>1. RoundsTyped' /\ RoundsShaped' /\ MigratedOnce'
  BY DEF NoticeInv, RoundsTyped, RoundsShaped, MigratedOnce, Held, AtWork
<1>2. RoundsApart' BY DEF NoticeInv, RoundsApart, AtWork
<1>3. MailedOnce' BY DEF NoticeInv, MailedOnce, Held, R!DueNotice, R!Key
<1>4. QED BY <1>1, <1>2, <1>3 DEF NoticeInv

LEMMA TasksStay ==
    ASSUME TasksInv, UNCHANGED <<tasks, pass, told, repeated, rearmed>>, blurred \subseteq blurred'
    PROVE  TasksInv'
BY DEF TasksInv, TasksTyped, ToldOnce

\* What rounds know.
LEMMA RoundsKnow ==
    ASSUME RoundsTyped, RoundsShaped, NEW n \in R!Rounds
    PROVE  /\ round[n] \in RoundRecords /\ Held(n) \subseteq Accounts
           /\ round[n].left \subseteq Held(n) /\ (round[n].on # Nothing => round[n].on \in Held(n))
           /\ \A a \in Held(n) : round[n].seen[a] \in AccountRecords
<1>1. round[n] \in RoundRecords BY DEF RoundsTyped
<1>2. Held(n) \subseteq Accounts BY <1>1 DEF Held, RoundRecords
<1>3. PICK S \in SUBSET Accounts : round[n].seen \in [S -> AccountRecords] BY <1>1 DEF RoundRecords, Snapshots
<1>4. Held(n) \subseteq S BY <1>3 DEF RoundsShaped
<1>5. QED BY <1>1, <1>2, <1>3, <1>4 DEF Held

LEMMA NoticesNamed ==
    ASSUME NEW seen, seen \in AccountRecords
    PROVE  R!DueNotice(seen) \in Keys
BY DEF R!DueNotice, R!Key, AccountRecords, Keys

LEMMA ReadAsTheyAre ==
    ASSUME RoundsTyped, NEW S \in SUBSET Accounts
    PROVE  R!Snapshot(S) \in Snapshots /\ DOMAIN R!Snapshot(S) = S /\ \A a \in S : R!Snapshot(S)[a] = tenants[a]
<1>1. R!Snapshot(S) \in [S -> AccountRecords] BY DEF R!Snapshot, RoundsTyped
<1>2. QED BY <1>1 DEF Snapshots, R!Snapshot

LEMMA OneTurns ==
    ASSUME RoundsTyped, NEW n \in R!Rounds, NEW record \in RoundRecords, R!Turn(n, record)
    PROVE  round' \in [R!Rounds -> RoundRecords] /\ round'[n] = record /\ \A m \in R!Rounds \ {n} : round'[m] = round[m]
BY DEF R!Turn, RoundsTyped

\* A trial comes to its end, Stripe tells of a payment.
LEMMA DaysGoOn ==
    ASSUME NoticeInv, NEW a \in Accounts, R!DaysPass(a) \/ \E s \in {"active", "past_due"} : R!Pay(a, s)
    PROVE  NoticeInv'
<1>0. RoundsTyped /\ RoundsShaped /\ RoundsApart /\ MailedOnce /\ MigratedOnce BY DEF NoticeInv
<1>1. /\ tenants' \in [Accounts -> AccountRecords]
      /\ \A b \in Accounts : /\ tenants'[b].notices = tenants[b].notices /\ tenants'[b].graces = tenants[b].graces
                             /\ tenants'[b].marked = tenants[b].marked
                             /\ tenants'[b].status = "trialing" => tenants[b].status = "trialing" /\ b \notin paid' \ paid
  <2>1. CASE R!DaysPass(a) BY <1>0, <2>1 DEF R!DaysPass, R!history, RoundsTyped, AccountRecords
  <2>2. ASSUME NEW s \in {"active", "past_due"}, R!Pay(a, s)
        PROVE  tenants' = [tenants EXCEPT ![a].status = s, ![a].stripe = TRUE] /\ paid' = paid \cup {a}
    BY <2>2 DEF R!Pay
  <2>3. CASE \E s \in {"active", "past_due"} : R!Pay(a, s) BY <1>0, <2>2, <2>3 DEF RoundsTyped, AccountRecords
  <2>4. QED BY <2>1, <2>3
<1>2. UNCHANGED <<round, mailed, remailed, blurred>> BY DEF R!DaysPass, R!Pay
<1>3. RoundsTyped' BY <1>0, <1>1, <1>2 DEF RoundsTyped, R!DaysPass, R!Pay, R!history
<1>4. RoundsShaped' /\ RoundsApart' BY <1>0, <1>2 DEF RoundsShaped, RoundsApart, Held, AtWork
<1>5. MailedOnce'
  <2>1. \A n \in R!Rounds : Held(n) \subseteq Accounts BY <1>0, RoundsKnow
  <2>2. \A notice \in mailed : notice[1] \in Accounts BY <1>0 DEF RoundsTyped
  <2>3. \A n \in R!Rounds : Held(n)' = Held(n) /\ round'[n] = round[n] BY <1>2 DEF Held
  <2>4. QED BY <1>0, <1>1, <1>2, <2>1, <2>2, <2>3 DEF MailedOnce, R!DueNotice, R!Key
<1>6. MigratedOnce'
  <2>1. \A b \in Accounts : b \in paid' \ undone' => tenants'[b].status # "trialing"
    BY <1>0, <1>1 DEF MigratedOnce, R!DaysPass, R!Pay, R!history
  <2>2. \A b \in round["boot"].left : b \in paid' \ undone' => b \in paid \ undone
    BY DEF R!DaysPass, R!Pay, R!history, R!Rounds
  <2>3. round["boot"].left \subseteq Accounts BY <1>0, RoundsKnow DEF R!Rounds, RoundRecords
  <2>4. paid' \ undone' \subseteq Accounts BY <1>3 DEF RoundsTyped
  <2>5. QED BY <1>0, <1>1, <1>2, <2>1, <2>2, <2>3, <2>4 DEF MigratedOnce
<1>7. QED BY <1>3, <1>4, <1>5, <1>6 DEF NoticeInv

\* A round reads the accounts: it has met the other one, if that is at work.
LEMMA RoundsFind ==
    ASSUME NoticeInv, NEW n \in R!Rounds, NEW S \in SUBSET Accounts, NEW step \in {"migrating", "check"},
           R!Turn(n, [step |-> step, left |-> S, on |-> Nothing, seen |-> R!Snapshot(S)]),
           blurred' = R!Met(n), step = "migrating" => n = "boot" /\ \A a \in S : ~tenants[a].marked,
           round[n].on = Nothing, UNCHANGED <<tenants, mailed, remailed, paid, undone>>
    PROVE  NoticeInv'
<1> DEFINE read == [step |-> step, left |-> S, on |-> Nothing, seen |-> R!Snapshot(S)]
<1>0. RoundsTyped /\ RoundsShaped /\ RoundsApart /\ MailedOnce /\ MigratedOnce BY DEF NoticeInv
<1>1. read \in RoundRecords BY <1>0, ReadAsTheyAre DEF RoundRecords
<1>2. round' \in [R!Rounds -> RoundRecords] /\ round'[n] = read /\ \A m \in R!Rounds \ {n} : round'[m] = round[m]
  BY <1>0, <1>1, OneTurns
<1>3. RoundsTyped' BY <1>0, <1>2 DEF RoundsTyped
<1>4. Held(n)' = S /\ AtWork(n)' /\ \A m \in R!Rounds \ {n} : Held(m)' = Held(m) /\ (AtWork(m)' <=> AtWork(m))
  BY <1>2, ClocksAssumption DEF Held, AtWork
<1>5. RoundsShaped'
  <2>1. DOMAIN R!Snapshot(S) = S BY <1>0, ReadAsTheyAre
  <2>2. Nothing \notin S BY ClocksAssumption
  <2>3. QED BY <1>0, <1>2, <1>4, <2>1, <2>2 DEF RoundsShaped
<1>6. \A m \in R!Rounds \ {n} : AtWork(m) => Accounts \subseteq blurred' BY DEF R!Met, AtWork
<1>7. blurred \subseteq blurred' BY DEF R!Met
<1>8. RoundsApart' BY <1>0, <1>4, <1>6, <1>7 DEF RoundsApart
<1>9. MailedOnce'
  <2>1. \A a \in S : round'[n].seen[a] = tenants[a] BY <1>0, <1>2, ReadAsTheyAre
  <2>2. \A m \in R!Rounds : \A a \in Held(m)' \ blurred' : round'[m].seen[a].notices = tenants[a].notices
    BY <1>0, <1>2, <1>4, <1>7, <2>1 DEF MailedOnce
  <2>3. \A notice \in mailed : notice[1] \in Accounts BY <1>0 DEF RoundsTyped
  <2>4. \A notice \in mailed, m \in R!Rounds : round[m].on = notice[1] => round'[m] = round[m]
    BY <1>2, <2>3, ClocksAssumption
  <2>5. QED BY <1>0, <1>7, <2>2, <2>4 DEF MailedOnce
<1>10. MigratedOnce'
  <2>1. \A a \in S : R!Snapshot(S)[a] = tenants[a] BY <1>0, ReadAsTheyAre
  <2>2. QED BY <1>0, <1>2, <2>1 DEF MigratedOnce, R!Rounds
<1>11. QED BY <1>3, <1>5, <1>8, <1>9, <1>10 DEF NoticeInv

LEMMA MigrationsGoOn ==
    ASSUME NoticeInv, R!MigrateOne
    PROVE  NoticeInv'
<1> DEFINE boot == round["boot"]
<1>0. RoundsTyped /\ RoundsShaped /\ RoundsApart /\ MailedOnce /\ MigratedOnce BY DEF NoticeInv
<1>1. PICK a \in boot.left :
        /\ tenants' = [tenants EXCEPT ![a] = R!Migrated(tenants[a], boot.seen[a])]
        /\ R!Turn("boot", [boot EXCEPT !.left = @ \ {a}])
  BY DEF R!MigrateOne
<1>2. "boot" \in R!Rounds BY DEF R!Rounds
<1>3. boot.step = "migrating" /\ UNCHANGED <<mailed, remailed, paid, undone, blurred>> BY DEF R!MigrateOne, R!history
<1>4. /\ boot \in RoundRecords /\ a \in Accounts /\ a \in Held("boot") /\ boot.seen[a] \in AccountRecords
  BY <1>0, <1>2, RoundsKnow
<1>5. [boot EXCEPT !.left = @ \ {a}] \in RoundRecords BY <1>4 DEF RoundRecords
<1>6. /\ round' \in [R!Rounds -> RoundRecords] /\ \A m \in R!Rounds \ {"boot"} : round'[m] = round[m]
      /\ round'["boot"] = [boot EXCEPT !.left = @ \ {a}]
  BY <1>0, <1>1, <1>2, <1>5, OneTurns
<1>7. /\ round'["boot"].left = boot.left \ {a} /\ round'["boot"].on = boot.on /\ round'["boot"].seen = boot.seen
      /\ round'["boot"].step = boot.step
  BY <1>4, <1>6 DEF RoundRecords
<1>8. /\ tenants' \in [Accounts -> AccountRecords] /\ \A b \in Accounts \ {a} : tenants'[b] = tenants[b]
      /\ tenants'[a].marked /\ tenants'[a].status = boot.seen[a].status /\ tenants'[a].notices = boot.seen[a].notices
      /\ tenants'[a].graces = tenants[a].graces \/ tenants'[a].graces = tenants[a].graces + 1
  <2> DEFINE new == R!Migrated(tenants[a], boot.seen[a])
  <2>1. tenants[a] \in AccountRecords BY <1>0, <1>4 DEF RoundsTyped
  <2>2. /\ new \in AccountRecords /\ new.marked /\ new.status = boot.seen[a].status /\ new.notices = boot.seen[a].notices
        /\ new.graces = tenants[a].graces \/ new.graces = tenants[a].graces + 1
    <3>1. CASE R!Graced(boot.seen[a])
      <4>1. new = [tenants[a] EXCEPT !.marked = TRUE, !.status = boot.seen[a].status, !.stripe = boot.seen[a].stripe,
                                     !.notices = boot.seen[a].notices, !.trial = "running",
                                     !.graces = tenants[a].graces + 1]
        BY <2>1, <3>1 DEF R!Migrated, R!Status, AccountRecords
      <4>2. /\ tenants[a].graces + 1 \in Nat /\ boot.seen[a].status \in {"trialing", "active", "past_due"}
            /\ boot.seen[a].stripe \in BOOLEAN /\ boot.seen[a].notices \in SUBSET Keys
        BY <1>4, <2>1 DEF AccountRecords
      <4> HIDE DEF new
      <4>3. QED BY <2>1, <4>1, <4>2 DEF AccountRecords
    <3>2. CASE ~R!Graced(boot.seen[a]) BY <1>4, <2>1, <3>2 DEF R!Migrated, AccountRecords, R!Status
    <3>3. QED BY <3>1, <3>2
  <2>3. tenants' = [tenants EXCEPT ![a] = new] BY <1>1
  <2> HIDE DEF new
  <2>4. QED BY <1>0, <1>4, <2>2, <2>3 DEF RoundsTyped
<1>9. RoundsTyped' BY <1>0, <1>3, <1>6, <1>8 DEF RoundsTyped
<1>10. \A m \in R!Rounds : Held(m)' \subseteq Held(m) /\ (AtWork(m)' <=> AtWork(m)) BY <1>6, <1>7 DEF Held, AtWork
<1>11. RoundsShaped' BY <1>0, <1>6, <1>7, <1>10 DEF RoundsShaped
<1>12. RoundsApart' BY <1>0, <1>3, <1>10 DEF RoundsApart
<1>13. a \notin blurred => tenants'[a].notices = tenants[a].notices BY <1>0, <1>2, <1>4, <1>8 DEF MailedOnce
<1>14. MailedOnce'
  <2>1. \A m \in R!Rounds : round'[m].on = round[m].on /\ round'[m].seen = round[m].seen BY <1>6, <1>7
  <2>2. \A m \in R!Rounds : Held(m) \subseteq Accounts BY <1>0, RoundsKnow
  <2>3. \A b \in Accounts \ blurred : tenants'[b].notices = tenants[b].notices BY <1>8, <1>13
  <2>4. \A m \in R!Rounds : \A b \in Held(m)' \ blurred' : round'[m].seen[b].notices = tenants'[b].notices
    BY <1>0, <1>3, <1>10, <2>1, <2>2, <2>3 DEF MailedOnce
  <2>5. \A notice \in mailed : notice[1] \in Accounts BY <1>0 DEF RoundsTyped
  <2>6. QED BY <1>0, <1>3, <2>1, <2>3, <2>4, <2>5 DEF MailedOnce
<1>15. MigratedOnce'
  <2>1. boot.left \subseteq Accounts BY <1>4 DEF RoundRecords
  <2>2. tenants[a].graces = 0 BY <1>0, <1>3, <1>4 DEF MigratedOnce
  <2>3. \A b \in Accounts : tenants'[b].graces <= 1 /\ (~tenants'[b].marked => tenants'[b].graces = 0)
    BY <1>0, <1>8, <2>2 DEF MigratedOnce
  <2>4. \A b \in paid \ undone : tenants'[b].status # "trialing" BY <1>0, <1>3, <1>8 DEF MigratedOnce, RoundsTyped
  <2>5. QED BY <1>0, <1>3, <1>7, <1>8, <2>1, <2>3, <2>4 DEF MigratedOnce
<1>16. QED BY <1>9, <1>11, <1>12, <1>14, <1>15 DEF NoticeInv

LEMMA MailsGoOn ==
    ASSUME NoticeInv, NEW n \in R!Rounds, R!MailNotice(n)
    PROVE  NoticeInv'
<1>0. RoundsTyped /\ RoundsShaped /\ RoundsApart /\ MailedOnce /\ MigratedOnce BY DEF NoticeInv
<1> DEFINE seen(a) == round[n].seen[a]
<1>1. PICK a \in round[n].left :
        \/ R!Known(seen(a)) /\ R!Turn(n, [round[n] EXCEPT !.left = @ \ {a}]) /\ UNCHANGED <<mailed, remailed>>
        \/ /\ ~R!Known(seen(a)) /\ R!Turn(n, [round[n] EXCEPT !.step = "record", !.left = @ \ {a}, !.on = a])
           /\ \/ /\ mailed' = mailed \cup {<<a, R!DueNotice(seen(a))>>}
                 /\ remailed' = IF <<a, R!DueNotice(seen(a))>> \in mailed
                                THEN remailed \cup {<<a, R!DueNotice(seen(a))>>} ELSE remailed
              \/ UNCHANGED <<mailed, remailed>>
  BY DEF R!MailNotice
<1>2. round[n].step = "check" /\ UNCHANGED <<tenants, paid, undone, blurred>> BY DEF R!MailNotice, R!history
<1>3. /\ round[n] \in RoundRecords /\ a \in Accounts /\ a \in Held(n) /\ seen(a) \in AccountRecords
      /\ round[n].on = Nothing /\ a # Nothing
  BY <1>0, <1>2, RoundsKnow, ClocksAssumption DEF RoundsShaped
<1>4. R!DueNotice(seen(a)) \in Keys BY <1>3, NoticesNamed
<1>5. PICK record \in RoundRecords :
        /\ R!Turn(n, record) /\ record.left = round[n].left \ {a} /\ record.seen = round[n].seen
        /\ \/ R!Known(seen(a)) /\ record.step = "check" /\ record.on = Nothing
           \/ ~R!Known(seen(a)) /\ record.step = "record" /\ record.on = a
  <2>1. CASE R!Known(seen(a))
    <3>1. [round[n] EXCEPT !.left = @ \ {a}] \in RoundRecords BY <1>3 DEF RoundRecords
    <3>2. QED BY <1>1, <1>2, <1>3, <2>1, <3>1 DEF RoundRecords
  <2>2. CASE ~R!Known(seen(a))
    <3>1. [round[n] EXCEPT !.step = "record", !.left = @ \ {a}, !.on = a] \in RoundRecords BY <1>3 DEF RoundRecords
    <3>2. QED BY <1>1, <1>2, <1>3, <2>2, <3>1 DEF RoundRecords
  <2>3. QED BY <2>1, <2>2
<1>6. round' \in [R!Rounds -> RoundRecords] /\ round'[n] = record /\ \A m \in R!Rounds \ {n} : round'[m] = round[m]
  BY <1>0, <1>5, OneTurns
<1>7. /\ \A m \in R!Rounds : Held(m)' \subseteq Held(m) /\ (AtWork(m)' <=> AtWork(m))
      /\ a \in Held(n) /\ a \notin record.left
  BY <1>2, <1>3, <1>5, <1>6 DEF Held, AtWork
<1>8. RoundsTyped'
  <2>1. mailed' \subseteq Accounts \X Keys /\ remailed' \subseteq mailed' BY <1>0, <1>1, <1>3, <1>4 DEF RoundsTyped
  <2>2. QED BY <1>0, <1>2, <1>6, <2>1 DEF RoundsTyped
<1>9. RoundsShaped' BY <1>0, <1>2, <1>3, <1>5, <1>6, <1>7 DEF RoundsShaped, AtWork
<1>10. RoundsApart' BY <1>0, <1>2, <1>7 DEF RoundsApart
<1>11. \A m \in R!Rounds : \A b \in Held(m)' \ blurred' : round'[m].seen[b].notices = tenants'[b].notices
  BY <1>0, <1>2, <1>5, <1>6, <1>7 DEF MailedOnce
<1>12. \A notice \in mailed, m \in R!Rounds : round[m].on = notice[1] => round'[m] = round[m]
  BY <1>0, <1>3, <1>6, ClocksAssumption DEF RoundsTyped
\* Who was mailed this notice, and not met by two rounds, has it recorded: it was known.
<1>13. ASSUME <<a, R!DueNotice(seen(a))>> \in mailed, ~R!Known(seen(a)) PROVE a \in blurred
  <2>1. SUFFICES ASSUME a \notin blurred PROVE FALSE OBVIOUS
  <2>2. R!DueNotice(seen(a)) \notin seen(a).notices BY <1>13 DEF R!Known
  <2>3. seen(a).notices = tenants[a].notices BY <1>0, <1>3, <2>1 DEF MailedOnce
  <2>4. PICK m \in R!Rounds : round[m].on = a BY <1>0, <1>13, <2>1, <2>2, <2>3 DEF MailedOnce
  <2>5. m # n /\ AtWork(m) /\ AtWork(n) BY <1>0, <1>2, <1>3, <2>4 DEF RoundsShaped, AtWork
  <2>6. QED BY <1>0, <1>3, <2>1, <2>5 DEF RoundsApart
<1>14. MailedOnce'
  <2>1. \A notice \in remailed' : notice[1] \in blurred' BY <1>0, <1>1, <1>2, <1>13 DEF MailedOnce
  <2>2. ASSUME NEW notice \in mailed'
        PROVE  \/ notice[1] \in blurred' \/ notice[2] \in tenants'[notice[1]].notices
               \/ \E m \in R!Rounds : round'[m].on = notice[1] /\ R!DueNotice(round'[m].seen[notice[1]]) = notice[2]
    <3>1. CASE notice \in mailed BY <1>0, <1>2, <1>12, <3>1 DEF MailedOnce
    <3>2. CASE notice \notin mailed BY <1>1, <1>5, <1>6, <3>2, <2>2
    <3>3. QED BY <3>1, <3>2
  <2>3. QED BY <1>11, <2>1, <2>2 DEF MailedOnce
<1>15. MigratedOnce' BY <1>0, <1>2, <1>5, <1>6 DEF MigratedOnce, R!Rounds
<1>16. QED BY <1>8, <1>9, <1>10, <1>14, <1>15 DEF NoticeInv

LEMMA RecordsGoOn ==
    ASSUME NoticeInv, NEW n \in R!Rounds, R!RecordNotice(n)
    PROVE  NoticeInv'
<1> DEFINE a == round[n].on   seen == round[n].seen[a]   record == [round[n] EXCEPT !.step = "check", !.on = Nothing]
<1>0. RoundsTyped /\ RoundsShaped /\ RoundsApart /\ MailedOnce /\ MigratedOnce BY DEF NoticeInv
<1>1. /\ tenants' = [tenants EXCEPT ![a].notices = seen.notices \cup {R!DueNotice(seen)}] /\ R!Turn(n, record)
      /\ round[n].step = "record" /\ UNCHANGED <<mailed, remailed, paid, undone, blurred>>
  BY DEF R!RecordNotice, R!history
<1>2. /\ round[n] \in RoundRecords /\ a # Nothing /\ a \in Held(n) /\ a \in Accounts /\ seen \in AccountRecords
      /\ a \notin round[n].left
  BY <1>0, <1>1, RoundsKnow DEF RoundsShaped
<1>3. R!DueNotice(seen) \in Keys BY <1>2, NoticesNamed
<1>4. /\ tenants' \in [Accounts -> AccountRecords] /\ \A b \in Accounts \ {a} : tenants'[b] = tenants[b]
      /\ tenants'[a].notices = seen.notices \cup {R!DueNotice(seen)} /\ tenants'[a].status = tenants[a].status
      /\ tenants'[a].graces = tenants[a].graces /\ tenants'[a].marked = tenants[a].marked
  BY <1>0, <1>1, <1>2, <1>3 DEF RoundsTyped, AccountRecords
<1>5. /\ record \in RoundRecords /\ record.left = round[n].left /\ record.seen = round[n].seen /\ record.on = Nothing
      /\ record.step = "check"
  BY <1>2 DEF RoundRecords
<1>6. round' \in [R!Rounds -> RoundRecords] /\ round'[n] = record /\ \A m \in R!Rounds \ {n} : round'[m] = round[m]
  BY <1>0, <1>1, <1>5, OneTurns
<1>7. RoundsTyped' BY <1>0, <1>1, <1>4, <1>6 DEF RoundsTyped
<1>8. /\ \A m \in R!Rounds : Held(m)' \subseteq Held(m) /\ (AtWork(m)' <=> AtWork(m))
      /\ a \notin Held(n)'
  BY <1>1, <1>2, <1>5, <1>6 DEF Held, AtWork
<1>9. RoundsShaped'
  <2>1. Nothing \notin round[n].left BY <1>2, ClocksAssumption DEF RoundRecords
  <2>2. SUFFICES ASSUME NEW m \in R!Rounds
                 PROVE  /\ Held(m)' \subseteq DOMAIN round'[m].seen
                        /\ round'[m].step = "record" <=> round'[m].on # Nothing
                        /\ round'[m].on \notin round'[m].left
                        /\ Held(m)' # {} => AtWork(m)'
    BY DEF RoundsShaped
  <2>3. CASE m = n BY <1>0, <1>5, <1>6, <1>8, <2>1, <2>3 DEF RoundsShaped, AtWork
  <2>4. CASE m # n BY <1>0, <1>6, <2>4 DEF RoundsShaped, AtWork, Held
  <2>5. QED BY <2>3, <2>4
<1>10. RoundsApart' BY <1>0, <1>1, <1>8 DEF RoundsApart
\* Nobody else holds the account, unless rounds met.
<1>11. \A m \in R!Rounds : a \in Held(m)' => a \in blurred
  <2>1. SUFFICES ASSUME NEW m \in R!Rounds, m # n, a \in Held(m) PROVE a \in blurred BY <1>8
  <2>2. AtWork(m) /\ AtWork(n) BY <1>0, <1>1, <2>1 DEF RoundsShaped, AtWork
  <2>3. QED BY <1>0, <1>2, <2>1, <2>2 DEF RoundsApart
<1>12. MailedOnce'
  <2>1. \A m \in R!Rounds : Held(m) \subseteq Accounts BY <1>0, RoundsKnow
  <2>2. \A m \in R!Rounds : round'[m].seen = round[m].seen BY <1>5, <1>6
  <2>3. \A m \in R!Rounds : \A b \in Held(m)' \ blurred' : round'[m].seen[b].notices = tenants'[b].notices
    <3>1. SUFFICES ASSUME NEW m \in R!Rounds, NEW b \in Held(m)', b \notin blurred'
                   PROVE  round'[m].seen[b].notices = tenants'[b].notices
      OBVIOUS
    <3>2. b \in Held(m) /\ b \in Accounts /\ b \notin blurred BY <1>1, <1>8, <2>1, <3>1
    <3>3. b # a BY <1>11, <3>1, <3>2
    <3>4. round[m].seen[b].notices = tenants[b].notices BY <1>0, <3>2 DEF MailedOnce
    <3>5. QED BY <1>4, <2>2, <3>2, <3>3, <3>4
  <2>4. a \notin blurred => tenants[a].notices \cup {R!DueNotice(seen)} = tenants'[a].notices
    BY <1>0, <1>2, <1>4 DEF MailedOnce
  <2>5. ASSUME NEW notice \in mailed, notice[1] \notin blurred
        PROVE  \/ notice[2] \in tenants'[notice[1]].notices
               \/ \E m \in R!Rounds : round'[m].on = notice[1] /\ R!DueNotice(round'[m].seen[notice[1]]) = notice[2]
    <3>1. notice[1] \in Accounts BY <1>0 DEF RoundsTyped
    <3>2. CASE notice[2] \in tenants[notice[1]].notices BY <1>4, <2>4, <2>5, <3>1, <3>2
    <3>3. ASSUME NEW m \in R!Rounds, round[m].on = notice[1], R!DueNotice(round[m].seen[notice[1]]) = notice[2]
          PROVE  \/ notice[2] \in tenants'[notice[1]].notices
                 \/ round'[m].on = notice[1] /\ R!DueNotice(round'[m].seen[notice[1]]) = notice[2]
      BY <1>4, <1>6, <3>3
    <3>4. QED BY <1>0, <2>5, <3>2, <3>3 DEF MailedOnce
  <2>6. QED BY <1>0, <1>1, <2>3, <2>5 DEF MailedOnce
<1>13. MigratedOnce'
  <2>1. round'["boot"].step = "migrating" => round'["boot"] = round["boot"] BY <1>5, <1>6 DEF R!Rounds
  <2>2. round["boot"].left \subseteq Accounts BY <1>0, RoundsKnow DEF R!Rounds, RoundRecords
  <2>3. \A b \in Accounts : tenants'[b].status = tenants[b].status /\ tenants'[b].graces = tenants[b].graces
                            /\ tenants'[b].marked = tenants[b].marked
    BY <1>4
  <2>4. paid \subseteq Accounts BY <1>0 DEF RoundsTyped
  <2>5. QED BY <1>0, <1>1, <2>1, <2>2, <2>3, <2>4 DEF MigratedOnce
<1>14. QED BY <1>7, <1>9, <1>10, <1>12, <1>13 DEF NoticeInv

\* A round ends, or a crash ends both and starts the migration again.
LEMMA RoundsEnd ==
    ASSUME NoticeInv, round' \in [R!Rounds -> RoundRecords], UNCHANGED <<tenants, mailed, remailed, paid, undone>>,
           \A m \in R!Rounds : \/ round'[m] = round[m]
                               \/ /\ round'[m].step \in {"rest", "migrate"} /\ round'[m].left = {} /\ round'[m].on = Nothing
                                  /\ round[m].on # Nothing => round[m].on \in blurred',
           blurred \subseteq blurred'
    PROVE  NoticeInv'
<1>0. RoundsTyped /\ RoundsShaped /\ RoundsApart /\ MailedOnce /\ MigratedOnce BY DEF NoticeInv
<1>1. \A m \in R!Rounds : Held(m)' \subseteq Held(m) /\ (AtWork(m)' => AtWork(m)) /\ (Held(m)' # {} => round'[m] = round[m])
  BY DEF Held, AtWork
<1>2. RoundsTyped' BY <1>0 DEF RoundsTyped
<1>3. RoundsShaped'
  <2>1. SUFFICES ASSUME NEW m \in R!Rounds
                 PROVE  /\ Held(m)' \subseteq DOMAIN round'[m].seen
                        /\ round'[m].step = "record" <=> round'[m].on # Nothing
                        /\ round'[m].on \notin round'[m].left
                        /\ Held(m)' # {} => AtWork(m)'
    BY DEF RoundsShaped
  <2>2. CASE round'[m] = round[m] BY <1>0, <2>2 DEF RoundsShaped, Held, AtWork
  <2>3. CASE round'[m].step \in {"rest", "migrate"} /\ round'[m].left = {} /\ round'[m].on = Nothing
    BY <2>3 DEF Held
  <2>4. QED BY <2>2, <2>3
<1>4. RoundsApart' BY <1>0, <1>1 DEF RoundsApart
<1>5. MailedOnce'
  <2>1. \A m \in R!Rounds : \A a \in Held(m)' \ blurred' : round'[m].seen[a].notices = tenants'[a].notices
    BY <1>0, <1>1 DEF MailedOnce
  <2>2. \A notice \in mailed : notice[1] # Nothing BY <1>0, ClocksAssumption DEF RoundsTyped
  <2>3. \A notice \in mailed, m \in R!Rounds : round[m].on = notice[1] => round'[m] = round[m] \/ notice[1] \in blurred'
    BY <2>2
  <2>4. QED BY <1>0, <2>1, <2>3 DEF MailedOnce
<1>6. MigratedOnce' BY <1>0 DEF MigratedOnce, R!Rounds
<1>7. QED BY <1>2, <1>3, <1>4, <1>5, <1>6 DEF NoticeInv

LEMMA ClocksGoOn ==
    ASSUME ClocksInv, [R!Next]_turnVars
    PROVE  ClocksInv'
<1>0. TasksInv /\ NoticeInv BY DEF ClocksInv
<1>1. "boot" \in R!Rounds /\ "daily" \in R!Rounds /\ \A n \in R!Rounds : n \in {"boot", "daily"} BY DEF R!Rounds
<1>2. R!NoRound \in RoundRecords /\ [R!NoRound EXCEPT !.step = "migrate"] \in RoundRecords
  <2>1. R!NoRound.seen \in [{} -> AccountRecords] BY DEF R!NoRound
  <2>2. R!NoRound.seen \in Snapshots BY <2>1 DEF Snapshots
  <2>3. QED BY <2>2 DEF RoundRecords, R!NoRound
<1>3. CASE R!TimePasses \/ R!Passing \/ R!PassFails
           \/ \E k \in Tasks : R!rearmTask(k) \/ \E s \in {"open", "done", "gone"} : R!updateTask(k, s)
  <2>1. UNCHANGED <<tenants, round, mailed, remailed, paid, undone>> /\ blurred \subseteq blurred'
    BY <1>3 DEF R!TimePasses, R!Passing, R!FindDue, R!TellTask, R!SaveTask, R!EndPass, R!PassFails, R!rearmTask,
                R!updateTask, R!noticeVars, R!history
  <2>2. QED BY <1>0, <1>3, <2>1, TasksGoOn, NoticesStay DEF ClocksInv
<1>4. ASSUME NEW a \in Accounts, R!DaysPass(a) \/ \E s \in {"active", "past_due"} : R!Pay(a, s) PROVE ClocksInv'
  <2>1. UNCHANGED <<tasks, pass, told, repeated, rearmed, blurred>> BY <1>4 DEF R!DaysPass, R!Pay, R!taskVars
  <2>2. QED BY <1>0, <1>4, <2>1, DaysGoOn, TasksStay DEF ClocksInv
<1>5. CASE R!FindLegacy
  <2>1. UNCHANGED <<tasks, pass, told, repeated, rearmed>> /\ blurred \subseteq blurred' BY <1>5 DEF R!FindLegacy, R!taskVars, R!Met
  <2>2. NoticeInv'
    <3> DEFINE S == {a \in Accounts : R!Legacy(a)}
    <3>1. /\ R!Turn("boot", [step |-> "migrating", left |-> S, on |-> Nothing, seen |-> R!Snapshot(S)])
          /\ blurred' = R!Met("boot") /\ round["boot"].on = Nothing /\ UNCHANGED <<tenants, mailed, remailed, paid, undone>>
      BY <1>5 DEF R!FindLegacy, R!history
    <3>2. S \in SUBSET Accounts /\ \A a \in S : ~tenants[a].marked BY DEF R!Legacy
    <3> HIDE DEF S
    <3>3. QED BY <1>0, <1>1, <3>1, <3>2, RoundsFind
  <2>3. QED BY <1>0, <2>1, <2>2, TasksStay DEF ClocksInv
<1>6. CASE R!MigrateOne
  <2>1. UNCHANGED <<tasks, pass, told, repeated, rearmed, blurred>> BY <1>6 DEF R!MigrateOne, R!taskVars
  <2>2. QED BY <1>0, <1>6, <2>1, MigrationsGoOn, TasksStay DEF ClocksInv
<1>7. ASSUME NEW n \in R!Rounds, R!FindTenants(n) PROVE ClocksInv'
  <2>1. UNCHANGED <<tasks, pass, told, repeated, rearmed>> /\ blurred \subseteq blurred' BY <1>7 DEF R!FindTenants, R!taskVars, R!Met
  <2>2. NoticeInv'
    <3> DEFINE S == {a \in Accounts : tenants[a].status \in {"trialing", "past_due"}}
    <3>1. /\ R!Turn(n, [step |-> "check", left |-> S, on |-> Nothing, seen |-> R!Snapshot(S)])
          /\ blurred' = R!Met(n) /\ UNCHANGED <<tenants, mailed, remailed, paid, undone>>
      BY <1>7 DEF R!FindTenants, R!history
    <3>2. S \in SUBSET Accounts OBVIOUS
    <3>3. round[n].on = Nothing BY <1>0, <1>7 DEF R!FindTenants, R!NoRound, NoticeInv, RoundsShaped
    <3> HIDE DEF S
    <3>4. QED BY <1>0, <3>1, <3>2, <3>3, RoundsFind
  <2>3. QED BY <1>0, <2>1, <2>2, TasksStay DEF ClocksInv
<1>8. ASSUME NEW n \in R!Rounds, R!Going(n) PROVE ClocksInv'
  <2>1. UNCHANGED <<tasks, pass, told, repeated, rearmed, blurred>>
    BY <1>8 DEF R!Going, R!MailNotice, R!RecordNotice, R!EndRound, R!taskVars
  <2>2. CASE R!EndRound(n)
    <3>1. R!Turn(n, R!NoRound) /\ round[n].step = "check" /\ UNCHANGED <<tenants, mailed, remailed, paid, undone, blurred>>
      BY <2>2 DEF R!EndRound, R!history
    <3>2. round' \in [R!Rounds -> RoundRecords] /\ round'[n] = R!NoRound /\ \A m \in R!Rounds \ {n} : round'[m] = round[m]
      BY <1>0, <1>2, <3>1, OneTurns DEF NoticeInv
    <3>3. R!NoRound.step = "rest" /\ R!NoRound.left = {} /\ R!NoRound.on = Nothing BY DEF R!NoRound
    <3>4. round[n].on = Nothing BY <1>0, <3>1 DEF NoticeInv, RoundsShaped
    <3>5. NoticeInv' BY <1>0, <3>1, <3>2, <3>3, <3>4, RoundsEnd
    <3>6. QED BY <1>0, <2>1, <3>5, TasksStay DEF ClocksInv
  <2>3. QED BY <1>0, <1>8, <2>1, <2>2, MailsGoOn, RecordsGoOn, TasksStay DEF ClocksInv, R!Going
<1>9. CASE R!Crash
  <2>1. /\ round' \in [R!Rounds -> RoundRecords]
        /\ \A m \in R!Rounds : round'[m].step \in {"rest", "migrate"} /\ round'[m].left = {} /\ round'[m].on = Nothing
    BY <1>2, <1>9 DEF R!Crash, R!NoRound
  <2>2. /\ \A m \in R!Rounds : round[m].on # Nothing => round[m].on \in blurred'
        /\ blurred \subseteq blurred' /\ (pass.on # Nothing => pass.on \in blurred')
    BY <1>1, <1>9 DEF R!Crash
  <2>3. NoticeInv' BY <1>0, <1>9, <2>1, <2>2, RoundsEnd DEF R!Crash, R!history
  <2>4. TasksInv'
    <3>1. TasksTyped' BY <1>0, <1>9 DEF R!Crash, R!NoPass, TasksInv, TasksTyped, Passes
    <3>2. ToldOnce' BY <1>0, <1>9, <2>2, ClocksAssumption DEF R!Crash, R!NoPass, TasksInv, ToldOnce
    <3>3. QED BY <3>1, <3>2 DEF TasksInv
  <2>5. QED BY <2>3, <2>4 DEF ClocksInv
<1>10. CASE UNCHANGED turnVars
  <2>1. UNCHANGED <<tasks, pass, told, repeated, rearmed, blurred>>
        /\ UNCHANGED <<tenants, round, mailed, remailed, paid, undone>>
    BY <1>10 DEF turnVars
  <2>2. QED BY <1>0, <2>1, TasksStay, NoticesStay DEF ClocksInv
<1>11. QED BY <1>3, <1>4, <1>5, <1>6, <1>7, <1>8, <1>9, <1>10 DEF R!Next, R!Booting

LEMMA ClocksHold == ClocksInv => RoundsInOrder
<1> SUFFICES ASSUME ClocksInv PROVE RoundsInOrder OBVIOUS
<1>0. TasksTyped /\ ToldOnce /\ RoundsTyped /\ RoundsShaped /\ MailedOnce /\ MigratedOnce
  BY DEF ClocksInv, TasksInv, NoticeInv
<1>1. R!TypeOK
  <2>1. \A k \in Tasks : tasks[k] \in TaskRecords BY <1>0 DEF TasksTyped
  <2>2. \A a \in Accounts : tenants[a] \in AccountRecords BY <1>0 DEF RoundsTyped
  <2>3. QED BY <1>0, <2>1, <2>2 DEF R!TypeOK, TasksTyped, TaskRecords, AccountRecords, Passes, RoundsShaped, Held
<1>2. R!TaskOnce BY <1>0 DEF R!TaskOnce, ToldOnce
<1>3. R!NoticeOnce BY <1>0 DEF R!NoticeOnce, MailedOnce
<1>4. R!GraceOnce BY <1>0 DEF R!GraceOnce, MigratedOnce
<1>5. R!PaidIsKept BY <1>0 DEF R!PaidIsKept, MigratedOnce
<1>6. QED BY <1>1, <1>2, <1>3, <1>4, <1>5 DEF RoundsInOrder, R!RoundsInOrder

\* However many tasks and accounts there are and however often passes, daily rounds
\* and start-ups come again: a task is told of once for a date and a notice mailed
\* once, but where a save failed, a crash came between or two rounds met; the
\* migration gives one grace period, and who has paid is not put back on trial
\* (activities.service.ts:121, billing-notices.service.ts:44).
THEOREM RoundsKept == MCSpec => []RoundsInOrder
<1>1. MCInit => ClocksInv BY ClocksBegin DEF MCInit
<1>2. ClocksInv /\ [MCNext]_<<commentVars, pageVars, turnVars, part>> => ClocksInv'
  <2>1. SUFFICES ASSUME ClocksInv, [MCNext]_<<commentVars, pageVars, turnVars, part>> PROVE ClocksInv' OBVIOUS
  <2>2. [R!Next]_turnVars BY <2>1 DEF MCNext, Commenting, Connecting, Reminding
  <2>3. QED BY <2>1, <2>2, ClocksGoOn
<1>3. ClocksInv => RoundsInOrder BY ClocksHold
<1>4. QED BY <1>1, <1>2, <1>3, PTL DEF MCSpec

-----------------------------------------------------------------------------
(* Pages: the invariant. *)

Users       == {UserOf[t] : t \in Tenants}
Connections == [status : {"none", "connected", "disconnected"}, active : BOOLEAN, place : Places \cup {Nobody},
                by : Users \cup {Nobody}, hooked : BOOLEAN]
RequestsOf  == [kind : {"none", "connect", "disconnect", "deletion", "rehook"},
                step : {"rest", "hook", "hooklink", "save", "savelink", "unhook", "close", "closelink", "pick", "rehook"},
                tenant : Tenants \cup {Nobody}, on : P!Assets \cup {Nobody}, place : Places \cup {Nobody},
                link : BOOLEAN, hooked : BOOLEAN, rest : SUBSET (Tenants \X P!Assets),
                by : Users \cup {Nobody}, failed : BOOLEAN]
Heals       == [step : {"rest", "each", "note"}, rest : SUBSET (Tenants \X P!Links),
                on : (Tenants \X P!Links) \cup {<<Nobody, Nobody>>}, ok : BOOLEAN]

PagesTyped ==
    /\ accounts \in [Tenants -> [P!Assets -> Connections]]
    /\ request \in [Requests -> RequestsOf] /\ heal \in Heals
    /\ subscribed \subseteq P!Assets /\ wired \in BOOLEAN /\ selection \subseteq Tenants
    /\ kept \subseteq Tenants \X P!Assets /\ listening \subseteq Tenants \X P!Assets
    /\ mixed \subseteq FacebookPages /\ cut \subseteq FacebookPages /\ apart \subseteq FacebookPages
    /\ crowded \subseteq Tenants

\* What a request is at.
Shaped(r) ==
    \/ request[r].kind = "none" /\ request[r].step = "rest" /\ request[r].on = Nobody
    \/ /\ request[r].kind = "connect" /\ request[r].step \in {"hook", "hooklink", "save", "savelink"}
       /\ request[r].on \in FacebookPages /\ request[r].tenant \in Tenants
       /\ request[r].step \in {"hooklink", "savelink"} \/ request[r].hooked => request[r].link
       /\ request[r].link => LinkOf[request[r].on] # Nobody
    \/ request[r].kind = "deletion" /\ request[r].step = "pick" /\ request[r].on = Nobody
    \/ /\ request[r].kind \in {"disconnect", "deletion"} /\ request[r].step \in {"unhook", "close", "closelink"}
       /\ request[r].on \in P!Assets /\ request[r].tenant \in Tenants
       /\ request[r].step = "closelink" => P!Follows(request[r].on)
    \/ /\ request[r].kind = "rehook" /\ request[r].step = "rehook"
       /\ request[r].on \in P!Assets /\ request[r].tenant \in Tenants

RequestsShaped ==
    /\ \A r \in Requests : Shaped(r)
    /\ heal.step = "note" => heal.on \in Tenants \X P!Links

\* Requests on a page, and the healing pass, that are at work together have met.
AloneOn == \A p \in FacebookPages \ mixed :
              /\ \A r, s \in P!On(p) : r = s
              /\ P!On(p) # {} => heal.step = "rest"

\* Where requests did not meet and none failed half way; and where no page's record was
\* taken alone either.
Calm  == FacebookPages \ (mixed \cup cut)
Quiet == Calm \ apart

ClosingLink(t, p) == \E r \in Requests : /\ request[r].step = "closelink"
                                         /\ request[r].tenant = t /\ request[r].on = p

\* Who is connected is active, an Instagram account goes with its page until that is
\* being closed, and a request that connects knows where the page is.
PairsTogether ==
    /\ \A t \in Tenants, a \in P!Assets : P!PageOf(a) \in Quiet /\ P!Connected(t, a) => accounts[t][a].active
    /\ \A t \in Tenants, p \in Quiet :
         LinkOf[p] # Nobody /\ P!Connected(t, LinkOf[p]) =>
            \/ P!Connected(t, p) /\ accounts[t][p].place = accounts[t][LinkOf[p]].place
            \/ ClosingLink(t, p) /\ ~P!Connected(t, p)

PlacesKnown ==
    \A r \in Requests : request[r].kind = "connect" /\ request[r].on \in Quiet =>
        /\ request[r].step = "savelink" => P!Connected(request[r].tenant, request[r].on)
        /\ P!Connected(request[r].tenant, request[r].on) => accounts[request[r].tenant][request[r].on].place = request[r].place

\* What is connected sends its events until it is being closed, and a request and the
\* healing pass have what they note.
Heard(a) == a \in subscribed \cup excused

Closing(t, a) == \E r \in Requests : request[r].step = "close" /\ request[r].tenant = t /\ request[r].on = a

EventsCome ==
    /\ \A t \in Tenants, a \in P!Assets :
         P!PageOf(a) \in Calm /\ P!Connected(t, a) /\ (a \in P!Links => accounts[t][a].hooked) =>
            Heard(a) \/ Closing(t, a)
    /\ \A r \in Requests : request[r].kind = "connect" /\ request[r].on \in Calm =>
         /\ request[r].step # "hook" => Heard(request[r].on)
         /\ request[r].hooked => Heard(LinkOf[request[r].on])
    /\ heal.step = "note" /\ heal.ok => Heard(heal.on[2]) \/ P!PageOf(heal.on[2]) \notin Calm

\* A tenant keeps within his plan, with what he is about to connect.
Wants(r) == P!Wanted(request[r].on, request[r].link)
Connects(r, t) == request[r].kind = "connect" /\ request[r].tenant = t
Uses(t)  == {a \in P!Assets : accounts[t][a].active}

WithinPlan ==
    \A t \in Tenants \ crowded :
        /\ P!Used(t) <= Limit
        /\ \A r, s \in Requests : Connects(r, t) /\ Connects(s, t) => r = s
        /\ \A r \in Requests : Connects(r, t) => Cardinality(Uses(t) \cup Wants(r)) <= Limit

\* A deletion that met nobody has closed what names the user and is not still to close.
Ahead(q) == q.rest \cup (IF q.step \in {"unhook", "close"} THEN {<<q.tenant, q.on>>} ELSE {})

DeletionsGoOn ==
    /\ kept # {} => mixed # {}
    /\ \A r \in Requests : request[r].kind = "deletion" /\ ~request[r].failed /\ mixed = {} =>
         P!Named(request[r].by) \subseteq Ahead(request[r])

PagesInv == /\ PagesTyped /\ RequestsShaped /\ AloneOn /\ PairsTogether /\ PlacesKnown
            /\ EventsCome /\ WithinPlan /\ DeletionsGoOn

-----------------------------------------------------------------------------
(* Pages: it holds. *)

LEMMA PageLinks ==
    /\ \A p \in FacebookPages : P!PageOf(p) = p /\ p \in P!Assets /\ p \notin P!Links
    /\ \A p \in FacebookPages : LinkOf[p] # Nobody =>
          LinkOf[p] \in P!Links /\ LinkOf[p] \in P!Assets /\ LinkOf[p] # p /\ P!PageOf(LinkOf[p]) = p
    /\ \A a \in P!Assets : P!PageOf(a) \in FacebookPages /\ (a = P!PageOf(a) \/ a = LinkOf[P!PageOf(a)])
    /\ \A a \in P!Links : a \in P!Assets /\ a \notin FacebookPages /\ a = LinkOf[P!PageOf(a)]
    /\ Nobody \notin P!Assets
<1>1. ASSUME NEW p \in FacebookPages, NEW a \in {p, LinkOf[p]}, a # Nobody PROVE P!PageOf(a) = p
  <2>1. \A q \in FacebookPages : a \in {q, LinkOf[q]} => q = p BY <1>1, PagesAssumption
  <2>2. QED BY <1>1, <2>1 DEF P!PageOf
<1>2. \A a \in P!Links : \E p \in FacebookPages : a = LinkOf[p] /\ a # Nobody BY DEF P!Links
<1>3. QED BY <1>1, <1>2, PagesAssumption DEF P!Links, P!Assets

LEMMA OneSets ==
    ASSUME PagesTyped, NEW r \in Requests, NEW record \in RequestsOf, P!Set(r, record)
    PROVE  request' \in [Requests -> RequestsOf] /\ request'[r] = record /\ \A s \in Requests \ {r} : request'[s] = request[s]
BY DEF P!Set, PagesTyped

LEMMA OneAccount ==
    ASSUME PagesTyped, NEW t \in Tenants, NEW a \in P!Assets, NEW c \in Connections, P!SetAccount(t, a, c)
    PROVE  /\ accounts' \in [Tenants -> [P!Assets -> Connections]] /\ accounts'[t][a] = c
           /\ \A u \in Tenants, b \in P!Assets : u # t \/ b # a => accounts'[u][b] = accounts[u][b]
BY DEF P!SetAccount, PagesTyped

LEMMA RestIsARequest == P!Rest \in RequestsOf /\ P!Rest.kind = "none" /\ P!Rest.step = "rest" /\ P!Rest.on = Nobody
BY DEF P!Rest, RequestsOf

\* What the parts of the invariant ask of a step that leaves the records of the accounts.
HeardThen(a) == a \in subscribed' \cup excused'

LEMMA PairsMove ==
    ASSUME PairsTogether, UNCHANGED <<accounts, apart>>, mixed \subseteq mixed', cut \subseteq cut',
           \A r \in Requests : request[r].step = "closelink" => request'[r] = request[r] \/ request[r].on \in mixed' \cup cut'
    PROVE  PairsTogether'
<1>1. Quiet' \subseteq Quiet BY DEF Quiet, Calm
<1>2. \A t \in Tenants, p \in Quiet' : ClosingLink(t, p) => ClosingLink(t, p)' BY DEF ClosingLink, Quiet, Calm
<1>3. \A t \in Tenants, a \in P!Assets : P!Connected(t, a)' <=> P!Connected(t, a) BY DEF P!Connected
<1>4. \A t \in Tenants, a \in P!Assets : P!PageOf(a) \in Quiet' /\ P!Connected(t, a)' => accounts'[t][a].active
  BY <1>1, <1>3 DEF PairsTogether
<1>5. \A t \in Tenants, p \in Quiet' :
        LinkOf[p] # Nobody /\ P!Connected(t, LinkOf[p])' =>
           \/ P!Connected(t, p)' /\ accounts'[t][p].place = accounts'[t][LinkOf[p]].place
           \/ ClosingLink(t, p)' /\ ~P!Connected(t, p)'
  BY <1>1, <1>2, <1>3, PageLinks DEF PairsTogether, Quiet, Calm
<1>6. QED BY <1>4, <1>5 DEF PairsTogether

LEMMA PlacesMove ==
    ASSUME PlacesKnown, UNCHANGED <<accounts, apart>>, mixed \subseteq mixed', cut \subseteq cut',
           \A r \in Requests : request'[r].kind = "connect" =>
               /\ request[r].kind = "connect" /\ request'[r].on = request[r].on /\ request'[r].tenant = request[r].tenant
               /\ request'[r].place = request[r].place /\ (request'[r].step = "savelink" => request[r].step = "savelink")
    PROVE  PlacesKnown'
BY DEF PlacesKnown, P!Connected, Quiet, Calm

LEMMA EventsMove ==
    ASSUME EventsCome, UNCHANGED accounts, mixed \subseteq mixed', cut \subseteq cut',
           subscribed \cup excused \subseteq subscribed' \cup excused',
           \A r \in Requests : request[r].step = "close" => request'[r] = request[r] \/ P!PageOf(request[r].on) \notin Calm',
           \A r \in Requests : request'[r].kind = "connect" =>
               \/ request'[r].step = "hook" /\ ~request'[r].hooked
               \/ /\ request[r].kind = "connect" /\ request'[r].on = request[r].on
                  /\ request'[r].step # "hook" /\ request[r].step = "hook" => HeardThen(request[r].on)
                  /\ request'[r].hooked => request[r].hooked \/ HeardThen(LinkOf[request[r].on]),
           heal'.step = "note" /\ heal'.ok => heal' = heal \/ HeardThen(heal'.on[2])
    PROVE  EventsCome'
<1>1. Calm' \subseteq Calm BY DEF Calm
<1>2. \A a : Heard(a) => HeardThen(a) BY DEF Heard, HeardThen
<1>3. \A t \in Tenants, a \in P!Assets : P!PageOf(a) \in Calm' => (Closing(t, a) => Closing(t, a)') BY DEF Closing
<1>4. \A t \in Tenants, a \in P!Assets : P!Connected(t, a)' <=> P!Connected(t, a) BY DEF P!Connected
<1>5. ASSUME NEW t \in Tenants, NEW a \in P!Assets, P!PageOf(a) \in Calm', P!Connected(t, a)',
             a \in P!Links => accounts'[t][a].hooked
      PROVE  a \in subscribed' \cup excused' \/ Closing(t, a)'
  BY <1>1, <1>2, <1>3, <1>4, <1>5 DEF EventsCome, HeardThen
<1>6. ASSUME NEW r \in Requests, request'[r].kind = "connect", request'[r].on \in Calm'
      PROVE  /\ request'[r].step # "hook" => request'[r].on \in subscribed' \cup excused'
             /\ request'[r].hooked => LinkOf[request'[r].on] \in subscribed' \cup excused'
  BY <1>1, <1>6 DEF EventsCome, Heard, HeardThen
<1>7. heal'.step = "note" /\ heal'.ok => heal'.on[2] \in subscribed' \cup excused' \/ P!PageOf(heal'.on[2]) \notin Calm'
  BY <1>1 DEF EventsCome, Heard, HeardThen
<1>8. QED BY <1>5, <1>6, <1>7 DEF EventsCome, Heard

LEMMA PlanMoves ==
    ASSUME WithinPlan, UNCHANGED accounts, crowded \subseteq crowded',
           \A r \in Requests : request'[r].kind = "connect" =>
               /\ request[r].kind = "connect" /\ request'[r].on = request[r].on /\ request'[r].tenant = request[r].tenant
               /\ request'[r].link = request[r].link
    PROVE  WithinPlan'
<1>1. \A t : Uses(t)' = Uses(t) /\ P!Used(t)' = P!Used(t) BY DEF Uses, P!Used
<1>2. \A r \in Requests, t \in Tenants : Connects(r, t)' => Connects(r, t) /\ Wants(r)' = Wants(r) BY DEF Connects, Wants, P!Wanted
<1>3. QED BY <1>1, <1>2 DEF WithinPlan

LEMMA DeletionsMove ==
    ASSUME DeletionsGoOn, UNCHANGED accounts, mixed \subseteq mixed', kept' # {} => mixed' # {},
           \A r \in Requests : request'[r].kind = "deletion" /\ ~request'[r].failed =>
               \/ P!Named(request'[r].by) \subseteq request'[r].rest
               \/ /\ request[r].kind = "deletion" /\ ~request[r].failed /\ request'[r].by = request[r].by
                  /\ Ahead(request[r]) \subseteq Ahead(request'[r])
    PROVE  DeletionsGoOn'
<1> DEFINE Names(u) == {x \in Tenants \X P!Assets : accounts[x[1]][x[2]].active /\ accounts[x[1]][x[2]].by = u}
<1>1. \A r \in Requests : P!Named(request[r].by)' = Names(request'[r].by) BY DEF P!Named
<1>2. \A q : q.rest \subseteq Ahead(q) BY DEF Ahead
<1>a. \A u : P!Named(u) = Names(u) BY DEF P!Named
<1> HIDE DEF Names
<1>3. ASSUME NEW r \in Requests, request'[r].kind = "deletion", ~request'[r].failed, mixed' = {}
      PROVE  Names(request'[r].by) \subseteq Ahead(request'[r])
  BY <1>2, <1>3, <1>a DEF DeletionsGoOn
<1>4. \A r \in Requests : Ahead(request[r])' = Ahead(request'[r]) BY DEF Ahead
<1>5. QED BY <1>1, <1>3, <1>4 DEF DeletionsGoOn

\* Nothing more names a user, and what a deletion still has to close it has still to close.
LEMMA NamesGo ==
    ASSUME DeletionsGoOn, UNCHANGED <<request, kept>>, mixed \subseteq mixed',
           \A x \in Tenants \X P!Assets :
               accounts'[x[1]][x[2]].active => accounts[x[1]][x[2]].active /\ accounts'[x[1]][x[2]].by = accounts[x[1]][x[2]].by
    PROVE  DeletionsGoOn'
<1>1. \A u : {x \in Tenants \X P!Assets : accounts'[x[1]][x[2]].active /\ accounts'[x[1]][x[2]].by = u}
               \subseteq {x \in Tenants \X P!Assets : accounts[x[1]][x[2]].active /\ accounts[x[1]][x[2]].by = u}
  OBVIOUS
<1>2. \A r \in Requests : P!Named(request[r].by)' \subseteq P!Named(request[r].by) BY <1>1 DEF P!Named
<1>3. kept' # {} => mixed' # {} BY DEF DeletionsGoOn
<1>4. ASSUME NEW r \in Requests, request[r].kind = "deletion", ~request[r].failed, mixed' = {}
      PROVE  P!Named(request[r].by)' \subseteq Ahead(request[r])
  <2>1. mixed = {} BY <1>4
  <2>2. P!Named(request[r].by) \subseteq Ahead(request[r]) BY <1>4, <2>1 DEF DeletionsGoOn
  <2>3. QED BY <1>2, <2>2
<1>5. QED BY <1>3, <1>4 DEF DeletionsGoOn, Ahead

\* A step that begins nothing and leaves the records of the accounts.
Goes(r) ==
    /\ request[r].step \in {"close", "closelink"} =>
          \/ request'[r] = request[r]
          \/ P!PageOf(request[r].on) \in mixed' \cup cut' /\ request[r].on \in P!Assets
    /\ request'[r].kind = "connect" =>
          /\ request[r].kind = "connect" /\ request'[r].on = request[r].on /\ request'[r].tenant = request[r].tenant
          /\ request'[r].place = request[r].place /\ request'[r].link = request[r].link
          /\ request'[r].step = "savelink" => request[r].step = "savelink"
          /\ request'[r].step # "hook" /\ request[r].step = "hook" => HeardThen(request[r].on)
          /\ request'[r].hooked => request[r].hooked \/ HeardThen(LinkOf[request[r].on])
    /\ request'[r].kind = "deletion" => request[r].kind = "deletion"
    /\ request'[r].kind = "deletion" /\ ~request'[r].failed =>
          /\ ~request[r].failed /\ request'[r].by = request[r].by
          /\ Ahead(request[r]) \subseteq Ahead(request'[r])
    /\ request'[r].on # Nobody => request[r].kind = "deletion" \/ request'[r].on = request[r].on

\* Nothing is lost to what Meta sends, and the healing pass does not begin.
HealsOn ==
    /\ subscribed \cup excused \subseteq subscribed' \cup excused'
    /\ heal.step = "rest" => heal'.step = "rest"
    /\ heal'.step = "note" /\ heal'.ok => heal' = heal \/ HeardThen(heal'.on[2])

LEMMA StepsGo ==
    ASSUME PagesInv, PagesTyped', RequestsShaped', UNCHANGED <<accounts, apart>>, mixed' = mixed, cut \subseteq cut', crowded' = crowded,
           kept' # {} => mixed' # {}, HealsOn, \A r \in Requests : Goes(r)
    PROVE  PagesInv'
<1>0. /\ PagesTyped /\ RequestsShaped /\ AloneOn /\ PairsTogether /\ PlacesKnown /\ EventsCome /\ WithinPlan /\ DeletionsGoOn
  BY DEF PagesInv
<1>1. AloneOn'
  <2>1. \A p \in FacebookPages : P!On(p)' \subseteq P!On(p) BY DEF P!On, Goes
  <2>2. QED BY <1>0, <2>1 DEF AloneOn, HealsOn
<1>2. PairsTogether'
  <2>1. ASSUME NEW r \in Requests, request[r].step = "closelink" PROVE request'[r] = request[r] \/ request[r].on \in mixed' \cup cut'
    <3>1. request[r].on \in FacebookPages BY <1>0, <2>1 DEF RequestsShaped, Shaped, P!Follows
    <3>2. QED BY <2>1, <3>1, PageLinks DEF Goes
  <2>2. QED BY <1>0, <2>1, PairsMove
<1>3. PlacesKnown' BY <1>0, PlacesMove DEF Goes
<1>4. EventsCome'
  <2>1. \A r \in Requests : request[r].step = "close" => request'[r] = request[r] \/ P!PageOf(request[r].on) \notin Calm'
    BY DEF Goes, Calm
  <2>2. QED BY <1>0, <2>1, EventsMove DEF Goes, HealsOn
<1>5. WithinPlan' BY <1>0, PlanMoves DEF Goes
<1>6. DeletionsGoOn' BY <1>0, DeletionsMove DEF Goes
<1>7. QED BY <1>0, <1>1, <1>2, <1>3, <1>4, <1>5, <1>6 DEF PagesInv

LEMMA WaitingGoes == ASSUME NEW r \in Requests, request'[r] = request[r] PROVE Goes(r)
BY DEF Goes

LEMMA EndingGoes ==
    ASSUME NEW r \in Requests, request'[r] = P!Rest, request[r].step \notin {"close", "closelink"}
    PROVE  Goes(r)
BY RestIsARequest DEF Goes

LEMMA RestIsShaped == ASSUME NEW r \in Requests, request'[r] = P!Rest PROVE Shaped(r)'
BY RestIsARequest DEF Shaped

LEMMA OthersShaped ==
    ASSUME RequestsShaped, NEW r \in Requests, \A s \in Requests \ {r} : request'[s] = request[s], Shaped(r)',
           heal' = heal
    PROVE  RequestsShaped'
BY DEF RequestsShaped, Shaped

-----------------------------------------------------------------------------
\* Selections, and what Meta drops.
LEMMA ChoicesGoOn ==
    ASSUME PagesInv, P!Forget \/ \E t \in Tenants : P!exchangeToken(t) \/ P!Expire(t)
    PROVE  PagesInv'
<1>0. PagesTyped /\ RequestsShaped /\ DeletionsGoOn BY DEF PagesInv
<1>1. UNCHANGED <<accounts, request, heal, kept, listening, mixed, crowded, cut, apart>>
  BY DEF P!Forget, P!exchangeToken, P!Expire, P!meta, P!outcome, P!history
<1>2. PagesTyped'
  <2>1. subscribed' \subseteq P!Assets /\ wired' \in BOOLEAN /\ selection' \subseteq Tenants
    BY <1>0 DEF P!Forget, P!exchangeToken, P!Expire, P!meta, PagesTyped
  <2>2. QED BY <1>0, <1>1, <2>1 DEF PagesTyped
<1>3. RequestsShaped' BY <1>0, <1>1 DEF RequestsShaped, Shaped
<1>4. HealsOn BY <1>1 DEF P!Forget, P!exchangeToken, P!Expire, P!meta, P!history, HealsOn
<1>5. QED BY <1>0, <1>1, <1>2, <1>3, <1>4, WaitingGoes, StepsGo DEF DeletionsGoOn

\* A step of a request at Meta.
LEMMA SubscribePageGoesOn ==
    ASSUME PagesInv, NEW r \in Requests, P!SubscribePage(r)
    PROVE  PagesInv'
<1>0. PagesTyped /\ RequestsShaped /\ DeletionsGoOn BY DEF PagesInv
<1> DEFINE now == request[r]   after == [now EXCEPT !.step = IF now.link THEN "hooklink" ELSE "save"]
<1>1. /\ now.kind = "connect" /\ now.step = "hook" /\ UNCHANGED <<accounts, wired, selection, heal, kept, listening, mixed, crowded, cut, apart, excused>>
      /\ \/ subscribed' = subscribed \cup {now.on} /\ P!Set(r, after)
         \/ subscribed' = subscribed /\ P!Set(r, P!Rest)
  BY DEF P!SubscribePage, P!Subscribing, P!outcome, P!history
<1>2. now \in RequestsOf /\ Shaped(r) BY <1>0 DEF PagesTyped, RequestsShaped
<1>3. now.on \in FacebookPages BY <1>1, <1>2 DEF Shaped
<1>4. /\ after \in RequestsOf /\ after.step \in {"hooklink", "save"} /\ (after.step = "hooklink" => now.link)
      /\ after.kind = now.kind /\ after.on = now.on /\ after.tenant = now.tenant /\ after.place = now.place
      /\ after.link = now.link /\ after.hooked = now.hooked
  BY <1>2 DEF RequestsOf
<1> HIDE DEF after
<1>5. /\ request' \in [Requests -> RequestsOf] /\ \A s \in Requests \ {r} : request'[s] = request[s]
      /\ \/ request'[r] = after /\ subscribed' = subscribed \cup {now.on}
         \/ request'[r] = P!Rest /\ subscribed' = subscribed
  BY <1>0, <1>1, <1>4, RestIsARequest, OneSets
<1>6. PagesTyped' BY <1>0, <1>1, <1>3, <1>5, PageLinks DEF PagesTyped
<1>7. RequestsShaped'
  <2>1. request'[r] = after => Shaped(r)' BY <1>1, <1>2, <1>4 DEF Shaped
  <2>2. QED BY <1>0, <1>1, <1>5, <2>1, RestIsShaped, OthersShaped
<1>8. HealsOn BY <1>1, <1>5 DEF HealsOn
<1>9. \A s \in Requests : Goes(s)
  <2>1. request'[r] = after /\ subscribed' = subscribed \cup {now.on} => Goes(r) BY <1>1, <1>4 DEF Goes, HeardThen
  <2>2. QED BY <1>1, <1>5, <2>1, WaitingGoes, EndingGoes
<1>10. QED BY <1>0, <1>1, <1>6, <1>7, <1>8, <1>9, StepsGo DEF DeletionsGoOn

LEMMA SubscribeLinkGoesOn ==
    ASSUME PagesInv, NEW r \in Requests, P!SubscribeLink(r)
    PROVE  PagesInv'
<1>0. PagesTyped /\ RequestsShaped /\ DeletionsGoOn BY DEF PagesInv
<1> DEFINE now == request[r]   after(h) == [now EXCEPT !.step = "save", !.hooked = h]
<1>1. now \in RequestsOf /\ Shaped(r) BY <1>0 DEF PagesTyped, RequestsShaped
<1>2. /\ now.step = "hooklink" /\ UNCHANGED <<accounts, selection, heal, kept, listening, mixed, crowded, cut, apart, excused>>
      /\ wired' \in {wired, TRUE}
      /\ \/ subscribed' = subscribed \cup {LinkOf[now.on]} /\ P!Set(r, after(TRUE))
         \/ subscribed' = subscribed /\ P!Set(r, [now EXCEPT !.step = "save"])
  BY DEF P!SubscribeLink, P!outcome, P!history
<1>3. now.kind = "connect" /\ now.on \in FacebookPages /\ now.link /\ LinkOf[now.on] # Nobody /\ LinkOf[now.on] \in P!Assets
  BY <1>1, <1>2, PageLinks DEF Shaped
<1>4. PICK h \in BOOLEAN : /\ subscribed' = subscribed \cup {LinkOf[now.on]} \/ (subscribed' = subscribed /\ (h => now.hooked))
                           /\ P!Set(r, after(h))
  <2>1. now = [now EXCEPT !.hooked = now.hooked] /\ now.hooked \in BOOLEAN BY <1>1 DEF RequestsOf
  <2>2. [now EXCEPT !.step = "save"] = after(now.hooked) BY <1>1 DEF RequestsOf
  <2>3. QED BY <1>2, <2>1, <2>2
<1>5. /\ after(h) \in RequestsOf /\ after(h).step = "save" /\ after(h).hooked = h
      /\ after(h).kind = now.kind /\ after(h).on = now.on /\ after(h).tenant = now.tenant /\ after(h).place = now.place
      /\ after(h).link = now.link
  BY <1>1 DEF RequestsOf
<1> HIDE DEF after
<1>6. request' \in [Requests -> RequestsOf] /\ request'[r] = after(h) /\ \A s \in Requests \ {r} : request'[s] = request[s]
  BY <1>0, <1>4, <1>5, OneSets
<1>7. PagesTyped' BY <1>0, <1>2, <1>3, <1>4, <1>6 DEF PagesTyped
<1>8. RequestsShaped'
  <2>1. Shaped(r)' BY <1>1, <1>3, <1>5, <1>6 DEF Shaped
  <2>2. QED BY <1>0, <1>2, <1>6, <2>1, OthersShaped
<1>9. HealsOn BY <1>2, <1>4 DEF HealsOn
<1>10. \A s \in Requests : Goes(s)
  <2>1. Goes(r) BY <1>2, <1>3, <1>4, <1>5, <1>6 DEF Goes, HeardThen
  <2>2. QED BY <1>6, <2>1, WaitingGoes
<1>11. QED BY <1>0, <1>2, <1>7, <1>8, <1>9, <1>10, StepsGo DEF DeletionsGoOn

LEMMA RehookGoesOn ==
    ASSUME PagesInv, NEW r \in Requests, P!Rehook(r)
    PROVE  PagesInv'
<1>0. PagesTyped /\ RequestsShaped /\ DeletionsGoOn BY DEF PagesInv
<1>1. /\ request[r].step = "rehook" /\ UNCHANGED <<accounts, wired, selection, heal, kept, listening, mixed, crowded, cut, apart, excused>>
      /\ subscribed' = subscribed \cup {request[r].on} \/ subscribed' = subscribed
      /\ P!Set(r, P!Rest)
  BY DEF P!Rehook, P!outcome, P!history
<1>2. request[r].on \in P!Assets BY <1>0, <1>1 DEF RequestsShaped, Shaped
<1>3. request' \in [Requests -> RequestsOf] /\ request'[r] = P!Rest /\ \A s \in Requests \ {r} : request'[s] = request[s]
  BY <1>0, <1>1, RestIsARequest, OneSets
<1>4. PagesTyped' BY <1>0, <1>1, <1>2, <1>3 DEF PagesTyped
<1>5. RequestsShaped' BY <1>0, <1>1, <1>3, RestIsShaped, OthersShaped
<1>6. HealsOn BY <1>1 DEF HealsOn
<1>7. \A s \in Requests : Goes(s) BY <1>1, <1>3, WaitingGoes, EndingGoes
<1>8. QED BY <1>0, <1>1, <1>4, <1>5, <1>6, <1>7, StepsGo DEF DeletionsGoOn

LEMMA PickNextGoesOn ==
    ASSUME PagesInv, NEW r \in Requests, P!PickNext(r)
    PROVE  PagesInv'
<1>0. PagesTyped /\ RequestsShaped /\ DeletionsGoOn BY DEF PagesInv
<1> DEFINE now == request[r]
<1>1. PICK x \in now.rest : P!Set(r, [now EXCEPT !.step = "unhook", !.tenant = x[1], !.on = x[2], !.rest = @ \ {x}])
  BY DEF P!PickNext
<1>2. now.step = "pick" /\ UNCHANGED <<accounts, subscribed, wired, selection, heal, kept, listening, mixed, crowded, cut, apart, excused>>
  BY DEF P!PickNext, P!meta, P!outcome, P!history
<1>3. now \in RequestsOf /\ Shaped(r) /\ now.kind = "deletion" BY <1>0, <1>2 DEF PagesTyped, RequestsShaped, Shaped
<1>4. x \in Tenants \X P!Assets /\ x = <<x[1], x[2]>> BY <1>3 DEF RequestsOf
<1> DEFINE after == [now EXCEPT !.step = "unhook", !.tenant = x[1], !.on = x[2], !.rest = @ \ {x}]
<1>5. /\ after \in RequestsOf /\ after.kind = "deletion" /\ after.step = "unhook" /\ after.tenant = x[1] /\ after.on = x[2]
      /\ after.rest = now.rest \ {x} /\ after.by = now.by /\ after.failed = now.failed
  BY <1>3, <1>4 DEF RequestsOf
<1>6. P!Set(r, after) BY <1>1
<1> HIDE DEF after
<1>7. request' \in [Requests -> RequestsOf] /\ request'[r] = after /\ \A s \in Requests \ {r} : request'[s] = request[s]
  BY <1>0, <1>5, <1>6, OneSets
<1>8. PagesTyped' BY <1>0, <1>2, <1>7 DEF PagesTyped
<1>9. RequestsShaped'
  <2>1. Shaped(r)' BY <1>4, <1>5, <1>7 DEF Shaped
  <2>2. QED BY <1>0, <1>2, <1>7, <2>1, OthersShaped
<1>10. HealsOn BY <1>2 DEF HealsOn
<1>11. \A s \in Requests : Goes(s)
  <2>1. Ahead(now) \subseteq Ahead(after) BY <1>2, <1>4, <1>5 DEF Ahead
  <2>2. Goes(r) BY <1>2, <1>3, <1>4, <1>5, <1>7, <2>1 DEF Goes
  <2>3. QED BY <1>7, <2>2, WaitingGoes
<1>12. QED BY <1>0, <1>2, <1>8, <1>9, <1>10, <1>11, StepsGo DEF DeletionsGoOn

LEMMA FinishDeletionGoesOn ==
    ASSUME PagesInv, NEW r \in Requests, P!FinishDeletion(r)
    PROVE  PagesInv'
<1>0. PagesTyped /\ RequestsShaped /\ DeletionsGoOn BY DEF PagesInv
<1>1. /\ request[r].step = "pick" /\ request[r].rest = {} /\ P!Set(r, P!Rest)
      /\ UNCHANGED <<accounts, subscribed, wired, selection, heal, mixed, crowded, cut, apart, excused>>
      /\ \/ /\ ~request[r].failed
            /\ kept' = P!Named(request[r].by)
            /\ listening' = {x \in Tenants \X P!Assets : accounts[x[1]][x[2]].by = request[r].by /\ x[2] \in subscribed}
         \/ UNCHANGED <<kept, listening>>
  BY DEF P!FinishDeletion, P!Reported, P!meta, P!outcome, P!history
<1>2. request[r] \in RequestsOf /\ request[r].kind = "deletion" BY <1>0, <1>1 DEF PagesTyped, RequestsShaped, Shaped
<1>3. request' \in [Requests -> RequestsOf] /\ request'[r] = P!Rest /\ \A s \in Requests \ {r} : request'[s] = request[s]
  BY <1>0, <1>1, RestIsARequest, OneSets
<1>4. PagesTyped'
  <2>1. kept' \subseteq Tenants \X P!Assets /\ listening' \subseteq Tenants \X P!Assets
    <3>1. P!Named(request[r].by) \subseteq Tenants \X P!Assets BY DEF P!Named
    <3>2. QED BY <1>0, <1>1, <3>1 DEF PagesTyped
  <2>2. QED BY <1>0, <1>1, <1>3, <2>1 DEF PagesTyped
<1>5. RequestsShaped' BY <1>0, <1>1, <1>3, RestIsShaped, OthersShaped
<1>6. HealsOn BY <1>1 DEF HealsOn
<1>7. \A s \in Requests : Goes(s) BY <1>1, <1>3, WaitingGoes, EndingGoes
<1>8. kept' # {} => mixed' # {}
  <2>1. SUFFICES ASSUME mixed = {} PROVE kept' = {} BY <1>1
  <2>2. CASE UNCHANGED kept BY <1>0, <2>1, <2>2 DEF DeletionsGoOn
  <2>3. CASE ~request[r].failed /\ kept' = P!Named(request[r].by)
    <3>1. P!Named(request[r].by) \subseteq Ahead(request[r]) BY <1>0, <1>2, <2>1, <2>3 DEF DeletionsGoOn
    <3>2. Ahead(request[r]) = {} BY <1>1 DEF Ahead
    <3>3. QED BY <2>3, <3>1, <3>2
  <2>4. QED BY <1>1, <2>2, <2>3
<1>9. QED BY <1>1, <1>4, <1>5, <1>6, <1>7, <1>8, StepsGo

\* A request that fails, and a restart, cut off what they were at.
LEMMA FailuresGoOn ==
    ASSUME PagesInv, P!Restart \/ \E r \in Requests : P!FailRequest(r)
    PROVE  PagesInv'
<1>0. PagesTyped /\ RequestsShaped /\ DeletionsGoOn BY DEF PagesInv
<1>1. \A r \in Requests : request[r] \in RequestsOf /\ Shaped(r) BY <1>0 DEF PagesTyped, RequestsShaped
<1>2. \A r \in Requests : request[r].on # Nobody => request[r].on \in P!Assets /\ P!PageOf(request[r].on) \in FacebookPages
  BY <1>1, PageLinks DEF RequestsOf
<1>3. \A r \in Requests : request[r].step \in {"close", "closelink"} => request[r].on # Nobody
  BY <1>1, PageLinks DEF Shaped
<1>4. CASE P!Restart
  <2>1. /\ request' = [r \in Requests |-> P!Rest] /\ heal' = P!Asleep /\ selection' = {}
        /\ cut' = cut \cup {P!PageOf(request[r].on) : r \in {k \in Requests : request[k].on # Nobody}}
        /\ UNCHANGED <<accounts, subscribed, wired, kept, listening, mixed, crowded, apart, excused>>
    BY <1>4 DEF P!Restart, P!meta, P!outcome
  <2>2. P!Asleep \in Heals /\ P!Asleep.step = "rest" BY DEF P!Asleep, Heals
  <2>3. request' \in [Requests -> RequestsOf] BY <2>1, RestIsARequest
  <2>4. cut' \subseteq FacebookPages BY <1>0, <1>2, <2>1 DEF PagesTyped
  <2>5. PagesTyped' BY <1>0, <2>1, <2>2, <2>3, <2>4 DEF PagesTyped
  <2>6. RequestsShaped' BY <2>1, <2>2, RestIsShaped DEF RequestsShaped
  <2>7. HealsOn BY <2>1, <2>2 DEF HealsOn
  <2>8. \A r \in Requests : Goes(r) BY <1>2, <1>3, <2>1, RestIsARequest DEF Goes
  <2>9. QED BY <1>0, <2>1, <2>5, <2>6, <2>7, <2>8, StepsGo DEF DeletionsGoOn
<1>5. ASSUME NEW r \in Requests, P!FailRequest(r) PROVE PagesInv'
  <2> DEFINE now == request[r]   after == [now EXCEPT !.step = "pick", !.on = Nobody, !.failed = TRUE]
  <2>1. /\ now.on # Nobody /\ cut' = cut \cup {P!PageOf(now.on)}
        /\ UNCHANGED <<accounts, subscribed, wired, selection, heal, kept, listening, mixed, crowded, apart, excused>>
        /\ P!Set(r, IF now.kind = "deletion" THEN [P!AfterOne(r) EXCEPT !.failed = TRUE] ELSE P!Rest)
    BY <1>5 DEF P!FailRequest, P!meta, P!outcome
  <2>2. now.kind = "deletion" => [P!AfterOne(r) EXCEPT !.failed = TRUE] = after
    BY <1>1 DEF P!AfterOne, RequestsOf
  <2>3. /\ after \in RequestsOf /\ after.step = "pick" /\ after.on = Nobody /\ after.kind = now.kind /\ after.failed
    BY <1>1 DEF RequestsOf
  <2> HIDE DEF after
  <2>4. /\ request' \in [Requests -> RequestsOf] /\ \A s \in Requests \ {r} : request'[s] = request[s]
        /\ (now.kind = "deletion" /\ request'[r] = after) \/ request'[r] = P!Rest
    <3>1. CASE now.kind = "deletion" BY <1>0, <2>1, <2>2, <2>3, <3>1, OneSets
    <3>2. CASE now.kind # "deletion" BY <1>0, <2>1, <3>2, RestIsARequest, OneSets
    <3>3. QED BY <3>1, <3>2
  <2>5. PagesTyped' BY <1>0, <1>2, <2>1, <2>4 DEF PagesTyped
  <2>6. RequestsShaped'
    <3>1. now.kind = "deletion" /\ request'[r] = after => Shaped(r)' BY <2>3 DEF Shaped
    <3>2. QED BY <1>0, <2>1, <2>4, <3>1, RestIsShaped, OthersShaped
  <2>7. HealsOn BY <2>1 DEF HealsOn
  <2>8. \A s \in Requests : Goes(s)
    <3>1. now.kind = "deletion" /\ request'[r] = after => Goes(r) BY <1>2, <2>1, <2>3 DEF Goes
    <3>2. request'[r] = P!Rest => Goes(r) BY <1>2, <2>1, RestIsARequest DEF Goes
    <3>3. QED BY <2>4, <3>1, <3>2, WaitingGoes
  <2>9. QED BY <1>0, <2>1, <2>5, <2>6, <2>7, <2>8, StepsGo DEF DeletionsGoOn
<1>6. QED BY <1>4, <1>5

\* The subscription of an account ends, for every tenant who has it.
LEMMA UnsubscribeGoesOn ==
    ASSUME PagesInv, NEW r \in Requests, P!Unsubscribe(r)
    PROVE  PagesInv'
<1>0. /\ PagesTyped /\ RequestsShaped /\ AloneOn /\ PairsTogether /\ PlacesKnown /\ EventsCome /\ WithinPlan /\ DeletionsGoOn
  BY DEF PagesInv
<1> DEFINE now == request[r]   t == now.tenant   a == now.on   after == [now EXCEPT !.step = "close"]
<1>1. now \in RequestsOf /\ Shaped(r) BY <1>0 DEF PagesTyped, RequestsShaped
<1>2. /\ now.step = "unhook" /\ P!Set(r, after)
      /\ UNCHANGED <<accounts, wired, selection, heal, kept, listening, mixed, crowded, cut, apart>>
      /\ \/ /\ subscribed' = subscribed \ {a}
            /\ excused' = IF \E o \in Tenants \ {t} : P!Connected(o, a) THEN excused \cup {a} ELSE excused
         \/ UNCHANGED <<subscribed, excused>>
  BY DEF P!Unsubscribe, P!outcome
<1>3. now.kind \in {"disconnect", "deletion"} /\ a \in P!Assets /\ t \in Tenants BY <1>1, <1>2 DEF Shaped
<1>4. /\ after \in RequestsOf /\ after.step = "close" /\ after.kind = now.kind /\ after.on = a /\ after.tenant = t
      /\ after.rest = now.rest /\ after.by = now.by /\ after.failed = now.failed
  BY <1>1 DEF RequestsOf
<1>a. Ahead(now) \subseteq Ahead(after) BY <1>2, <1>4 DEF Ahead
<1> HIDE DEF after
<1>5. request' \in [Requests -> RequestsOf] /\ request'[r] = after /\ \A s \in Requests \ {r} : request'[s] = request[s]
  BY <1>0, <1>2, <1>4, OneSets
<1>6. PagesTyped' BY <1>0, <1>2, <1>5 DEF PagesTyped
<1>7. RequestsShaped'
  <2>1. Shaped(r)' BY <1>3, <1>4, <1>5 DEF Shaped
  <2>2. QED BY <1>0, <1>2, <1>5, <2>1, OthersShaped
<1>8. AloneOn'
  <2>1. \A p \in FacebookPages : P!On(p)' \subseteq P!On(p) BY <1>4, <1>5 DEF P!On
  <2>2. QED BY <1>0, <1>2, <2>1 DEF AloneOn
<1>9. PairsTogether' BY <1>0, <1>2, <1>5, PairsMove
<1>10. PlacesKnown' BY <1>0, <1>2, <1>3, <1>4, <1>5, PlacesMove
<1>11. WithinPlan' BY <1>0, <1>2, <1>3, <1>4, <1>5, PlanMoves
<1>12. DeletionsGoOn'
  <2>1. kept' # {} => mixed' # {} BY <1>0, <1>2 DEF DeletionsGoOn
  <2>2. QED BY <1>0, <1>a, <1>2, <1>4, <1>5, <2>1, DeletionsMove
<1>13. EventsCome'
  <2>0. \A b \in P!Assets : Heard(b) => b \in subscribed' \cup excused' \/ b = a BY <1>2 DEF Heard
  <2>1. r \in P!On(P!PageOf(a)) /\ P!PageOf(a) \in FacebookPages BY <1>3, PageLinks DEF P!On
  <2>2. ASSUME NEW u \in Tenants, NEW b \in P!Assets, P!PageOf(b) \in Calm, P!Connected(u, b),
               b \in P!Links => accounts[u][b].hooked
        PROVE  b \in subscribed' \cup excused' \/ Closing(u, b)'
    <3>1. CASE Closing(u, b)
      <4>1. PICK s \in Requests : request[s].step = "close" /\ request[s].tenant = u /\ request[s].on = b BY <3>1 DEF Closing
      <4>2. s # r BY <1>2, <4>1
      <4>3. QED BY <1>5, <4>1, <4>2 DEF Closing
    <3>2. CASE Heard(b)
      <4>1. CASE b # a BY <2>0, <3>2, <4>1
      <4>2. CASE b = a /\ u = t BY <1>4, <1>5, <4>2 DEF Closing
      <4>3. CASE b = a /\ u # t BY <1>2, <2>2, <3>2, <4>3 DEF Heard
      <4>4. QED BY <4>1, <4>2, <4>3
    <3>3. QED BY <1>0, <2>2, <3>1, <3>2 DEF EventsCome
  <2>3. ASSUME NEW s \in Requests, request'[s].kind = "connect", request'[s].on \in Calm
        PROVE  /\ request'[s].step # "hook" => request'[s].on \in subscribed' \cup excused'
               /\ request'[s].hooked => LinkOf[request'[s].on] \in subscribed' \cup excused'
    <3>1. s # r /\ request'[s] = request[s] BY <1>3, <1>4, <1>5, <2>3
    <3>2. request[s].on \in FacebookPages /\ s \in P!On(request[s].on) BY <2>3, <3>1, PageLinks DEF Calm, P!On
    <3>3. P!PageOf(a) # request[s].on BY <1>0, <2>1, <2>3, <3>1, <3>2 DEF AloneOn, Calm
    <3>4. request[s].on # a /\ (request[s].hooked => LinkOf[request[s].on] # a /\ LinkOf[request[s].on] \in P!Assets)
      <4>1. request[s].hooked => LinkOf[request[s].on] # Nobody BY <1>0, <2>3, <3>1 DEF RequestsShaped, Shaped
      <4>2. QED BY <3>2, <3>3, <4>1, PageLinks
    <3>5. QED BY <1>0, <2>0, <2>3, <3>1, <3>2, <3>4, PageLinks DEF EventsCome
  <2>4. ASSUME heal.step = "note", heal.ok PROVE heal.on[2] \in subscribed' \cup excused' \/ P!PageOf(heal.on[2]) \notin Calm
    <3>1. P!PageOf(a) \notin Calm BY <1>0, <2>1, <2>4 DEF AloneOn, Calm
    <3>2. heal.on[2] \in P!Assets BY <1>0, <2>4, PageLinks DEF RequestsShaped
    <3>3. QED BY <1>0, <2>0, <2>4, <3>1, <3>2 DEF EventsCome
  <2>5. Calm' = Calm BY <1>2 DEF Calm
  <2>6. \A u \in Tenants, b \in P!Assets : P!Connected(u, b)' <=> P!Connected(u, b) BY <1>2 DEF P!Connected
  <2>7. \A u \in Tenants, b \in P!Assets :
          P!PageOf(b) \in Calm' /\ P!Connected(u, b)' /\ (b \in P!Links => accounts'[u][b].hooked) =>
             b \in subscribed' \cup excused' \/ Closing(u, b)'
    BY <1>2, <2>2, <2>5, <2>6
  <2>8. heal' = heal BY <1>2
  <2>9. QED BY <2>3, <2>4, <2>5, <2>7, <2>8 DEF EventsCome, Heard
<1>14. QED BY <1>6, <1>7, <1>8, <1>9, <1>10, <1>11, <1>12, <1>13 DEF PagesInv

-----------------------------------------------------------------------------
\* The healing pass.
LEMMA HealGoesOn ==
    ASSUME PagesInv, P!HealOne \/ P!HealEnds
    PROVE  PagesInv'
<1>0. PagesTyped /\ RequestsShaped /\ DeletionsGoOn BY DEF PagesInv
<1>1. UNCHANGED <<accounts, wired, selection, request, kept, listening, mixed, crowded, cut, apart, excused>> /\ heal.step = "each"
  BY DEF P!HealOne, P!HealEnds, P!meta, P!outcome, P!history
<1>2. CASE P!HealOne
  <2>1. PICK x \in heal.rest, ok \in BOOLEAN :
          /\ heal' = [step |-> "note", rest |-> heal.rest \ {x}, on |-> x, ok |-> ok]
          /\ subscribed' = subscribed \/ subscribed' = subscribed \cup {x[2]}
          /\ ok => x[2] \in subscribed'
    <3>1. PICK x \in heal.rest :
            \/ /\ subscribed' = IF P!Missing(x) THEN subscribed \cup {x[2]} ELSE subscribed
               /\ heal' = [step |-> "note", rest |-> heal.rest \ {x}, on |-> x, ok |-> TRUE]
            \/ /\ subscribed' = subscribed
               /\ heal' = [step |-> "note", rest |-> heal.rest \ {x}, on |-> x, ok |-> FALSE]
      BY <1>2 DEF P!HealOne
    <3>2. (IF P!Missing(x) THEN subscribed \cup {x[2]} ELSE subscribed) = subscribed \cup {x[2]} BY DEF P!Missing
    <3>3. QED BY <3>1, <3>2
  <2>2. x \in Tenants \X P!Links /\ heal.rest \in SUBSET (Tenants \X P!Links) BY <1>0 DEF PagesTyped, Heals
  <2>3. x[2] \in P!Assets BY <2>2, PageLinks
  <2>4. heal' \in Heals BY <2>1, <2>2 DEF Heals
  <2>5. PagesTyped' BY <1>0, <1>1, <2>1, <2>3, <2>4 DEF PagesTyped
  <2>6. RequestsShaped' BY <1>0, <1>1, <2>1, <2>2 DEF RequestsShaped, Shaped
  <2>7. HealsOn BY <1>1, <2>1 DEF HealsOn, HeardThen
  <2>8. QED BY <1>0, <1>1, <2>5, <2>6, <2>7, WaitingGoes, StepsGo DEF DeletionsGoOn
<1>3. CASE P!HealEnds
  <2>1. heal' = P!Asleep /\ subscribed' = subscribed BY <1>3 DEF P!HealEnds, P!meta
  <2>2. P!Asleep \in Heals /\ P!Asleep.step = "rest" BY DEF P!Asleep, Heals
  <2>3. PagesTyped' BY <1>0, <1>1, <2>1, <2>2 DEF PagesTyped
  <2>4. RequestsShaped' BY <1>0, <1>1, <2>1, <2>2 DEF RequestsShaped, Shaped
  <2>5. HealsOn BY <1>1, <2>1, <2>2 DEF HealsOn
  <2>6. QED BY <1>0, <1>1, <2>1, <2>3, <2>4, <2>5, WaitingGoes, StepsGo DEF DeletionsGoOn
<1>4. QED BY <1>2, <1>3

LEMMA HealBegins ==
    ASSUME PagesInv, P!ensureInstagramRealtime
    PROVE  PagesInv'
<1>0. /\ PagesTyped /\ RequestsShaped /\ AloneOn /\ PairsTogether /\ PlacesKnown /\ EventsCome /\ WithinPlan /\ DeletionsGoOn
  BY DEF PagesInv
<1> DEFINE all == {x \in Tenants \X P!Links : P!Connected(x[1], x[2])}   woken == [P!Asleep EXCEPT !.step = "each", !.rest = all]
<1>1. /\ heal' = woken /\ UNCHANGED <<accounts, subscribed, selection, request, kept, listening, crowded, cut, apart, excused>>
      /\ mixed' = mixed \cup {p \in FacebookPages : P!On(p) # {}} /\ wired' \in BOOLEAN
  BY <1>0 DEF P!ensureInstagramRealtime, P!outcome, PagesTyped
<1>2. woken \in Heals /\ woken.step = "each" BY DEF P!Asleep, Heals
<1> HIDE DEF woken
<1>3. PagesTyped' BY <1>0, <1>1, <1>2 DEF PagesTyped
<1>4. RequestsShaped' BY <1>0, <1>1, <1>2 DEF RequestsShaped, Shaped
<1>5. \A p \in FacebookPages : P!On(p)' = P!On(p) BY <1>1 DEF P!On
<1>6. AloneOn' BY <1>1, <1>5 DEF AloneOn
<1>7. PairsTogether' BY <1>0, <1>1, PairsMove
<1>8. PlacesKnown' BY <1>0, <1>1, PlacesMove
<1>9. EventsCome' BY <1>0, <1>1, <1>2, EventsMove
<1>10. WithinPlan' BY <1>0, <1>1, PlanMoves
<1>11. DeletionsGoOn' BY <1>0, <1>1, NamesGo
<1>12. QED BY <1>3, <1>4, <1>6, <1>7, <1>8, <1>9, <1>10, <1>11 DEF PagesInv

LEMMA HealNotes ==
    ASSUME PagesInv, P!HealNote
    PROVE  PagesInv'
<1>0. /\ PagesTyped /\ RequestsShaped /\ AloneOn /\ PairsTogether /\ PlacesKnown /\ EventsCome /\ WithinPlan /\ DeletionsGoOn
  BY DEF PagesInv
<1> DEFINE t == heal.on[1]   a == heal.on[2]
<1>1. heal.step = "note" /\ UNCHANGED <<subscribed, wired, selection, request, kept, listening, mixed, crowded, cut, apart, excused>>
  BY DEF P!HealNote, P!meta, P!outcome, P!history
<1>2. t \in Tenants /\ a \in P!Links /\ a \in P!Assets /\ heal \in Heals BY <1>0, <1>1, PageLinks DEF RequestsShaped, PagesTyped
<1>3. /\ accounts' \in [Tenants -> [P!Assets -> Connections]]
      /\ \A u \in Tenants, b \in P!Assets :
           /\ accounts'[u][b].status = accounts[u][b].status /\ accounts'[u][b].active = accounts[u][b].active
           /\ accounts'[u][b].place = accounts[u][b].place /\ accounts'[u][b].by = accounts[u][b].by
           /\ \/ accounts'[u][b].hooked = accounts[u][b].hooked
              \/ u = t /\ b = a /\ accounts'[u][b].hooked = heal.ok
  <2>1. CASE accounts[t][a] = P!Absent BY <1>0, <2>1 DEF P!HealNote, PagesTyped
  <2>2. CASE accounts[t][a] # P!Absent
    <3> DEFINE c == [accounts[t][a] EXCEPT !.hooked = heal.ok]
    <3>1. accounts[t][a] \in Connections /\ heal.ok \in BOOLEAN BY <1>0, <1>2 DEF PagesTyped, Heals
    <3>2. /\ c \in Connections /\ c.status = accounts[t][a].status /\ c.active = accounts[t][a].active
          /\ c.place = accounts[t][a].place /\ c.by = accounts[t][a].by /\ c.hooked = heal.ok
      BY <3>1 DEF Connections
    <3>3. P!SetAccount(t, a, c) BY <2>2 DEF P!HealNote, P!SetAccount
    <3> HIDE DEF c
    <3>4. QED BY <1>0, <1>2, <3>2, <3>3, OneAccount
  <2>3. QED BY <2>1, <2>2
<1>4. heal' \in Heals /\ heal'.step = "each"
  <2>1. heal' = [heal EXCEPT !.step = "each", !.on = <<Nobody, Nobody>>] BY DEF P!HealNote
  <2>2. QED BY <1>2, <2>1 DEF Heals
<1>5. PagesTyped' BY <1>0, <1>1, <1>3, <1>4 DEF PagesTyped
<1>6. RequestsShaped' BY <1>0, <1>1, <1>4 DEF RequestsShaped, Shaped
<1>7. AloneOn'
  <2>1. \A p \in FacebookPages : P!On(p)' = P!On(p) BY <1>1 DEF P!On
  <2>2. QED BY <1>0, <1>1, <2>1 DEF AloneOn
<1>8. \A u \in Tenants, b \in P!Assets : P!Connected(u, b)' <=> P!Connected(u, b) BY <1>3 DEF P!Connected
<1>9. PairsTogether'
  <2>1. Quiet' = Quiet /\ \A u \in Tenants, p \in Quiet : ClosingLink(u, p)' <=> ClosingLink(u, p)
    BY <1>1 DEF Quiet, Calm, ClosingLink
  <2>2. \A u \in Tenants, b \in P!Assets : P!PageOf(b) \in Quiet' /\ P!Connected(u, b)' => accounts'[u][b].active
    BY <1>0, <1>3, <1>8, <2>1 DEF PairsTogether
  <2>3. \A u \in Tenants, p \in Quiet' :
          LinkOf[p] # Nobody /\ P!Connected(u, LinkOf[p])' =>
             \/ P!Connected(u, p)' /\ accounts'[u][p].place = accounts'[u][LinkOf[p]].place
             \/ ClosingLink(u, p)' /\ ~P!Connected(u, p)'
    BY <1>0, <1>3, <1>8, <2>1, PageLinks DEF PairsTogether, Quiet, Calm
  <2>4. QED BY <2>2, <2>3 DEF PairsTogether
<1>10. PlacesKnown'
  <2>1. \A r \in Requests : request[r].kind = "connect" => request[r].on \in P!Assets /\ request[r].tenant \in Tenants
    BY <1>0, PageLinks DEF RequestsShaped, Shaped
  <2>2. QED BY <1>0, <1>1, <1>3, <1>8, <2>1 DEF PlacesKnown, Quiet, Calm
<1>11. EventsCome'
  <2>1. Calm' = Calm /\ \A u \in Tenants, b \in P!Assets : Closing(u, b)' <=> Closing(u, b) BY <1>1 DEF Calm, Closing
  <2>2. ASSUME NEW u \in Tenants, NEW b \in P!Assets, P!PageOf(b) \in Calm, P!Connected(u, b),
               b \in P!Links => accounts'[u][b].hooked
        PROVE  Heard(b) \/ Closing(u, b)
    <3>1. CASE accounts'[u][b].hooked = accounts[u][b].hooked BY <1>0, <2>2, <3>1 DEF EventsCome
    <3>2. CASE u = t /\ b = a /\ accounts'[u][b].hooked = heal.ok BY <1>0, <1>1, <1>2, <2>2, <3>2 DEF EventsCome
    <3>3. QED BY <1>3, <3>1, <3>2
  <2>3. \A u \in Tenants, b \in P!Assets :
          P!PageOf(b) \in Calm' /\ P!Connected(u, b)' /\ (b \in P!Links => accounts'[u][b].hooked) =>
             b \in subscribed' \cup excused' \/ Closing(u, b)'
    BY <1>1, <1>8, <2>1, <2>2 DEF Heard
  <2>4. QED BY <1>0, <1>1, <1>4, <2>1, <2>3 DEF EventsCome, Heard
<1>12. WithinPlan'
  <2>1. \A u \in Tenants : Uses(u)' = Uses(u) /\ P!Used(u)' = P!Used(u)
    <3>1. SUFFICES ASSUME NEW u \in Tenants PROVE Uses(u)' = Uses(u) /\ P!Used(u)' = P!Used(u) OBVIOUS
    <3>2. {b \in P!Assets : accounts'[u][b].active} = {b \in P!Assets : accounts[u][b].active} BY <1>3
    <3>3. QED BY <3>2 DEF Uses, P!Used
  <2>2. \A r \in Requests, u \in Tenants : (Connects(r, u)' <=> Connects(r, u)) /\ Wants(r)' = Wants(r)
    BY <1>1 DEF Connects, Wants, P!Wanted
  <2>3. QED BY <1>0, <1>1, <2>1, <2>2 DEF WithinPlan
<1>13. DeletionsGoOn'
  <2>1. \A x \in Tenants \X P!Assets : /\ accounts'[x[1]][x[2]].active = accounts[x[1]][x[2]].active
                                       /\ accounts'[x[1]][x[2]].by = accounts[x[1]][x[2]].by
    BY <1>3
  <2>2. QED BY <1>0, <1>1, <2>1, NamesGo
<1>14. QED BY <1>5, <1>6, <1>7, <1>9, <1>10, <1>11, <1>12, <1>13 DEF PagesInv

-----------------------------------------------------------------------------
\* Requests that begin and connect nothing.
LEMMA RequestsBegin ==
    ASSUME PagesInv, NEW r \in Requests, NEW record \in RequestsOf, request[r] = P!Rest, P!Set(r, record),
           UNCHANGED <<accounts, subscribed, wired, selection, heal, kept, listening, crowded, cut, apart, excused>>,
           mixed \subseteq mixed', mixed' \subseteq FacebookPages, Shaped(r)',
           record.kind \in {"disconnect", "rehook"} \/ (record.kind = "deletion" /\ P!Named(record.by) \subseteq record.rest),
           \A p \in FacebookPages \ mixed' : r \in P!On(p)' => P!On(p) = {} /\ heal.step = "rest"
    PROVE  PagesInv'
<1>0. /\ PagesTyped /\ RequestsShaped /\ AloneOn /\ PairsTogether /\ PlacesKnown /\ EventsCome /\ WithinPlan /\ DeletionsGoOn
  BY DEF PagesInv
<1>1. request' \in [Requests -> RequestsOf] /\ request'[r] = record /\ \A s \in Requests \ {r} : request'[s] = request[s]
  BY <1>0, OneSets
<1>2. PagesTyped' BY <1>0, <1>1 DEF PagesTyped
<1>3. RequestsShaped' BY <1>0, <1>1, OthersShaped
<1>4. AloneOn'
  <2>1. \A p \in FacebookPages : P!On(p)' \subseteq P!On(p) \cup {r} BY <1>1 DEF P!On
  <2>2. QED BY <1>0, <2>1 DEF AloneOn
<1>5. request[r].step = "rest" BY RestIsARequest
<1>6. PairsTogether' BY <1>0, <1>1, <1>5, PairsMove
<1>7. PlacesKnown' BY <1>0, <1>1, PlacesMove
<1>8. EventsCome' BY <1>0, <1>1, <1>5, EventsMove
<1>9. WithinPlan' BY <1>0, <1>1, PlanMoves
<1>10. DeletionsGoOn'
  <2>1. kept' # {} => mixed' # {} BY <1>0 DEF DeletionsGoOn
  <2>2. QED BY <1>0, <1>1, <2>1, DeletionsMove
<1>11. QED BY <1>2, <1>3, <1>4, <1>6, <1>7, <1>8, <1>9, <1>10 DEF PagesInv

LEMMA OneRequestBegins ==
    ASSUME PagesInv, NEW r \in Requests, NEW t \in Tenants, NEW a \in P!Assets, P!disconnect(r, t, a) \/ P!Resubscribe(r, t, a)
    PROVE  PagesInv'
<1>0. PagesTyped BY DEF PagesInv
<1>1. /\ request[r] = P!Rest /\ P!Meet(P!PageOf(a))
      /\ UNCHANGED <<accounts, subscribed, wired, selection, heal, kept, listening, crowded, cut, apart, excused>>
  BY DEF P!disconnect, P!Resubscribe, P!meta, P!outcome
<1>2. PICK record \in RequestsOf :
        /\ P!Set(r, record) /\ record.tenant = t /\ record.on = a
        /\ \/ record.kind = "disconnect" /\ record.step = "unhook"
           \/ record.kind = "rehook" /\ record.step = "rehook"
  <2> DEFINE first  == [P!Rest EXCEPT !.kind = "disconnect", !.step = "unhook", !.tenant = t, !.on = a]
             second == [P!Rest EXCEPT !.kind = "rehook", !.step = "rehook", !.tenant = t, !.on = a]
  <2>1. /\ first \in RequestsOf /\ first.tenant = t /\ first.on = a
        /\ first.kind = "disconnect" /\ first.step = "unhook"
    BY DEF P!Rest, RequestsOf
  <2>2. /\ second \in RequestsOf /\ second.tenant = t /\ second.on = a
        /\ second.kind = "rehook" /\ second.step = "rehook"
    BY DEF P!Rest, RequestsOf
  <2>3. P!Set(r, first) \/ P!Set(r, second) BY DEF P!disconnect, P!Resubscribe
  <2> HIDE DEF first, second
  <2>4. QED BY <2>1, <2>2, <2>3
<1>3. request' \in [Requests -> RequestsOf] /\ request'[r] = record /\ \A s \in Requests \ {r} : request'[s] = request[s]
  BY <1>0, <1>2, OneSets
<1>4. Shaped(r)' BY <1>2, <1>3 DEF Shaped
<1>5. mixed \subseteq mixed' /\ mixed' \subseteq FacebookPages BY <1>0, <1>1, PageLinks DEF P!Meet, PagesTyped
<1>6. \A p \in FacebookPages \ mixed' : r \in P!On(p)' => P!On(p) = {} /\ heal.step = "rest"
  BY <1>1, <1>2, <1>3 DEF P!Meet, P!On
<1>7. record.kind \in {"disconnect", "rehook"} BY <1>2
<1>8. QED BY <1>1, <1>2, <1>4, <1>5, <1>6, <1>7, RequestsBegin

LEMMA DeletionBegins ==
    ASSUME PagesInv, NEW r \in Requests, NEW u \in Users, P!handleCallback(r, u)
    PROVE  PagesInv'
<1>0. PagesTyped BY DEF PagesInv
<1> DEFINE record == [P!Rest EXCEPT !.kind = "deletion", !.step = "pick", !.by = u, !.rest = P!Named(u)]
<1>1. /\ request[r] = P!Rest /\ P!Set(r, record)
      /\ mixed' = IF heal.step # "rest" \/ \E k \in Requests : request[k] # P!Rest THEN mixed \cup FacebookPages ELSE mixed
      /\ UNCHANGED <<accounts, subscribed, wired, selection, heal, kept, listening, crowded, cut, apart, excused>>
  BY DEF P!handleCallback, P!meta, P!outcome
<1>2. P!Named(u) \in SUBSET (Tenants \X P!Assets) BY DEF P!Named
<1>3. /\ record \in RequestsOf /\ record.kind = "deletion" /\ record.step = "pick" /\ record.on = Nobody
      /\ record.by = u /\ record.rest = P!Named(u)
  BY <1>2 DEF P!Rest, RequestsOf
<1> HIDE DEF record
<1>4. request'[r] = record BY <1>0, <1>1, <1>3, OneSets
<1>5. Shaped(r)' BY <1>3, <1>4 DEF Shaped
<1>6. mixed \subseteq mixed' /\ mixed' \subseteq FacebookPages BY <1>0, <1>1 DEF PagesTyped
<1>7. \A p \in FacebookPages \ mixed' : P!On(p) = {} /\ heal.step = "rest"
  BY <1>1, RestIsARequest DEF P!On
<1>8. QED BY <1>1, <1>3, <1>5, <1>6, <1>7, RequestsBegin

-----------------------------------------------------------------------------
\* How much of the plan is used.
LEMMA PlanCounted == \A T : P!Cardinality(T) = Cardinality(T)
  BY DEF P!Cardinality, Cardinality

LEMMA FewAssets == IsFiniteSet(P!Assets)
<1> DEFINE T == {LinkOf[p] : p \in FacebookPages}   f == [p \in FacebookPages |-> LinkOf[p]]
<1>0. f \in Surjection(FacebookPages, T) BY DEF Surjection
<1>1. IsFiniteSet(T) BY <1>0, PagesAssumption, FS_Surjection
<1>2. IsFiniteSet(P!Links) BY <1>1, FS_Subset DEF P!Links
<1>3. QED BY <1>2, PagesAssumption, FS_Union DEF P!Assets

LEMMA UsedCounted == ASSUME NEW t PROVE P!Used(t) = Cardinality(Uses(t)) /\ IsFiniteSet(Uses(t)) /\ Cardinality(Uses(t)) \in Nat
<1>1. IsFiniteSet(Uses(t)) BY FewAssets, FS_Subset DEF Uses
<1>2. QED BY <1>1, PlanCounted, FS_CardinalityType DEF P!Used, Uses

LEMMA ConnectionBegins ==
    ASSUME PagesInv, NEW r \in Requests, NEW t \in Tenants, NEW p \in FacebookPages, NEW w \in Places, P!connectPage(r, t, p, w)
    PROVE  PagesInv'
<1>0. /\ PagesTyped /\ RequestsShaped /\ AloneOn /\ PairsTogether /\ PlacesKnown /\ EventsCome /\ WithinPlan /\ DeletionsGoOn
  BY DEF PagesInv
<1>1. PICK link \in IF LinkOf[p] = Nobody THEN {FALSE} ELSE BOOLEAN, by \in {UserOf[t], Nobody} :
        /\ ~P!Elsewhere(t, p, link, w) /\ P!Fits(t, p, link)
        /\ P!Set(r, [P!Rest EXCEPT !.kind = "connect", !.step = "hook", !.tenant = t, !.on = p, !.place = w,
                                   !.link = link, !.by = by])
  BY DEF P!connectPage
<1>2. /\ request[r] = P!Rest /\ P!Meet(p)
      /\ crowded' = IF \E k \in Requests : request[k].kind = "connect" /\ request[k].tenant = t
                    THEN crowded \cup {t} ELSE crowded
      /\ UNCHANGED <<accounts, subscribed, wired, selection, heal, kept, listening, cut, apart, excused>>
  BY DEF P!connectPage, P!meta, P!outcome
<1> DEFINE record == [P!Rest EXCEPT !.kind = "connect", !.step = "hook", !.tenant = t, !.on = p, !.place = w,
                            !.link = link, !.by = by]
<1>3. link \in BOOLEAN /\ (link => LinkOf[p] # Nobody) /\ by \in Users \cup {Nobody} BY DEF Users
<1>4. /\ record \in RequestsOf /\ record.kind = "connect" /\ record.step = "hook" /\ record.tenant = t /\ record.on = p
      /\ record.place = w /\ record.link = link /\ ~record.hooked
  BY <1>3, PageLinks DEF P!Rest, RequestsOf
<1> HIDE DEF record
<1>5. request' \in [Requests -> RequestsOf] /\ request'[r] = record /\ \A s \in Requests \ {r} : request'[s] = request[s]
  <2>1. P!Set(r, record) BY <1>1 DEF record
  <2>2. QED BY <1>0, <1>4, <2>1, OneSets
<1>6. mixed \subseteq mixed' /\ mixed' \subseteq FacebookPages /\ crowded \subseteq crowded' /\ crowded' \subseteq Tenants
  BY <1>0, <1>2 DEF P!Meet, PagesTyped
<1>7. PagesTyped' BY <1>0, <1>2, <1>5, <1>6 DEF PagesTyped
<1>8. RequestsShaped'
  <2>1. Shaped(r)' BY <1>3, <1>4, <1>5 DEF Shaped
  <2>2. QED BY <1>0, <1>2, <1>5, <2>1, OthersShaped
<1>9. AloneOn'
  <2>1. \A q \in FacebookPages : P!On(q)' \subseteq P!On(q) \cup {r} /\ (q # p => P!On(q)' \subseteq P!On(q))
    BY <1>4, <1>5, PageLinks DEF P!On
  <2>2. p \notin mixed' => P!On(p) = {} /\ heal.step = "rest" BY <1>2 DEF P!Meet
  <2>3. QED BY <1>0, <1>2, <1>6, <2>1, <2>2 DEF AloneOn
<1>10. request[r].step = "rest" BY <1>2, RestIsARequest
<1>11. PairsTogether' BY <1>0, <1>2, <1>5, <1>6, <1>10, PairsMove
<1>12. EventsCome' BY <1>0, <1>2, <1>4, <1>5, <1>6, <1>10, EventsMove
<1>13. DeletionsGoOn'
  <2>1. kept' # {} => mixed' # {} BY <1>0, <1>2, <1>6 DEF DeletionsGoOn
  <2>2. QED BY <1>0, <1>2, <1>4, <1>5, <1>6, <2>1, DeletionsMove
<1>14. PlacesKnown'
  <2>1. p \in Quiet /\ P!Connected(t, p) => accounts[t][p].place = w
    BY <1>0, <1>1, PageLinks DEF PairsTogether, P!Elsewhere, P!Wanted
  <2>2. Quiet' \subseteq Quiet BY <1>2, <1>6 DEF Quiet, Calm
  <2>3. QED BY <1>0, <1>2, <1>4, <1>5, <2>1, <2>2 DEF PlacesKnown, P!Connected
<1>15. WithinPlan'
  <2>1. \A u : Uses(u)' = Uses(u) /\ P!Used(u)' = P!Used(u) BY <1>2 DEF Uses, P!Used
  <2>2. \A s \in Requests \ {r}, u \in Tenants : (Connects(s, u)' <=> Connects(s, u)) /\ Wants(s)' = Wants(s)
    BY <1>5 DEF Connects, Wants, P!Wanted
  <2>3. /\ \A u \in Tenants : Connects(r, u)' <=> u = t
        /\ Wants(r)' = P!Wanted(p, link)
    BY <1>4, <1>5 DEF Connects, Wants, P!Wanted
  <2>4. t \notin crowded' => t \notin crowded /\ \A s \in Requests \ {r} : ~Connects(s, t)
    BY <1>2, <1>6 DEF Connects
  <2>5. t \notin crowded => Cardinality(Uses(t) \cup P!Wanted(p, link)) <= Limit
    <3> DEFINE N == P!New(t, p, link)
    <3>1. P!Wanted(p, link) \subseteq P!Assets BY <1>3, PageLinks DEF P!Wanted
    <3>2. N \subseteq P!Assets /\ Uses(t) \cup P!Wanted(p, link) = Uses(t) \cup N BY <3>1 DEF P!New, Uses
    <3>3. IsFiniteSet(N) BY <3>2, FewAssets, FS_Subset
    <3>4. P!Used(t) = Cardinality(Uses(t)) /\ IsFiniteSet(Uses(t)) BY UsedCounted
    <3>5. P!Cardinality(N) = Cardinality(N) BY PlanCounted
    <3>6. CASE N = {} BY <1>0, <3>2, <3>4, <3>6 DEF WithinPlan
    <3>7. CASE N # {}
      <4>1. Cardinality(Uses(t)) + Cardinality(N) <= Limit BY <1>1, <3>4, <3>5, <3>7 DEF P!Fits
      <4>2. Uses(t) \cap N = {} BY DEF P!New, Uses
      <4>3. /\ Cardinality(Uses(t) \cup N) = Cardinality(Uses(t)) + Cardinality(N) - Cardinality(Uses(t) \cap N)
            /\ Cardinality(Uses(t) \cap N) = 0 /\ Cardinality(N) \in Nat /\ Cardinality(Uses(t)) \in Nat
        BY <3>3, <3>4, <4>2, FS_Union, FS_EmptySet, FS_CardinalityType
      <4>4. Cardinality(Uses(t) \cup N) <= Limit BY <4>1, <4>3
      <4>5. QED BY <3>2, <4>4
    <3>8. QED BY <3>6, <3>7
  <2>6. SUFFICES ASSUME NEW u \in Tenants \ crowded'
                 PROVE  /\ P!Used(u)' <= Limit
                        /\ \A k, s \in Requests : Connects(k, u)' /\ Connects(s, u)' => k = s
                        /\ \A s \in Requests : Connects(s, u)' => Cardinality(Uses(u)' \cup Wants(s)') <= Limit
    BY DEF WithinPlan
  <2>7. u \notin crowded /\ P!Used(u)' <= Limit BY <1>0, <1>6, <2>1 DEF WithinPlan
  <2>8. CASE u = t
    <3>1. \A s \in Requests : Connects(s, u)' => s = r BY <2>2, <2>4, <2>8
    <3>2. Cardinality(Uses(u)' \cup Wants(r)') <= Limit BY <2>1, <2>3, <2>5, <2>7, <2>8
    <3>3. QED BY <2>7, <3>1, <3>2
  <2>9. CASE u # t
    <3>1. \A s \in Requests : Connects(s, u)' => s # r /\ Connects(s, u) /\ Wants(s)' = Wants(s) BY <2>2, <2>3, <2>9
    <3>2. QED BY <1>0, <2>1, <2>7, <3>1 DEF WithinPlan
  <2>10. QED BY <2>8, <2>9
<1>16. QED BY <1>7, <1>8, <1>9, <1>11, <1>12, <1>13, <1>14, <1>15 DEF PagesInv

-----------------------------------------------------------------------------
\* A request changes the record of one account of the page it is at work on.
LEMMA RecordsGo ==
    ASSUME PagesInv, PagesTyped', RequestsShaped', NEW r \in Requests, NEW t \in Tenants, NEW a \in P!Assets,
           request[r].on \in P!Assets, P!PageOf(request[r].on) = P!PageOf(a), request[r].tenant = t,
           request[r].step \in {"save", "savelink", "close", "closelink"}, request[r].step = "close" => request[r].on = a,
           UNCHANGED <<subscribed, heal, kept, mixed, crowded, cut, apart, excused>>,
           \A u \in Tenants, b \in P!Assets : u # t \/ b # a => accounts'[u][b] = accounts[u][b],
           \A s \in Requests \ {r} : request'[s] = request[s],
           request'[r].on \in {request[r].on, Nobody},
           accounts'[t][a].status = "connected" => accounts'[t][a].active,
           P!PageOf(a) \in Quiet /\ LinkOf[P!PageOf(a)] # Nobody /\ accounts'[t][LinkOf[P!PageOf(a)]].status = "connected" =>
               \/ /\ accounts'[t][P!PageOf(a)].status = "connected"
                  /\ accounts'[t][P!PageOf(a)].place = accounts'[t][LinkOf[P!PageOf(a)]].place
               \/ /\ request'[r].step = "closelink" /\ request'[r].tenant = t /\ request'[r].on = P!PageOf(a)
                  /\ accounts'[t][P!PageOf(a)].status # "connected",
           P!PageOf(a) \in Calm /\ accounts'[t][a].status = "connected" /\ (a \in P!Links => accounts'[t][a].hooked) => Heard(a),
           accounts'[t][a].active => accounts[t][a].active \/ (request[r].kind = "connect" /\ a \in Wants(r)),
           request'[r].kind = "connect" =>
               /\ request[r].kind = "connect" /\ request[r].step = "save" /\ request'[r].on = a /\ request[r].on = a
               /\ request'[r].tenant = t /\ request'[r].link = request[r].link /\ request'[r].hooked = request[r].hooked
               /\ request'[r].place = request[r].place
               /\ accounts'[t][a].status = "connected" /\ accounts'[t][a].place = request[r].place,
           request'[r].kind = "deletion" =>
               /\ request[r].kind = "deletion" /\ request'[r].failed = request[r].failed
               /\ request'[r].by = request[r].by /\ request'[r].rest = request[r].rest
               /\ accounts'[t][a].active => accounts'[t][a] = accounts[t][a]
               /\ request[r].step = "close" => ~accounts'[t][a].active
    PROVE  PagesInv'
<1> DEFINE p == P!PageOf(a)
<1>0. /\ PagesTyped /\ RequestsShaped /\ AloneOn /\ PairsTogether /\ PlacesKnown /\ EventsCome /\ WithinPlan /\ DeletionsGoOn
  BY DEF PagesInv
<1>1. p \in FacebookPages /\ r \in P!On(p) /\ request[r].on # Nobody BY PageLinks DEF P!On
<1>2. p \notin mixed => \A s \in Requests \ {r} : s \notin P!On(p) BY <1>0, <1>1 DEF AloneOn
<1>3. Quiet' = Quiet /\ Calm' = Calm BY DEF Quiet, Calm
<1>4. \A u \in Tenants, b \in P!Assets : u # t \/ b # a =>
        /\ P!Connected(u, b)' <=> P!Connected(u, b)
        /\ accounts'[u][b].active = accounts[u][b].active /\ accounts'[u][b].place = accounts[u][b].place
        /\ accounts'[u][b].hooked = accounts[u][b].hooked
  BY DEF P!Connected
<1>5. AloneOn'
  <2>1. \A q \in FacebookPages : P!On(q)' \subseteq P!On(q) BY <1>1 DEF P!On
  <2>2. QED BY <1>0, <2>1 DEF AloneOn
<1>6. PairsTogether'
  <2>1. \A u \in Tenants, b \in P!Assets : P!PageOf(b) \in Quiet' /\ P!Connected(u, b)' => accounts'[u][b].active
    <3>1. P!Connected(t, a)' => accounts'[t][a].active BY DEF P!Connected
    <3>2. QED BY <1>0, <1>3, <1>4, <3>1 DEF PairsTogether
  <2>2. ASSUME NEW u \in Tenants, NEW q \in Quiet, LinkOf[q] # Nobody, P!Connected(u, LinkOf[q])'
        PROVE  \/ P!Connected(u, q)' /\ accounts'[u][q].place = accounts'[u][LinkOf[q]].place
               \/ ClosingLink(u, q)' /\ ~P!Connected(u, q)'
    <3>1. CASE u = t /\ q = p BY <2>2, <3>1 DEF P!Connected, ClosingLink
    <3>2. CASE u # t \/ q # p
      <4>1. q \in FacebookPages /\ q \in P!Assets /\ LinkOf[q] \in P!Assets /\ P!PageOf(q) = q /\ P!PageOf(LinkOf[q]) = q
        BY <2>2, PageLinks DEF Quiet, Calm
      <4>2. (u # t \/ q # a) /\ (u # t \/ LinkOf[q] # a) BY <3>2, <4>1
      <4>3. CASE ClosingLink(u, q) /\ ~P!Connected(u, q)
        <5>1. PICK s \in Requests : request[s].step = "closelink" /\ request[s].tenant = u /\ request[s].on = q
          BY <4>3 DEF ClosingLink
        <5>2. s # r BY <3>2, <4>1, <5>1
        <5>3. QED BY <1>4, <4>1, <4>2, <4>3, <5>1, <5>2 DEF ClosingLink
      <4>4. CASE ~(ClosingLink(u, q) /\ ~P!Connected(u, q)) BY <1>0, <1>4, <2>2, <4>1, <4>2, <4>4 DEF PairsTogether
      <4>5. QED BY <4>3, <4>4
    <3>3. QED BY <3>1, <3>2
  <2>3. QED BY <1>3, <2>1, <2>2 DEF PairsTogether
<1>7. PlacesKnown'
  <2>1. ASSUME NEW s \in Requests, request'[s].kind = "connect", request'[s].on \in Quiet
        PROVE  /\ request'[s].step = "savelink" => accounts'[request'[s].tenant][request'[s].on].status = "connected"
               /\ accounts'[request'[s].tenant][request'[s].on].status = "connected" =>
                     accounts'[request'[s].tenant][request'[s].on].place = request'[s].place
    <3>1. CASE s = r BY <2>1, <3>1
    <3>2. CASE s # r
      <4>1. request'[s] = request[s] /\ request[s].on \in FacebookPages /\ request[s].tenant \in Tenants
        BY <1>0, <2>1, <3>2 DEF Quiet, Calm, RequestsShaped, Shaped
      <4>2. s \in P!On(request[s].on) BY <4>1, PageLinks DEF P!On
      <4>3. request[s].on # p BY <1>2, <2>1, <3>2, <4>1, <4>2 DEF Quiet, Calm
      <4>4. request[s].on # a /\ request[s].on \in P!Assets BY <4>1, <4>3, PageLinks
      <4>5. accounts'[request[s].tenant][request[s].on] = accounts[request[s].tenant][request[s].on] BY <4>1, <4>4
      <4>6. QED BY <1>0, <2>1, <4>1, <4>5 DEF PlacesKnown, P!Connected
    <3>3. QED BY <3>1, <3>2
  <2>2. QED BY <1>3, <2>1 DEF PlacesKnown, P!Connected
<1>8. EventsCome'
  <2>1. ASSUME NEW u \in Tenants, NEW b \in P!Assets, P!PageOf(b) \in Calm, P!Connected(u, b)',
               b \in P!Links => accounts'[u][b].hooked
        PROVE  Heard(b) \/ Closing(u, b)'
    <3>1. CASE u = t /\ b = a BY <2>1, <3>1 DEF P!Connected
    <3>2. CASE u # t \/ b # a
      <4>1. Heard(b) \/ Closing(u, b) BY <1>0, <1>4, <2>1, <3>2 DEF EventsCome
      <4>2. ASSUME NEW s \in Requests, request[s].step = "close", request[s].tenant = u, request[s].on = b
            PROVE  Closing(u, b)'
        <5>1. s # r BY <3>2, <4>2
        <5>2. QED BY <4>2, <5>1 DEF Closing
      <4>3. QED BY <4>1, <4>2 DEF Closing
    <3>3. QED BY <3>1, <3>2
  <2>2. ASSUME NEW s \in Requests, request'[s].kind = "connect", request'[s].on \in Calm
        PROVE  /\ request'[s].step # "hook" => Heard(request'[s].on)
               /\ request'[s].hooked => Heard(LinkOf[request'[s].on])
    <3>1. request[s].kind = "connect" /\ request'[s].on = request[s].on /\ request'[s].hooked = request[s].hooked
          /\ (request'[s].step # "hook" => request[s].step # "hook")
      BY <2>2
    <3>2. QED BY <1>0, <2>2, <3>1 DEF EventsCome
  <2>3. \A b : Heard(b) <=> b \in subscribed' \cup excused' BY DEF Heard
  <2>4. \A u \in Tenants, b \in P!Assets :
          P!PageOf(b) \in Calm' /\ P!Connected(u, b)' /\ (b \in P!Links => accounts'[u][b].hooked) =>
             b \in subscribed' \cup excused' \/ Closing(u, b)'
    BY <1>3, <2>1, <2>3
  <2>5. heal'.step = "note" /\ heal'.ok => heal'.on[2] \in subscribed' \cup excused' \/ P!PageOf(heal'.on[2]) \notin Calm'
    BY <1>0, <1>3, <2>3 DEF EventsCome
  <2>6. \A s \in Requests : request'[s].kind = "connect" /\ request'[s].on \in Calm' =>
          /\ request'[s].step # "hook" => request'[s].on \in subscribed' \cup excused'
          /\ request'[s].hooked => LinkOf[request'[s].on] \in subscribed' \cup excused'
    BY <1>3, <2>2, <2>3
  <2>7. QED BY <2>4, <2>5, <2>6 DEF EventsCome, Heard
<1>9. WithinPlan'
  <2>1. \A s \in Requests, u \in Tenants : Connects(s, u)' => Connects(s, u) /\ Wants(s)' = Wants(s)
    <3>1. SUFFICES ASSUME NEW s \in Requests, NEW u \in Tenants, request'[s].kind = "connect", request'[s].tenant = u
                   PROVE  Connects(s, u) /\ Wants(s)' = Wants(s)
      BY DEF Connects
    <3>2. /\ request[s].kind = "connect" /\ request[s].tenant = u /\ request'[s].on = request[s].on
          /\ request'[s].link = request[s].link
      BY <3>1
    <3>3. QED BY <3>2 DEF Connects, Wants, P!Wanted
  <2>2. SUFFICES ASSUME NEW u \in Tenants \ crowded
                 PROVE  /\ Cardinality(Uses(u)') <= Limit
                        /\ \A s \in Requests : Connects(s, u) => Cardinality(Uses(u)' \cup Wants(s)) <= Limit
    <3>1. \A u \in Tenants : P!Used(u)' = Cardinality(Uses(u)') BY PlanCounted DEF P!Used, Uses
    <3>2. QED BY <1>0, <2>1, <3>1 DEF WithinPlan
  <2>3. \A s \in Requests : Connects(s, u) => Cardinality(Uses(u) \cup Wants(s)) <= Limit BY <1>0 DEF WithinPlan
  <2>4. Cardinality(Uses(u)) <= Limit BY <1>0, UsedCounted DEF WithinPlan
  <2>5. \A s \in Requests : Connects(s, u) => Wants(s) \subseteq P!Assets
    BY <1>0, PageLinks DEF Connects, Wants, P!Wanted, RequestsShaped, Shaped
  <2>6. \A T, V : T \subseteq V /\ V \subseteq P!Assets => Cardinality(T) <= Cardinality(V)
                  /\ Cardinality(T) \in Nat /\ Cardinality(V) \in Nat
    BY FewAssets, FS_Subset, FS_CardinalityType
  <2>7. Uses(u) \subseteq P!Assets /\ Uses(u)' \subseteq P!Assets BY DEF Uses
  <2>8. CASE Uses(u)' \subseteq Uses(u)
    <3>1. ASSUME NEW s \in Requests, Connects(s, u) PROVE Cardinality(Uses(u)' \cup Wants(s)) <= Limit
      <4>1. Uses(u)' \cup Wants(s) \subseteq Uses(u) \cup Wants(s) BY <2>8
      <4>2. Uses(u) \cup Wants(s) \subseteq P!Assets BY <2>5, <2>7, <3>1
      <4>3. Cardinality(Uses(u)' \cup Wants(s)) <= Cardinality(Uses(u) \cup Wants(s)) /\ Cardinality(Uses(u) \cup Wants(s)) \in Nat
            /\ Cardinality(Uses(u)' \cup Wants(s)) \in Nat
        BY <2>6, <4>1, <4>2
      <4>4. Cardinality(Uses(u) \cup Wants(s)) <= Limit BY <2>3, <3>1
      <4>5. QED BY <4>3, <4>4, PagesAssumption
    <3>2. Cardinality(Uses(u)') <= Limit BY <2>4, <2>6, <2>7, <2>8, PagesAssumption
    <3>3. QED BY <3>1, <3>2
  <2>9. CASE u = t /\ Connects(r, t) /\ Uses(u)' \subseteq Uses(u) \cup Wants(r)
    <3>1. \A s \in Requests : Connects(s, u) => s = r BY <1>0, <2>9 DEF WithinPlan
    <3>2. Uses(u) \cup Wants(r) \subseteq P!Assets BY <2>5, <2>7, <2>9
    <3>3. Cardinality(Uses(u) \cup Wants(r)) <= Limit BY <2>3, <2>9
    <3>4. Uses(u)' \cup Wants(r) \subseteq Uses(u) \cup Wants(r) BY <2>9
    <3>5. \A T : T \subseteq Uses(u) \cup Wants(r) => Cardinality(T) <= Limit BY <2>6, <3>2, <3>3, PagesAssumption
    <3>6. QED BY <2>9, <3>1, <3>4, <3>5
  <2>10. Uses(u)' \subseteq Uses(u) \/ (u = t /\ Connects(r, t) /\ Uses(u)' \subseteq Uses(u) \cup Wants(r))
    BY <1>4 DEF Uses, Connects
  <2>11. QED BY <2>8, <2>9, <2>10
<1>10. DeletionsGoOn'
  <2>1. ASSUME NEW s \in Requests, request'[s].kind = "deletion", ~request'[s].failed, mixed = {},
               NEW u \in Tenants, NEW b \in P!Assets, accounts'[u][b].active, accounts'[u][b].by = request'[s].by
        PROVE  <<u, b>> \in Ahead(request'[s])
    <3>1. s = r
      <4>1. SUFFICES ASSUME s # r PROVE FALSE OBVIOUS
      <4>2. s \in P!On(p) BY <2>1, <4>1 DEF P!On
      <4>3. QED BY <1>2, <2>1, <4>1, <4>2
    <3>2. /\ request[r].kind = "deletion" /\ ~request[r].failed /\ request'[r].by = request[r].by
          /\ request'[r].rest = request[r].rest
      BY <2>1, <3>1
    <3>3. accounts'[u][b] = accounts[u][b] /\ (request[r].step = "close" => u # t \/ b # a) BY <2>1, <3>1
    <3>4. <<u, b>> \in P!Named(request[r].by) BY <2>1, <3>1, <3>2, <3>3 DEF P!Named
    <3>5. <<u, b>> \in Ahead(request[r]) BY <1>0, <2>1, <3>2, <3>4 DEF DeletionsGoOn
    <3>6. <<u, b>> \in request[r].rest
      <4>1. CASE request[r].step = "close" BY <3>3, <3>5, <4>1 DEF Ahead
      <4>2. CASE request[r].step # "close" BY <3>5, <4>2 DEF Ahead
      <4>3. QED BY <4>1, <4>2
    <3>7. QED BY <3>1, <3>2, <3>6 DEF Ahead
  <2>2. ASSUME NEW s \in Requests, request'[s].kind = "deletion", ~request'[s].failed, mixed = {}
        PROVE  P!Named(request[s].by)' \subseteq Ahead(request'[s])
    BY <2>1, <2>2 DEF P!Named
  <2>3. \A s \in Requests : Ahead(request[s])' = Ahead(request'[s]) BY DEF Ahead
  <2>4. QED BY <1>0, <2>2, <2>3 DEF DeletionsGoOn
<1>11. QED BY <1>0, <1>5, <1>6, <1>7, <1>8, <1>9, <1>10 DEF PagesInv

\* The page's record, when it is connected: where its Instagram account is already.
LEMMA PageIsRecorded ==
    ASSUME PagesInv, NEW r \in Requests, P!UpsertPage(r)
    PROVE  PagesInv'
<1>0. PagesTyped /\ RequestsShaped /\ AloneOn /\ PairsTogether /\ PlacesKnown /\ EventsCome BY DEF PagesInv
<1> DEFINE now == request[r]   t == now.tenant   p == now.on   c == P!Record(r, FALSE)
           after == [now EXCEPT !.step = "savelink"]
<1>1. now \in RequestsOf /\ Shaped(r) BY <1>0 DEF PagesTyped, RequestsShaped
<1>2. /\ now.kind = "connect" /\ now.step = "save" /\ P!SetAccount(t, p, c)
      /\ IF now.link THEN P!Set(r, after) /\ selection' = selection ELSE P!Set(r, P!Rest) /\ selection' = selection \ {t}
      /\ UNCHANGED <<subscribed, wired, heal, kept, listening, mixed, crowded, cut, apart, excused>>
  BY DEF P!UpsertPage, P!meta, P!outcome, P!history
<1>3. p \in FacebookPages /\ t \in Tenants /\ (now.link => LinkOf[p] # Nobody) BY <1>1, <1>2 DEF Shaped
<1>4. p \in P!Assets /\ P!PageOf(p) = p /\ p \notin P!Links BY <1>3, PageLinks
<1>5. c \in Connections /\ c.status = "connected" /\ c.active /\ c.place = now.place
  BY <1>1, <1>3 DEF P!Record, Connections, RequestsOf, Users
<1> HIDE DEF c
<1>6. /\ accounts' \in [Tenants -> [P!Assets -> Connections]] /\ accounts'[t][p] = c
      /\ \A u \in Tenants, b \in P!Assets : u # t \/ b # p => accounts'[u][b] = accounts[u][b]
  BY <1>0, <1>2, <1>3, <1>4, <1>5, OneAccount
<1>7. /\ after \in RequestsOf /\ after.step = "savelink" /\ after.kind = now.kind /\ after.on = p /\ after.tenant = t
      /\ after.place = now.place /\ after.link = now.link /\ after.hooked = now.hooked
  BY <1>1 DEF RequestsOf
<1> HIDE DEF after
<1>8. /\ request' \in [Requests -> RequestsOf] /\ \A s \in Requests \ {r} : request'[s] = request[s]
      /\ \/ now.link /\ request'[r] = after
         \/ ~now.link /\ request'[r] = P!Rest
  <2>1. CASE now.link BY <1>0, <1>2, <1>7, <2>1, OneSets
  <2>2. CASE ~now.link BY <1>0, <1>2, <2>2, RestIsARequest, OneSets
  <2>3. QED BY <2>1, <2>2
<1>9. PagesTyped'
  <2>1. selection' \subseteq Tenants BY <1>0, <1>2 DEF PagesTyped
  <2>2. QED BY <1>0, <1>2, <1>6, <1>8, <2>1 DEF PagesTyped
<1>10. RequestsShaped'
  <2>1. now.link /\ request'[r] = after => Shaped(r)' BY <1>1, <1>2, <1>3, <1>7 DEF Shaped
  <2>2. QED BY <1>0, <1>2, <1>8, <2>1, RestIsShaped, OthersShaped
<1>11. ASSUME p \in Quiet, LinkOf[p] # Nobody, accounts'[t][LinkOf[p]].status = "connected"
       PROVE  accounts'[t][p].status = "connected" /\ accounts'[t][p].place = accounts'[t][LinkOf[p]].place
  <2>1. LinkOf[p] \in P!Assets /\ LinkOf[p] # p BY <1>3, <1>11, PageLinks
  <2>2. accounts'[t][LinkOf[p]] = accounts[t][LinkOf[p]] BY <1>3, <1>6, <2>1
  <2>3. ~ClosingLink(t, p)
    <3>1. SUFFICES ASSUME NEW s \in Requests, request[s].step = "closelink", request[s].on = p PROVE FALSE BY DEF ClosingLink
    <3>2. s \in P!On(p) /\ r \in P!On(p) BY <1>4, <3>1, PageLinks DEF P!On
    <3>3. QED BY <1>0, <1>2, <1>3, <1>11, <3>1, <3>2 DEF AloneOn, Quiet, Calm
  <2>4. P!Connected(t, LinkOf[p]) BY <1>11, <2>2 DEF P!Connected
  <2>5. P!Connected(t, p) /\ accounts[t][p].place = accounts[t][LinkOf[p]].place
    BY <1>0, <1>3, <1>11, <2>3, <2>4 DEF PairsTogether
  <2>6. accounts[t][p].place = now.place BY <1>0, <1>2, <1>11, <2>5 DEF PlacesKnown
  <2>7. QED BY <1>5, <1>6, <2>2, <2>5, <2>6
<1>12. p \in Calm => Heard(p) BY <1>0, <1>2 DEF EventsCome
<1>13. p \in Wants(r) BY DEF Wants, P!Wanted
<1>14. request'[r].on \in {p, Nobody} BY <1>7, <1>8, RestIsARequest
<1>15. request'[r].kind = "connect" => request'[r] = after BY <1>8, RestIsARequest
<1>16. request'[r].kind # "deletion" BY <1>2, <1>7, <1>8, RestIsARequest
<1>17. QED BY <1>2, <1>3, <1>4, <1>5, <1>6, <1>7, <1>8, <1>9, <1>10, <1>11, <1>12, <1>13, <1>14, <1>15, <1>16, RecordsGo

LEMMA LinkIsRecorded ==
    ASSUME PagesInv, NEW r \in Requests, P!UpsertLink(r)
    PROVE  PagesInv'
<1>0. PagesTyped /\ RequestsShaped /\ AloneOn /\ PairsTogether /\ PlacesKnown /\ EventsCome BY DEF PagesInv
<1> DEFINE now == request[r]   t == now.tenant   p == now.on   g == LinkOf[p]   c == P!Record(r, now.hooked)
<1>1. now \in RequestsOf /\ Shaped(r) BY <1>0 DEF PagesTyped, RequestsShaped
<1>2. /\ now.step = "savelink" /\ P!SetAccount(t, g, c) /\ P!Set(r, P!Rest) /\ selection' = selection \ {t}
      /\ UNCHANGED <<subscribed, wired, heal, kept, listening, mixed, crowded, cut, apart, excused>>
  BY DEF P!UpsertLink, P!meta, P!outcome, P!history
<1>3. now.kind = "connect" /\ now.link /\ p \in FacebookPages /\ t \in Tenants /\ g # Nobody BY <1>1, <1>2 DEF Shaped
<1>4. p \in P!Assets /\ P!PageOf(p) = p /\ g \in P!Assets /\ P!PageOf(g) = p /\ g # p /\ g \in P!Links BY <1>3, PageLinks
<1>5. c \in Connections /\ c.status = "connected" /\ c.active /\ c.place = now.place /\ c.hooked = now.hooked
  BY <1>1, <1>3 DEF P!Record, Connections, RequestsOf, Users
<1> HIDE DEF c
<1>6. /\ accounts' \in [Tenants -> [P!Assets -> Connections]] /\ accounts'[t][g] = c
      /\ \A u \in Tenants, b \in P!Assets : u # t \/ b # g => accounts'[u][b] = accounts[u][b]
  BY <1>0, <1>2, <1>3, <1>4, <1>5, OneAccount
<1>7. request' \in [Requests -> RequestsOf] /\ request'[r] = P!Rest /\ \A s \in Requests \ {r} : request'[s] = request[s]
  BY <1>0, <1>2, RestIsARequest, OneSets
<1>8. PagesTyped'
  <2>1. selection' \subseteq Tenants BY <1>0, <1>2 DEF PagesTyped
  <2>2. QED BY <1>0, <1>2, <1>6, <1>7, <2>1 DEF PagesTyped
<1>9. RequestsShaped' BY <1>0, <1>2, <1>7, RestIsShaped, OthersShaped
<1>10. p \in Quiet => accounts'[t][p].status = "connected" /\ accounts'[t][p].place = accounts'[t][g].place
  <2>1. accounts'[t][p] = accounts[t][p] BY <1>3, <1>4, <1>6
  <2>2. p \in Quiet => P!Connected(t, p) /\ accounts[t][p].place = now.place BY <1>0, <1>2, <1>3 DEF PlacesKnown
  <2>3. QED BY <1>5, <1>6, <2>1, <2>2 DEF P!Connected
<1>11. p \in Calm /\ now.hooked => Heard(g) BY <1>0, <1>3 DEF EventsCome
<1>12. g \in Wants(r) BY <1>3 DEF Wants, P!Wanted
<1>13. request'[r].on = Nobody /\ request'[r].kind = "none" BY <1>7, RestIsARequest
<1>14. QED BY <1>2, <1>3, <1>4, <1>5, <1>6, <1>7, <1>8, <1>9, <1>10, <1>11, <1>12, <1>13, RecordsGo

\* What a request does when it is done with an account.
LEMMA AfterOneAccount ==
    ASSUME NEW r \in Requests, request[r] \in RequestsOf, Shaped(r), request[r].step \in {"close", "closelink"}
    PROVE  /\ P!AfterOne(r) \in RequestsOf /\ P!AfterOne(r).on = Nobody
           /\ P!AfterOne(r).step \in {"rest", "pick"} /\ P!AfterOne(r).kind \in {"none", "deletion"}
           /\ request'[r] = P!AfterOne(r) => Shaped(r)'
           /\ P!AfterOne(r).kind = "deletion" =>
                 /\ request[r].kind = "deletion" /\ P!AfterOne(r).failed = request[r].failed
                 /\ P!AfterOne(r).by = request[r].by /\ P!AfterOne(r).rest = request[r].rest
<1>1. CASE request[r].kind = "deletion"
  <2> DEFINE after == [request[r] EXCEPT !.step = "pick", !.on = Nobody]
  <2>1. /\ after \in RequestsOf /\ after.on = Nobody /\ after.step = "pick" /\ after.kind = "deletion"
        /\ after.failed = request[r].failed /\ after.by = request[r].by /\ after.rest = request[r].rest
    BY <1>1 DEF RequestsOf
  <2>2. P!AfterOne(r) = after BY <1>1 DEF P!AfterOne
  <2> HIDE DEF after
  <2>3. request'[r] = after => Shaped(r)' BY <2>1 DEF Shaped
  <2>4. QED BY <1>1, <2>1, <2>2, <2>3
<1>2. CASE request[r].kind # "deletion"
  <2>1. P!AfterOne(r) = P!Rest BY <1>2 DEF P!AfterOne
  <2>2. QED BY <2>1, RestIsARequest, RestIsShaped
<1>3. QED BY <1>1, <1>2

LEMMA Closes ==
    ASSUME NEW c \in Connections
    PROVE  P!Closed(c) \in Connections /\ P!Closed(c).status = "disconnected" /\ ~P!Closed(c).active
BY DEF P!Closed, Connections

LEMMA AccountIsClosed ==
    ASSUME PagesInv, NEW r \in Requests, P!CloseAccount(r)
    PROVE  PagesInv'
<1>0. PagesTyped /\ RequestsShaped BY DEF PagesInv
<1> DEFINE now == request[r]   t == now.tenant   a == now.on   after == [now EXCEPT !.step = "closelink"]
<1>1. now \in RequestsOf /\ Shaped(r) BY <1>0 DEF PagesTyped, RequestsShaped
<1>2. /\ now.step = "close" /\ P!SetAccount(t, a, P!Closed(accounts[t][a]))
      /\ P!Set(r, IF P!Follows(a) THEN after ELSE P!AfterOne(r))
      /\ UNCHANGED <<subscribed, wired, selection, heal, kept, listening, mixed, crowded, cut, apart, excused>>
  BY DEF P!CloseAccount, P!meta, P!outcome, P!history
<1>3. a \in P!Assets /\ t \in Tenants /\ now.kind \in {"disconnect", "deletion"} BY <1>1, <1>2 DEF Shaped
<1>4. accounts[t][a] \in Connections BY <1>0, <1>3 DEF PagesTyped
<1>5. /\ accounts' \in [Tenants -> [P!Assets -> Connections]]
      /\ accounts'[t][a].status = "disconnected" /\ ~accounts'[t][a].active
      /\ \A u \in Tenants, b \in P!Assets : u # t \/ b # a => accounts'[u][b] = accounts[u][b]
  BY <1>0, <1>2, <1>3, <1>4, Closes, OneAccount
<1>6. /\ after \in RequestsOf /\ after.step = "closelink" /\ after.kind = now.kind /\ after.on = a /\ after.tenant = t
      /\ after.failed = now.failed /\ after.by = now.by /\ after.rest = now.rest
  BY <1>1 DEF RequestsOf
<1> HIDE DEF after
<1>7. /\ request' \in [Requests -> RequestsOf] /\ \A s \in Requests \ {r} : request'[s] = request[s]
      /\ \/ P!Follows(a) /\ request'[r] = after
         \/ ~P!Follows(a) /\ request'[r] = P!AfterOne(r)
  <2>1. P!AfterOne(r) \in RequestsOf BY <1>1, <1>2, AfterOneAccount
  <2>2. CASE P!Follows(a) BY <1>0, <1>2, <1>6, <2>2, OneSets
  <2>3. CASE ~P!Follows(a) BY <1>0, <1>2, <2>1, <2>3, OneSets
  <2>4. QED BY <2>2, <2>3
<1>8. PagesTyped' BY <1>0, <1>2, <1>5, <1>7 DEF PagesTyped
<1>9. RequestsShaped'
  <2>1. P!Follows(a) /\ request'[r] = after => Shaped(r)' BY <1>3, <1>6 DEF Shaped
  <2>2. request'[r] = P!AfterOne(r) => Shaped(r)' BY <1>1, <1>2, AfterOneAccount
  <2>3. QED BY <1>0, <1>2, <1>7, <2>1, <2>2, OthersShaped
<1>10. P!PageOf(a) \in FacebookPages /\ (a = P!PageOf(a) \/ a = LinkOf[P!PageOf(a)]) BY <1>3, PageLinks
<1>11. LinkOf[P!PageOf(a)] # Nobody /\ accounts'[t][LinkOf[P!PageOf(a)]].status = "connected" =>
          /\ request'[r].step = "closelink" /\ request'[r].tenant = t /\ request'[r].on = P!PageOf(a)
          /\ accounts'[t][P!PageOf(a)].status # "connected"
  BY <1>5, <1>6, <1>7, <1>10 DEF P!Follows
<1>12. request'[r].on \in {a, Nobody} /\ request'[r].kind # "connect"
  BY <1>1, <1>2, <1>3, <1>6, <1>7, AfterOneAccount
<1>13. request'[r].kind = "deletion" =>
         /\ now.kind = "deletion" /\ request'[r].failed = now.failed
         /\ request'[r].by = now.by /\ request'[r].rest = now.rest
  BY <1>1, <1>2, <1>6, <1>7, AfterOneAccount
<1>14. QED BY <1>2, <1>3, <1>5, <1>7, <1>8, <1>9, <1>11, <1>12, <1>13, RecordsGo

LEMMA LinkIsClosed ==
    ASSUME PagesInv, NEW r \in Requests, P!CloseLink(r)
    PROVE  PagesInv'
<1>0. PagesTyped /\ RequestsShaped /\ PairsTogether BY DEF PagesInv
<1> DEFINE now == request[r]   t == now.tenant   p == now.on   g == LinkOf[p]
<1>1. now \in RequestsOf /\ Shaped(r) BY <1>0 DEF PagesTyped, RequestsShaped
<1>2. /\ now.step = "closelink" /\ P!Set(r, P!AfterOne(r))
      /\ IF P!Connected(t, g) THEN P!SetAccount(t, g, P!Closed(accounts[t][g])) ELSE accounts' = accounts
      /\ UNCHANGED <<subscribed, wired, selection, heal, kept, listening, mixed, crowded, cut, apart, excused>>
  BY DEF P!CloseLink, P!meta, P!outcome, P!history
<1>3. t \in Tenants /\ p \in FacebookPages /\ g # Nobody BY <1>1, <1>2 DEF Shaped, P!Follows
<1>4. p \in P!Assets /\ P!PageOf(p) = p /\ g \in P!Assets /\ P!PageOf(g) = p /\ g # p BY <1>3, PageLinks
<1>5. accounts[t][g] \in Connections BY <1>0, <1>3, <1>4 DEF PagesTyped
<1>6. /\ accounts' \in [Tenants -> [P!Assets -> Connections]]
      /\ accounts'[t][g].status # "connected" /\ (accounts'[t][g].active => accounts[t][g].active)
      /\ accounts'[t][g].active => accounts'[t][g] = accounts[t][g]
      /\ \A u \in Tenants, b \in P!Assets : u # t \/ b # g => accounts'[u][b] = accounts[u][b]
  <2>1. CASE P!Connected(t, g) BY <1>0, <1>2, <1>3, <1>4, <1>5, <2>1, Closes, OneAccount
  <2>2. CASE ~P!Connected(t, g) BY <1>0, <1>2, <1>3, <1>4, <2>2 DEF P!Connected, PairsTogether, PagesTyped
  <2>3. QED BY <2>1, <2>2
<1>7. P!AfterOne(r) \in RequestsOf BY <1>1, <1>2, AfterOneAccount
<1>8. request' \in [Requests -> RequestsOf] /\ request'[r] = P!AfterOne(r) /\ \A s \in Requests \ {r} : request'[s] = request[s]
  BY <1>0, <1>2, <1>7, OneSets
<1>9. PagesTyped' BY <1>0, <1>2, <1>6, <1>8 DEF PagesTyped
<1>10. Shaped(r)' BY <1>1, <1>2, <1>8, AfterOneAccount
<1>11. RequestsShaped' BY <1>0, <1>2, <1>8, <1>10, OthersShaped
<1>12. request'[r].on = Nobody /\ request'[r].kind # "connect" BY <1>1, <1>2, <1>8, AfterOneAccount
<1>13. request'[r].kind = "deletion" =>
         /\ now.kind = "deletion" /\ request'[r].failed = now.failed
         /\ request'[r].by = now.by /\ request'[r].rest = now.rest
  BY <1>1, <1>2, <1>8, AfterOneAccount
<1>14. QED BY <1>2, <1>3, <1>4, <1>6, <1>8, <1>9, <1>11, <1>12, <1>13, RecordsGo

\* A record changed by itself, where no request is at work.
LEMMA RecordsAlone ==
    ASSUME PagesInv, NEW t \in Tenants, NEW a \in P!Assets, P!IntegrationsRecord(t, a)
    PROVE  PagesInv'
<1>0. /\ PagesTyped /\ RequestsShaped /\ AloneOn /\ PairsTogether /\ PlacesKnown /\ EventsCome /\ WithinPlan /\ DeletionsGoOn
  BY DEF PagesInv
<1> DEFINE p == P!PageOf(a)
<1>1. /\ apart' = IF P!Follows(a) /\ P!Connected(t, LinkOf[a]) THEN apart \cup {a} ELSE apart
      /\ P!Meet(p)
      /\ UNCHANGED <<subscribed, wired, selection, request, heal, kept, listening, crowded, cut, excused>>
  BY DEF P!IntegrationsRecord, P!meta, P!outcome
<1>2. /\ accounts' \in [Tenants -> [P!Assets -> Connections]] /\ accounts'[t][a].status # "connected"
      /\ accounts'[t][a].active => accounts[t][a].active /\ accounts'[t][a].by = accounts[t][a].by
      /\ \A u \in Tenants, b \in P!Assets : u # t \/ b # a => accounts'[u][b] = accounts[u][b]
  <2> DEFINE c == [accounts[t][a] EXCEPT !.status = "disconnected"]
  <2>1. accounts[t][a] \in Connections BY <1>0 DEF PagesTyped
  <2>2. c \in Connections /\ c.active = accounts[t][a].active /\ c.by = accounts[t][a].by /\ c.status = "disconnected"
    BY <2>1 DEF Connections
  <2>3. P!Absent \in Connections /\ ~P!Absent.active /\ P!Absent.status = "none" BY DEF P!Absent, Connections
  <2>4. P!SetAccount(t, a, c) \/ P!SetAccount(t, a, P!Absent) BY DEF P!IntegrationsRecord
  <2> HIDE DEF c
  <2>5. QED BY <1>0, <2>2, <2>3, <2>4, OneAccount
<1>3. p \in FacebookPages /\ (a = p \/ a = LinkOf[p]) BY PageLinks
<1>a. /\ mixed \subseteq mixed' /\ mixed' \subseteq FacebookPages /\ apart \subseteq apart' /\ apart' \subseteq FacebookPages
      /\ p \notin mixed' => P!On(p) = {} /\ heal.step = "rest"
  BY <1>0, <1>1, <1>3 DEF P!Meet, P!Follows, PagesTyped
<1>4. Quiet' \subseteq Quiet /\ Calm' \subseteq Calm /\ (\A q \in Calm' : q = p => P!On(q) = {})
  BY <1>1, <1>a DEF Quiet, Calm
<1>5. PagesTyped' BY <1>0, <1>1, <1>2, <1>a DEF PagesTyped
<1>6. RequestsShaped' BY <1>0, <1>1 DEF RequestsShaped, Shaped
<1>7. AloneOn'
  <2>1. \A q \in FacebookPages : P!On(q)' = P!On(q) BY <1>1 DEF P!On
  <2>2. QED BY <1>0, <1>1, <1>a, <2>1 DEF AloneOn
<1>8. \A u \in Tenants, b \in P!Assets :
         P!Connected(u, b)' => accounts'[u][b] = accounts[u][b] /\ P!Connected(u, b) /\ (u # t \/ b # a)
  BY <1>2 DEF P!Connected
<1>9. PairsTogether'
  <2>1. \A u \in Tenants, b \in P!Assets : P!PageOf(b) \in Quiet' /\ P!Connected(u, b)' => accounts'[u][b].active
    BY <1>0, <1>4, <1>8 DEF PairsTogether
  <2>2. ASSUME NEW u \in Tenants, NEW q \in Quiet', LinkOf[q] # Nobody, P!Connected(u, LinkOf[q])'
        PROVE  \/ P!Connected(u, q)' /\ accounts'[u][q].place = accounts'[u][LinkOf[q]].place
               \/ ClosingLink(u, q)' /\ ~P!Connected(u, q)'
    <3>1. /\ q \in Quiet /\ q \in FacebookPages /\ q \in P!Assets /\ P!PageOf(q) = q
          /\ LinkOf[q] \in P!Assets /\ P!PageOf(LinkOf[q]) = q
      BY <1>4, <2>2, PageLinks DEF Quiet, Calm
    <3>2. accounts'[u][LinkOf[q]] = accounts[u][LinkOf[q]] /\ P!Connected(u, LinkOf[q]) BY <1>8, <2>2, <3>1
    <3>3. u # t \/ q # a
      <4>1. SUFFICES ASSUME u = t, q = a PROVE FALSE OBVIOUS
      <4>2. P!Follows(a) /\ P!Connected(t, LinkOf[a]) BY <2>2, <3>1, <3>2, <4>1 DEF P!Follows
      <4>3. a \in apart' BY <1>1, <4>2
      <4>4. QED BY <2>2, <4>1, <4>3 DEF Quiet
    <3>4. accounts'[u][q] = accounts[u][q] BY <1>2, <3>1, <3>3
    <3>5. (P!Connected(u, q)' <=> P!Connected(u, q)) /\ (ClosingLink(u, q)' <=> ClosingLink(u, q))
      BY <1>1, <3>4 DEF P!Connected, ClosingLink
    <3>6. QED BY <1>0, <2>2, <3>1, <3>2, <3>4, <3>5 DEF PairsTogether
  <2>3. QED BY <2>1, <2>2 DEF PairsTogether
<1>10. PlacesKnown'
  <2>1. ASSUME NEW s \in Requests, request[s].kind = "connect", request[s].on \in Quiet'
        PROVE  accounts'[request[s].tenant][request[s].on] = accounts[request[s].tenant][request[s].on]
    <3>1. request[s].tenant \in Tenants /\ request[s].on \in P!Assets /\ P!PageOf(request[s].on) = request[s].on
      BY <1>0, <2>1, PageLinks DEF RequestsShaped, Shaped
    <3>2. s \in P!On(request[s].on) BY <3>1, PageLinks DEF P!On
    <3>3. request[s].on # p BY <1>4, <2>1, <3>2 DEF Quiet
    <3>4. request[s].on # a BY <3>1, <3>3
    <3>5. QED BY <1>2, <3>1, <3>4
  <2>2. QED BY <1>0, <1>1, <1>4, <2>1 DEF PlacesKnown, P!Connected
<1>11. EventsCome'
  <2>1. \A u \in Tenants, b \in P!Assets : Closing(u, b)' <=> Closing(u, b) BY <1>1 DEF Closing
  <2>2. \A u \in Tenants, b \in P!Assets :
          P!PageOf(b) \in Calm' /\ P!Connected(u, b)' /\ (b \in P!Links => accounts'[u][b].hooked) =>
             b \in subscribed' \cup excused' \/ Closing(u, b)'
    BY <1>0, <1>1, <1>4, <1>8, <2>1 DEF EventsCome, Heard
  <2>3. QED BY <1>0, <1>1, <1>4, <2>2 DEF EventsCome, Heard
<1>12. WithinPlan'
  <2>1. \A s \in Requests, u \in Tenants : (Connects(s, u)' <=> Connects(s, u)) /\ Wants(s)' = Wants(s)
    BY <1>1 DEF Connects, Wants, P!Wanted
  <2>2. SUFFICES ASSUME NEW u \in Tenants \ crowded
                 PROVE  /\ Cardinality(Uses(u)') <= Limit
                        /\ \A s \in Requests : Connects(s, u) => Cardinality(Uses(u)' \cup Wants(s)) <= Limit
    <3>1. \A v \in Tenants : P!Used(v)' = Cardinality(Uses(v)') BY PlanCounted DEF P!Used, Uses
    <3>2. QED BY <1>0, <1>1, <2>1, <3>1 DEF WithinPlan
  <2>3. Uses(u)' \subseteq Uses(u) /\ Uses(u) \subseteq P!Assets BY <1>2 DEF Uses
  <2>4. \A T, V : T \subseteq V /\ V \subseteq P!Assets => Cardinality(T) <= Cardinality(V)
                  /\ Cardinality(T) \in Nat /\ Cardinality(V) \in Nat
    BY FewAssets, FS_Subset, FS_CardinalityType
  <2>5. Cardinality(Uses(u)') <= Limit BY <1>0, <2>3, <2>4, UsedCounted, PagesAssumption DEF WithinPlan
  <2>6. ASSUME NEW s \in Requests, Connects(s, u) PROVE Cardinality(Uses(u)' \cup Wants(s)) <= Limit
    <3>1. Wants(s) \subseteq P!Assets BY <1>0, <2>6, PageLinks DEF Connects, Wants, P!Wanted, RequestsShaped, Shaped
    <3>2. Uses(u)' \cup Wants(s) \subseteq Uses(u) \cup Wants(s) /\ Uses(u) \cup Wants(s) \subseteq P!Assets BY <2>3, <3>1
    <3>3. Cardinality(Uses(u) \cup Wants(s)) <= Limit BY <1>0, <2>6 DEF WithinPlan
    <3>4. QED BY <2>4, <3>2, <3>3, PagesAssumption
  <2>7. QED BY <2>5, <2>6
<1>13. DeletionsGoOn'
  <2>1. \A u \in Tenants, b \in P!Assets :
          accounts'[u][b].active => accounts[u][b].active /\ accounts'[u][b].by = accounts[u][b].by
    BY <1>2
  <2>2. \A x \in Tenants \X P!Assets :
          accounts'[x[1]][x[2]].active => accounts[x[1]][x[2]].active /\ accounts'[x[1]][x[2]].by = accounts[x[1]][x[2]].by
    BY <2>1
  <2>3. QED BY <1>0, <1>1, <1>a, <2>2, NamesGo
<1>14. QED BY <1>5, <1>6, <1>7, <1>9, <1>10, <1>11, <1>12, <1>13 DEF PagesInv

-----------------------------------------------------------------------------
LEMMA PagesBegin == P!Init => PagesInv
<1> SUFFICES ASSUME P!Init PROVE PagesInv OBVIOUS
<1> DEFINE before == luck.before
<1>1. /\ luck \in PageScenes
      /\ accounts = [t \in Tenants |-> [a \in P!Assets |->
           IF <<t, a>> \in DOMAIN before
           THEN [status |-> "connected", active |-> TRUE, place |-> before[<<t, a>>], by |-> UserOf[t],
                 hooked |-> a \in P!Links]
           ELSE P!Absent]]
      /\ subscribed = {a \in P!Assets : \E t \in Tenants : <<t, a>> \in DOMAIN before}
      /\ wired \in BOOLEAN /\ selection \subseteq Tenants
      /\ request = [r \in Requests |-> P!Rest] /\ heal = P!Asleep
      /\ kept = {} /\ listening = {} /\ mixed = {} /\ crowded = {} /\ cut = {} /\ apart = {} /\ excused = {}
  BY DEF P!Init
<1>2. /\ \A x \in DOMAIN before : x \in Tenants \X P!Assets /\ before[x] \in Places
      /\ \A t \in Tenants, p \in FacebookPages : <<t, LinkOf[p]>> \in DOMAIN before =>
            <<t, p>> \in DOMAIN before /\ before[<<t, LinkOf[p]>>] = before[<<t, p>>]
      /\ \A t \in Tenants : Cardinality({a \in P!Assets : <<t, a>> \in DOMAIN before}) <= Limit
  BY <1>1, PagesAssumption
<1> HIDE DEF before
<1>3. \A t \in Tenants, a \in P!Assets :
        /\ accounts[t][a] \in Connections
        /\ P!Connected(t, a) <=> <<t, a>> \in DOMAIN before
        /\ accounts[t][a].active <=> <<t, a>> \in DOMAIN before
        /\ <<t, a>> \in DOMAIN before => accounts[t][a].place = before[<<t, a>>]
  <2>1. SUFFICES ASSUME NEW t \in Tenants, NEW a \in P!Assets
                 PROVE  /\ accounts[t][a] \in Connections
                        /\ accounts[t][a].status = "connected" <=> <<t, a>> \in DOMAIN before
                        /\ accounts[t][a].active <=> <<t, a>> \in DOMAIN before
                        /\ <<t, a>> \in DOMAIN before => accounts[t][a].place = before[<<t, a>>]
    BY DEF P!Connected
  <2>2. CASE <<t, a>> \in DOMAIN before
    <3>1. accounts[t][a] = [status |-> "connected", active |-> TRUE, place |-> before[<<t, a>>], by |-> UserOf[t],
                            hooked |-> a \in P!Links]
      BY <1>1, <2>2
    <3>2. before[<<t, a>>] \in Places /\ UserOf[t] \in Users /\ (a \in P!Links) \in BOOLEAN BY <1>2, <2>2 DEF Users
    <3>3. QED BY <2>2, <3>1, <3>2 DEF Connections
  <2>3. CASE <<t, a>> \notin DOMAIN before
    <3>1. accounts[t][a] = P!Absent BY <1>1, <2>3
    <3>2. P!Absent \in Connections /\ P!Absent.status # "connected" /\ ~P!Absent.active BY DEF P!Absent, Connections
    <3>3. QED BY <2>3, <3>1, <3>2
  <2>4. QED BY <2>2, <2>3
<1>4. \A r \in Requests : /\ request[r] = P!Rest /\ request[r] \in RequestsOf /\ request[r].kind = "none"
                          /\ request[r].step = "rest" /\ request[r].on = Nobody
  BY <1>1, RestIsARequest
<1>5. heal \in Heals /\ heal.step = "rest" BY <1>1 DEF P!Asleep, Heals
<1>6. PagesTyped
  <2>1. accounts \in [Tenants -> [P!Assets -> Connections]] BY <1>1, <1>3
  <2>2. request \in [Requests -> RequestsOf] BY <1>1, <1>4
  <2>3. QED BY <1>1, <1>5, <2>1, <2>2 DEF PagesTyped
<1>7. RequestsShaped BY <1>4, <1>5 DEF RequestsShaped, Shaped
<1>8. AloneOn BY <1>4, <1>5 DEF AloneOn, P!On
<1>9. PairsTogether
  <2>1. \A t \in Tenants, a \in P!Assets : accounts[t][a].active <=> P!Connected(t, a) BY <1>3
  <2>2. ASSUME NEW t \in Tenants, NEW p \in FacebookPages, LinkOf[p] # Nobody, P!Connected(t, LinkOf[p])
        PROVE  P!Connected(t, p) /\ accounts[t][p].place = accounts[t][LinkOf[p]].place
    <3>1. p \in P!Assets /\ LinkOf[p] \in P!Assets BY <2>2, PageLinks
    <3>2. <<t, LinkOf[p]>> \in DOMAIN before BY <1>3, <2>2, <3>1
    <3>3. <<t, p>> \in DOMAIN before /\ before[<<t, LinkOf[p]>>] = before[<<t, p>>] BY <1>2, <3>2
    <3>4. QED BY <1>3, <3>1, <3>2, <3>3
  <2>3. QED BY <2>1, <2>2 DEF PairsTogether, Quiet, Calm
<1>10. PlacesKnown BY <1>4 DEF PlacesKnown
<1>11. EventsCome
  <2>1. \A t \in Tenants, a \in P!Assets : P!Connected(t, a) => Heard(a) BY <1>1, <1>3 DEF Heard
  <2>2. QED BY <1>4, <1>5, <2>1 DEF EventsCome
<1>12. WithinPlan
  <2>1. \A t \in Tenants : Uses(t) = {a \in P!Assets : <<t, a>> \in DOMAIN before} BY <1>3 DEF Uses
  <2>2. \A t \in Tenants : P!Used(t) <= Limit BY <1>2, <2>1, UsedCounted
  <2>3. QED BY <1>4, <2>2 DEF WithinPlan, Connects
<1>13. DeletionsGoOn BY <1>1, <1>4 DEF DeletionsGoOn
<1>14. QED BY <1>6, <1>7, <1>8, <1>9, <1>10, <1>11, <1>12, <1>13 DEF PagesInv

LEMMA PagesStay ==
    ASSUME PagesInv, UNCHANGED pageVars
    PROVE  PagesInv'
<1>1. UNCHANGED <<accounts, subscribed, wired, selection, request, heal, kept, listening, mixed, crowded, cut, apart, excused>>
  BY DEF pageVars
<1>2. PagesTyped' BY <1>1 DEF PagesInv, PagesTyped
<1>3. RequestsShaped' BY <1>1 DEF PagesInv, RequestsShaped, Shaped
<1>4. HealsOn BY <1>1 DEF HealsOn
<1>5. \A r \in Requests : Goes(r) BY <1>1, WaitingGoes
<1>6. kept' # {} => mixed' # {} BY <1>1 DEF PagesInv, DeletionsGoOn
<1>7. QED BY <1>1, <1>2, <1>3, <1>4, <1>5, <1>6, StepsGo

LEMMA PagesGoOn ==
    ASSUME PagesInv, [P!Next]_pageVars
    PROVE  PagesInv'
<1>1. CASE P!Forget \/ \E t \in Tenants : P!exchangeToken(t) \/ P!Expire(t) BY <1>1, ChoicesGoOn
<1>2. CASE P!Restart \/ \E r \in Requests : P!FailRequest(r) BY <1>2, FailuresGoOn
<1>3. CASE P!ensureInstagramRealtime BY <1>3, HealBegins
<1>4. CASE P!Heal BY <1>4, HealGoesOn, HealNotes DEF P!Heal
<1>5. ASSUME NEW t \in Tenants, NEW a \in P!Assets, P!IntegrationsRecord(t, a) PROVE PagesInv' BY <1>5, RecordsAlone
<1>6. ASSUME NEW r \in Requests, P!Step(r) PROVE PagesInv'
  BY <1>6, SubscribePageGoesOn, SubscribeLinkGoesOn, PageIsRecorded, LinkIsRecorded, PickNextGoesOn, UnsubscribeGoesOn,
     AccountIsClosed, LinkIsClosed, FinishDeletionGoesOn, RehookGoesOn DEF P!Step
<1>7. ASSUME NEW r \in Requests, NEW t \in Tenants, NEW a \in P!Assets, P!disconnect(r, t, a) \/ P!Resubscribe(r, t, a)
      PROVE  PagesInv'
  BY <1>7, OneRequestBegins
<1>8. ASSUME NEW r \in Requests, NEW t \in Tenants, NEW p \in FacebookPages, NEW w \in Places, P!connectPage(r, t, p, w)
      PROVE  PagesInv'
  BY <1>8, ConnectionBegins
<1>9. ASSUME NEW r \in Requests, NEW t \in Tenants, P!handleCallback(r, UserOf[t]) PROVE PagesInv'
  BY <1>9, DeletionBegins DEF Users
<1>10. CASE UNCHANGED pageVars BY <1>10, PagesStay
<1>11. QED BY <1>1, <1>2, <1>3, <1>4, <1>5, <1>6, <1>7, <1>8, <1>9, <1>10 DEF P!Next

LEMMA PagesHold == PagesInv => ConnectionsInOrder /\ MetaAgrees
<1> SUFFICES ASSUME PagesInv PROVE ConnectionsInOrder /\ MetaAgrees OBVIOUS
<1>0. PagesTyped /\ RequestsShaped /\ PairsTogether /\ EventsCome /\ WithinPlan /\ DeletionsGoOn BY DEF PagesInv
<1>1. P!TypeOK
  <2>1. \A t \in Tenants, a \in P!Assets : accounts[t][a].status \in {"none", "connected", "disconnected"}
    BY <1>0 DEF PagesTyped, Connections
  <2>2. QED BY <1>0, <2>1 DEF PagesTyped, P!TypeOK
<1>2. \A t \in Tenants, p \in FacebookPages : ClosingLink(t, p) => \E r \in P!On(p) : TRUE
  BY PageLinks DEF ClosingLink, P!On
<1>3. P!PairInOnePlace BY <1>0, <1>2 DEF PairsTogether, Quiet, Calm, P!Broken, P!PairInOnePlace
<1>4. P!PairGoesTogether
  <2>1. \A t \in Tenants, p \in FacebookPages : accounts[t][p].status = "disconnected" => ~P!Connected(t, p) BY DEF P!Connected
  <2>2. QED BY <1>0, <1>2, <2>1 DEF PairsTogether, Quiet, Calm, P!Broken, P!PairGoesTogether
<1>5. P!AssetsWithinPlan BY <1>0 DEF WithinPlan, P!AssetsWithinPlan
<1>6. \A t \in Tenants, a \in P!Assets : Closing(t, a) => \E r \in P!On(P!PageOf(a)) : TRUE
  BY PageLinks DEF Closing, P!On
<1>7. P!ConnectedIsSubscribed BY <1>0, <1>6, PageLinks DEF EventsCome, Heard, Calm, P!ConnectedIsSubscribed
<1>8. P!DeletionHonoured BY <1>0 DEF DeletionsGoOn, P!DeletionHonoured
<1>9. QED BY <1>1, <1>3, <1>4, <1>5, <1>7, <1>8 DEF ConnectionsInOrder, MetaAgrees, P!ConnectionsInOrder, P!MetaAgrees

LEMMA PagesKept == MCSpec => []PagesInv
<1>1. MCInit => PagesInv BY PagesBegin DEF MCInit
<1>2. PagesInv /\ [MCNext]_<<commentVars, pageVars, turnVars, part>> => PagesInv'
  <2>1. SUFFICES ASSUME PagesInv, [MCNext]_<<commentVars, pageVars, turnVars, part>> PROVE PagesInv' OBVIOUS
  <2>2. [P!Next]_pageVars BY <2>1 DEF MCNext, Commenting, Connecting, Reminding
  <2>3. QED BY <2>1, <2>2, PagesGoOn
<1>3. QED BY <1>1, <1>2, PTL DEF MCSpec

\* Whichever tenants connect and disconnect whichever pages, delete their data, lose
\* selections and calls: a page and its Instagram account are in one workspace and go
\* together, but for pages on which requests met, on which one failed half way, or whose
\* record IntegrationsService closed or removed alone (integrations.service.ts:64); a
\* tenant whose connections came one at a time is within his plan
\* (facebook.service.ts:2035, :2202).
THEOREM ConnectionsKept == MCSpec => []ConnectionsInOrder
<1>1. PagesInv => ConnectionsInOrder BY PagesHold
<1>2. QED BY <1>1, PagesKept, PTL

\* What a record calls connected is subscribed at Meta, unless another tenant ended it,
\* Meta dropped it, requests met on the page or one failed half way; a deletion reported
\* as completed that met no request left no active account whose record names the user,
\* also where Meta did not tell who connected others (facebook.service.ts:1852, :2035,
\* meta-data-deletion.service.ts:44).
THEOREM MetaAgreesKept == MCSpec => []MetaAgrees
<1>1. PagesInv => MetaAgrees BY PagesHold
<1>2. QED BY <1>1, PagesKept, PTL
===============================================================================
