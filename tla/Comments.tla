------------------------------- MODULE Comments -------------------------------
(***************************************************************************)
(* Public comments under the posts of one Facebook page and one Instagram  *)
(* account (FacebookService): Meta announces them by webhook and the       *)
(* pollers fetch the recent ones again; both store a comment as a message  *)
(* in the thread of the person who wrote it.  Agents answer, and what they *)
(* post comes back as a comment of the account itself.                     *)
(*                                                                         *)
(* Every await between a look and a write is a step, and several handlers  *)
(* run at once.                                                            *)
(***************************************************************************)
EXTENDS Naturals, FiniteSets, Sequences

CONSTANTS
    Facebook, Instagram,  \* comments of each, replies included
    Author,               \* who writes a comment, or Page
    Page,                 \* the account itself
    Jobs,                 \* handlers at work at once
    CommentScenes         \* what happens, one record per scene

Comments == Facebook \cup Instagram
People   == {Author[c] : c \in Comments} \ {Page}
Replies  == {c \in Comments : Author[c] = Page}

Chances == {"deliveries", "syncs", "burials", "replies", "deletions", "revocations", "faults", "crashes"}

VARIABLES
    network,                      \* what Meta shows
    contacts, threads, messages,  \* what is stored, in order of creation
    recorded,                     \* replies stored: the thread of each
    connected, revoked,           \* the Facebook account and its token
    recent,                       \* a webhook arrived less than five minutes ago
    job, answer,                  \* handlers at work, replies on their way
    crossed, halved,              \* history
    chances

stored == <<contacts, threads, messages, recorded>>
account == <<connected, revoked>>
commentVars == <<network, stored, account, recent, job, answer, crossed, halved, chances>>

None == 0
Idle == [kind |-> "none", step |-> "idle", rest |-> {}, on |-> None, contact |-> None, thread |-> None]
NotAnswered == [step |-> "idle", to |-> None, known |-> None]

Init ==
    /\ chances \in CommentScenes
    /\ network = [c \in Comments |-> IF c \in chances.written THEN "soon" ELSE "none"]
    /\ contacts = <<>> /\ threads = <<>> /\ messages = <<>> /\ recorded = [r \in {} |-> None]
    /\ connected = TRUE /\ revoked = FALSE /\ recent = FALSE
    /\ job = [j \in Jobs |-> Idle] /\ answer = [r \in Replies |-> NotAnswered]
    /\ crossed = {} /\ halved = {}

Spend(kind) == chances[kind] > 0 /\ chances' = [chances EXCEPT ![kind] = @ - 1]

First(S) == CHOOSE i \in S : \A k \in S : i <= k
Set(j, record) == job' = [job EXCEPT ![j] = record]

-----------------------------------------------------------------------------
(* Meta. *)

\* A person writes.
Write ==
    /\ \E c \in Comments : network[c] = "soon" /\ network' = [network EXCEPT ![c] = "there"]
    /\ UNCHANGED <<stored, account, recent, job, answer, crossed, halved, chances>>

\* The pass asks for the ten newest posts and the first hundred comments of each,
\* without the answers below them: a comment that is there may not be in that list.
Bury(c) ==
    /\ c \in Facebook /\ network[c] = "there" /\ Spend("burials")
    /\ network' = [network EXCEPT ![c] = "below"]
    /\ UNCHANGED <<stored, account, recent, job, answer, crossed, halved>>

\* The page's administrator takes the permission back; connectPage gives it again.
Revoke ==
    /\ Spend("revocations") /\ revoked' = TRUE
    /\ UNCHANGED <<network, stored, connected, recent, job, answer, crossed, halved>>

Reconnect ==
    /\ revoked /\ revoked' = FALSE /\ connected' = TRUE
    /\ UNCHANGED <<network, stored, recent, job, answer, crossed, halved, chances>>

-----------------------------------------------------------------------------
(* Webhooks. *)

\* handleFeedComment compares ids, handleInstagramComment and the pollers names as well.
IsOwn(c) == Author[c] = Page

\* The handler starts: markWebhookReceived comes before every check but the commenter's.
Deliver(j, c) ==
    /\ job[j] = Idle /\ network[c] \in {"there", "below", "gone"} /\ Spend("deliveries")
    /\ recent' = (recent \/ c \in Facebook)
    /\ Set(j, IF IsOwn(c) \/ (c \in Facebook /\ ~connected) THEN Idle
              ELSE [Idle EXCEPT !.kind = "webhook", !.step = "check", !.on = c])
    /\ UNCHANGED <<network, stored, account, answer, crossed, halved>>

\* Five minutes without a webhook.
FallsQuiet ==
    /\ recent /\ recent' = FALSE
    /\ UNCHANGED <<network, stored, account, job, answer, crossed, halved, chances>>

-----------------------------------------------------------------------------
(* Polls. *)

Visible(c) == network[c] \in {"there", "below"}
Listed(S)  == {c \in S : network[c] = "there"}
Poll(j, S) == Set(j, [Idle EXCEPT !.kind = "poll", !.step = "next", !.rest = S])

\* syncCommentsForTenant: Meta's refusal of the token marks the account.
syncCommentsForTenant(j) ==
    /\ job[j] = Idle /\ connected
    /\ \/ revoked /\ connected' = FALSE /\ UNCHANGED job
       \/ ~revoked /\ Poll(j, Listed(Facebook)) /\ UNCHANGED connected
    /\ UNCHANGED <<network, stored, revoked, recent, answer, crossed, halved>>

\* Mutant of Skipped: a page that had a webhook once is left to webhooks.
SkippedEver == recent \/ \E i \in 1..Len(messages) : messages[i].comment \in Facebook

\* A page with a recent webhook is not polled.
Skipped == recent

\* A pass takes less than the three minutes to the next one; an agent's own comes on top.
Polling(S) == \E k \in Jobs : job[k].kind = "poll" /\ (job[k].rest \cup {job[k].on}) \cap S # {}

autoSyncComments == /\ ~Skipped /\ ~Polling(Facebook)
                    /\ (\E j \in Jobs : syncCommentsForTenant(j)) /\ UNCHANGED chances
syncComments     == (\E j \in Jobs : syncCommentsForTenant(j)) /\ Spend("syncs")

\* Only one of these runs; "since" leaves older comments out.
syncInstagramComments(j) ==
    /\ job[j] = Idle
    /\ ~Polling(Instagram)
    /\ \E S \in SUBSET Listed(Instagram) : S # {} /\ Poll(j, S)
    /\ UNCHANGED <<network, stored, account, recent, answer, crossed, halved, chances>>

\* The next comment of the list, or the end of it.
NextOfPoll(j) ==
    /\ job[j].step = "next"
    /\ \/ job[j].rest = {} /\ Set(j, Idle)
       \/ \E c \in job[j].rest :
            Set(j, [job[j] EXCEPT !.rest = @ \ {c}, !.on = IF IsOwn(c) THEN None ELSE c,
                                  !.step = IF IsOwn(c) THEN "next" ELSE "check"])
    /\ UNCHANGED <<network, stored, account, recent, answer, crossed, halved, chances>>

Done(j) == IF job[j].kind = "poll" THEN [Idle EXCEPT !.kind = "poll", !.step = "next", !.rest = job[j].rest] ELSE Idle

-----------------------------------------------------------------------------
(* Storing a comment. *)

Others(j, steps) == {k \in Jobs \ {j} : job[k].step \in steps}
HasMessage(c) == \E i \in 1..Len(messages) : messages[i].comment = c

\* Mutant of Known: the poll trusts its list.
KnownToWebhook(j) == job[j].kind = "webhook" /\ HasMessage(job[j].on)

Known(j) == HasMessage(job[j].on)

\* A message with the comment's id is looked for.
Check(j) ==
    /\ job[j].step = "check"
    /\ Set(j, IF Known(j) THEN Done(j) ELSE [job[j] EXCEPT !.step = "look"])
    /\ crossed' = IF ~Known(j) /\ \E k \in Others(j, {"look", "make", "find", "open", "save"}) : job[k].on = job[j].on
                  THEN crossed \cup {job[j].on} ELSE crossed
    /\ UNCHANGED <<network, stored, account, recent, answer, halved, chances>>

Who(j)    == Author[job[j].on]
\* The pollers see the name of an Instagram user, everything else his id.
ByName(j) == job[j].kind = "poll" /\ job[j].on \in Instagram
Contact(named, p, c) == c.who = p /\ IF named THEN c.named ELSE c.psid
ContactsOf(named, p) == {i \in 1..Len(contacts) : Contact(named, p, contacts[i])}

AfterFinding(j, found) == IF found = {} THEN "make" ELSE "find"

\* getOrCreateContact, getOrCreateInstagramContactByUsername: the search; the
\* profile that is then fetched may tell an Instagram contact's name.
LookForContact(j) ==
    /\ job[j].step = "look"
    /\ LET found == ContactsOf(ByName(j), Who(j))
       IN /\ Set(j, [job[j] EXCEPT !.step = AfterFinding(j, found), !.contact = IF found = {} THEN None ELSE First(found)])
          /\ crossed' = IF found = {} /\ \E k \in Others(j, {"make"}) : Who(k) = Who(j) /\ ByName(k) = ByName(j)
                        THEN crossed \cup {Who(j)} ELSE crossed
          /\ \/ UNCHANGED contacts
             \/ /\ found # {} /\ job[j].on \in Instagram /\ ~ByName(j)
                /\ contacts' = [contacts EXCEPT ![First(found)].named = TRUE]
    /\ UNCHANGED <<network, threads, messages, recorded, account, recent, answer, halved, chances>>

CreateContact(j) ==
    /\ job[j].step = "make"
    /\ \E named \in IF ByName(j) THEN {TRUE} ELSE IF job[j].on \in Instagram THEN BOOLEAN ELSE {FALSE} :
         contacts' = Append(contacts, [who |-> Who(j), psid |-> ~ByName(j), named |-> named])
    /\ Set(j, [job[j] EXCEPT !.step = "find", !.contact = Len(contacts) + 1])
    /\ UNCHANGED <<network, threads, messages, recorded, account, recent, answer, crossed, halved, chances>>

\* The poll uses the name where the contact has no id.
ThreadKey(j) == IF contacts[job[j].contact].psid THEN "id" ELSE "name"
ThreadsOf(p, key) == {i \in 1..Len(threads) : threads[i].who = p /\ threads[i].key = key}

\* getOrCreateCommentConversation and its Instagram twin: the search.
FindThread(j) ==
    /\ job[j].step = "find"
    /\ LET found == ThreadsOf(Who(j), ThreadKey(j))
       IN /\ Set(j, [job[j] EXCEPT !.step = IF found = {} THEN "open" ELSE "save",
                                   !.thread = IF found = {} THEN None ELSE First(found)])
          /\ crossed' = IF found = {} /\ \E k \in Others(j, {"open"}) : Who(k) = Who(j) /\ ThreadKey(k) = ThreadKey(j)
                        THEN crossed \cup {Who(j)} ELSE crossed
    /\ UNCHANGED <<network, stored, account, recent, answer, halved, chances>>

OpenThread(j) ==
    /\ job[j].step = "open"
    /\ threads' = Append(threads, [who |-> Who(j), key |-> ThreadKey(j)])
    /\ Set(j, [job[j] EXCEPT !.step = "save", !.thread = Len(threads) + 1])
    /\ UNCHANGED <<network, contacts, messages, recorded, account, recent, answer, crossed, halved, chances>>

SaveComment(j) ==
    /\ job[j].step = "save"
    /\ messages' = Append(messages, [comment |-> job[j].on, thread |-> job[j].thread, told |-> FALSE])
    /\ Set(j, [job[j] EXCEPT !.step = "tell", !.contact = Len(messages) + 1])
    /\ UNCHANGED <<network, contacts, threads, recorded, account, recent, answer, crossed, halved, chances>>

\* The thread's counter, the events of the gateway and of the automations follow the save.
Told(j) == TRUE

Tell(j) ==
    /\ job[j].step = "tell"
    /\ messages' = [messages EXCEPT ![job[j].contact].told = Told(j)]
    /\ Set(j, Done(j))
    /\ UNCHANGED <<network, contacts, threads, recorded, account, recent, answer, crossed, halved, chances>>

\* An await of a handler is refused: a webhook is gone, a poll gives the page up.
Fail(j) ==
    /\ job[j].step \notin {"idle"} /\ Spend("faults")
    /\ halved' = IF job[j].step = "tell" THEN halved \cup {job[j].on} ELSE halved
    /\ Set(j, Idle)
    /\ UNCHANGED <<network, stored, account, recent, answer, crossed>>

Work(j) == \/ NextOfPoll(j) \/ Check(j) \/ LookForContact(j) \/ CreateContact(j)
           \/ FindThread(j) \/ OpenThread(j) \/ SaveComment(j) \/ Tell(j)

-----------------------------------------------------------------------------
(* Agents. *)

ThreadOf(c) == LET stores == {i \in 1..Len(messages) : messages[i].comment = c}
               IN IF stores = {} THEN None ELSE messages[First(stores)].thread

\* replyToComment: an answer is below its comment; the message of the comment is looked for first.
AskReply(r, c) ==
    /\ answer[r].step = "idle" /\ r \in Facebook /\ c \in Facebook /\ Visible(c) /\ ~IsOwn(c) /\ connected
    /\ Spend("replies")
    /\ answer' = [answer EXCEPT ![r] = [step |-> "asked", to |-> c, known |-> ThreadOf(c)]]
    /\ UNCHANGED <<network, stored, account, recent, job, crossed, halved>>

PostReply(r) ==
    /\ answer[r].step = "asked"
    /\ \/ revoked /\ answer' = [answer EXCEPT ![r].step = "done"] /\ UNCHANGED network
       \/ ~revoked /\ answer' = [answer EXCEPT ![r].step = "posted"] /\ network' = [network EXCEPT ![r] = "below"]
    /\ UNCHANGED <<stored, account, recent, job, crossed, halved, chances>>

\* The thread of the message or, without one, any thread of the post.
Where(r) == IF answer[r].known # None THEN {answer[r].known}
            ELSE {i \in 1..Len(threads) : threads[i].who \in {Author[c] : c \in Facebook}}

SaveReply(r) ==
    /\ answer[r].step = "posted"
    /\ answer' = [answer EXCEPT ![r].step = "done"]
    /\ \/ Where(r) = {} /\ UNCHANGED recorded
       \/ \E i \in Where(r) : recorded' = [x \in DOMAIN recorded \cup {r} |-> IF x = r THEN i ELSE recorded[x]]
    /\ UNCHANGED <<network, contacts, threads, messages, account, recent, job, crossed, halved, chances>>

\* replyToInstagramComment stores nothing.
replyToInstagramComment(r) ==
    /\ r \in Instagram /\ network[r] = "none" /\ Spend("replies")
    /\ \E c \in Instagram : network[c] = "there" /\ network' = [network EXCEPT ![r] = "there"]
    /\ UNCHANGED <<stored, account, recent, job, answer, crossed, halved>>

\* deleteComment, deleteInstagramComment: what was stored stays.
deleteComment(c) ==
    /\ Visible(c) /\ (c \in Facebook => connected /\ ~revoked) /\ Spend("deletions")
    /\ network' = [network EXCEPT ![c] = "gone"]
    /\ UNCHANGED <<stored, account, recent, job, answer, crossed, halved>>

\* The process restarts; the handlers and the memory of webhooks are lost.
Crash ==
    /\ Spend("crashes")
    /\ halved' = halved \cup {job[j].on : j \in {k \in Jobs : job[k].step = "tell"}}
    /\ job' = [j \in Jobs |-> Idle] /\ recent' = FALSE
    /\ answer' = [r \in Replies |-> IF answer[r].step \in {"asked", "posted"} THEN [answer[r] EXCEPT !.step = "done"] ELSE answer[r]]
    /\ UNCHANGED <<network, stored, account, crossed>>

-----------------------------------------------------------------------------
Next ==
    \/ Write \/ Revoke \/ Reconnect \/ FallsQuiet \/ Crash
    \/ autoSyncComments \/ syncComments
    \/ \E j \in Jobs : Work(j) \/ Fail(j) \/ syncInstagramComments(j) \/ \E c \in Comments : Deliver(j, c)
    \/ \E r \in Replies : PostReply(r) \/ SaveReply(r) \/ replyToInstagramComment(r) \/ \E c \in Facebook : AskReply(r, c)
    \/ \E c \in Comments : Bury(c) \/ deleteComment(c)

\* The cron comes round, and a handler that runs gets on.
Fairness ==
    /\ WF_commentVars(autoSyncComments)
    /\ \A j \in Jobs : WF_commentVars(Work(j))

CommentsSpec == Init /\ [][Next]_commentVars /\ Fairness

-----------------------------------------------------------------------------
(* Properties. *)

\* Handlers, threads and messages are what they should be, and every message
\* has a thread of its author.
TypeOK ==
    /\ network \in [Comments -> {"none", "soon", "there", "below", "gone"}]
    /\ \A i \in 1..Len(threads) : threads[i].who \in People /\ threads[i].key \in {"id", "name"}
    /\ \A i \in 1..Len(messages) : threads[messages[i].thread].who = Author[messages[i].comment]
    /\ \A j \in Jobs : job[j].step \in {"idle", "next", "check", "look", "make", "find", "open", "save", "tell"}
    /\ {connected, revoked, recent} \subseteq BOOLEAN

\* A comment is stored once, however often webhook and polls bring it, unless two
\* handlers looked for it before either saved (no index forbids that).
CommentOnce ==
    \A i, k \in 1..Len(messages) : i # k /\ messages[i].comment = messages[k].comment => messages[i].comment \in crossed

\* A person has one contact and one thread for each way he is known by, unless two
\* handlers looked at once.
OnePerKey ==
    /\ \A i, k \in 1..Len(contacts) :
         i # k /\ contacts[i].who = contacts[k].who /\ contacts[i].psid = contacts[k].psid => contacts[i].who \in crossed
    /\ \A i, k \in 1..Len(threads) :
         i # k /\ threads[i].who = threads[k].who /\ threads[i].key = threads[k].key => threads[i].who \in crossed

\* What agents answer never comes in as a customer's comment, with or without a
\* stored reply (handleFeedComment, handleInstagramComment, the pollers).
OwnNotInbound == \A i \in 1..Len(messages) : messages[i].comment \notin Replies

\* A stored comment raised the counter and the events, unless its handler was cut
\* off right after the save.
EveryStoredTold ==
    \A i \in 1..Len(messages) :
        messages[i].told \/ messages[i].comment \in halved \/ \E j \in Jobs : job[j].step = "tell" /\ job[j].contact = i

\* A reply to a comment that was stored when the agent answered is recorded with the
\* person he answered (replyToComment).
ReplyInItsThread ==
    \A r \in DOMAIN recorded : answer[r].known # None => threads[recorded[r]].who = Author[answer[r].to]

\* What people wrote on the connected page, is in the pass's list and has not come in.
Unseen == {c \in Listed(Facebook) \ Replies : connected /\ ~HasMessage(c)}

\* While no webhook arrives, a comment the pass can list comes in sooner or later, also
\* one whose webhook failed (autoSyncComments).  Nothing is said of a page that has a
\* webhook every five minutes, nor of a comment below the list.
AllComeIn ==
    \A c \in Facebook \ Replies : (c \in Unseen /\ ~recent) ~> (c \notin Unseen \/ recent)

\* All comments from the same person go to the same conversation: not on Instagram.
SamePersonSameThread ==
    \A i, k \in 1..Len(threads) : i # k /\ threads[i].who = threads[k].who => threads[i].who \in crossed

\* A reply is recorded with the person it answers even when his comment was not stored: it is not.
EveryReplyInItsThread == \A r \in DOMAIN recorded : threads[recorded[r]].who = Author[answer[r].to]

\* Webhook, polls, replies and crashes store a customer's comment once, with one contact
\* and thread of his, tell of it, and keep replies apart from comments; handlers that
\* meet between look and save are excepted.
CommentsInOrder ==
    TypeOK /\ CommentOnce /\ OnePerKey /\ OwnNotInbound /\ EveryStoredTold /\ ReplyInItsThread
=============================================================================
