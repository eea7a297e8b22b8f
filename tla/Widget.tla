------------------------------- MODULE Widget -------------------------------
(***************************************************************************)
(* A visitor's chat: the script in his page (widget.js), the handlers of   *)
(* his requests (ChatWidgetService), the conversation they write to        *)
(* (ConversationsService) and the agents who answer, read, look at it      *)
(* (EventsGateway) and delete it.                                          *)
(*                                                                         *)
(* Every await of a handler is a step.  One visitor has a page; the        *)
(* threads of other visitors of the tenant are there from the start.       *)
(***************************************************************************)
EXTENDS Naturals, FiniteSets

CONSTANTS
    Inbound,   \* what the visitor writes
    Outbound,  \* what agents write
    Threads,   \* conversations of the tenant's web chat
    Foreign,   \* those of other visitors
    Sockets,   \* connections of agents, each used once
    Budgets    \* how often each thing happens, one record per scene

Messages == Inbound \cup Outbound

Kinds == {"loads", "posts", "replies", "opens", "drops", "losses", "marks", "removals", "joins", "crashes",
          "uploads", "typings"}

(* What an instance assumes of the constants (MCConversations): inbound and    *)
(* outbound are apart, Foreign is a set of threads and None is not one.       *)
None == "none"

VARIABLES
    convs, unread, subject,            \* the conversations
    where, status,                     \* the messages
    pc, at, generic, enriching,        \* the requests that write them
    marking, removal,                  \* an agent's markAsRead and remove
    connected, joining, viewers,       \* the gateway
    page, answer, shown, temps, mine,  \* the visitor's page
    typing,                            \* the agent is shown as typing
    wire, notes,                       \* events to it and receipts from it
    overlap, doomed, seen, late, raced, promised, crashed,  \* history
    budget

conversations == <<convs, unread, subject>>
messages      == <<where, status>>
requests      == <<pc, at, generic, enriching>>
agents        == <<marking, removal>>
gateway       == <<connected, joining, viewers>>
list          == <<answer, shown, temps, mine>>
browser       == <<page, list, typing>>
network       == <<wire, notes>>
history       == <<overlap, doomed, seen, late, raced, promised, crashed>>

vars == <<conversations, messages, requests, agents, gateway, browser, network, history, budget>>

Nobody  == "generic"
Resting == [step |-> "rest", on |-> None, ids |-> {}]

Spend(kind) == budget[kind] > 0 /\ budget' = [budget EXCEPT ![kind] = @ - 1]

\* The page is still closed or, in a scene that opens none, already there.
Init ==
    /\ convs = Foreign
    /\ unread = [c \in Threads |-> 0] /\ subject = [c \in Threads |-> Nobody]
    /\ where = [m \in Messages |-> None] /\ status = [m \in Messages |-> None]
    /\ pc = [m \in Messages |-> "idle"] /\ at = [m \in Messages |-> None]
    /\ generic = {} /\ enriching = {}
    /\ marking = Resting /\ removal = Resting
    /\ connected = {} /\ joining = {} /\ viewers = {}
    /\ budget \in Budgets
    /\ page = IF budget.loads > 0 THEN [get |-> "closed", joined |-> FALSE, open |-> FALSE]
                                  ELSE [get |-> "done", joined |-> TRUE, open |-> FALSE]
    /\ answer = {} /\ shown = [m \in Messages |-> 0] /\ temps = {} /\ mine = {}
    /\ typing = FALSE
    /\ wire = {} /\ notes = FALSE
    /\ overlap = FALSE /\ doomed = {} /\ seen = {} /\ late = {} /\ raced = {} /\ promised = {} /\ crashed = FALSE

GoTo(m, step) == pc' = [pc EXCEPT ![m] = step]

\* Requests of the visitor that the server is still working on.
Running == {m \in Inbound : pc[m] \notin {"idle", "answer", "refused", "done"}} \cup enriching

-----------------------------------------------------------------------------
(* The page. *)

\* init: the page is opened or opened again; what was on its way is forgotten.
LoadPage ==
    /\ Spend("loads")
    /\ page' = [get |-> "asked", joined |-> FALSE, open |-> FALSE]
    /\ answer' = {} /\ shown' = [m \in Messages |-> 0] /\ temps' = {} /\ mine' = {}
    /\ wire' = {} /\ promised' = {} /\ typing' = FALSE
    /\ UNCHANGED <<conversations, messages, requests, agents, gateway, notes,
                   overlap, doomed, seen, late, raced, crashed>>

\* getWidgetConversationMessages: the messages of the thread that is found.
findByWidgetVisitor == convs \ Foreign

AnswerLoad ==
    /\ page.get = "asked"
    /\ page' = [page EXCEPT !.get = "answered"]
    /\ \/ \E c \in findByWidgetVisitor : answer' = {m \in Messages : where[m] = c}
       \/ findByWidgetVisitor = {} /\ answer' = {}
    /\ UNCHANGED <<conversations, messages, requests, agents, gateway, typing, shown, temps, mine,
                   network, history, budget>>

\* loadMessages overwrites the list with what came back.
loadMessages ==
    /\ page.get = "answered"
    /\ page' = [page EXCEPT !.get = "done"]
    /\ shown' = [m \in Messages |-> IF m \in answer THEN 1 ELSE 0]
    /\ temps' = {} /\ answer' = {}
    /\ notes' = (notes \/ page.open)
    /\ UNCHANGED <<conversations, messages, requests, agents, gateway, typing, mine, wire, history, budget>>

LoadFails ==
    /\ page.get = "asked" /\ Spend("losses")
    /\ page' = [page EXCEPT !.get = "done"]
    /\ UNCHANGED <<conversations, messages, requests, agents, gateway, typing, list,
                   network, history>>

\* initSocket: on every connect the page joins the visitor's room.
Connect ==
    /\ page.get # "closed" /\ ~page.joined
    /\ page' = [page EXCEPT !.joined = TRUE]
    /\ UNCHANGED <<conversations, messages, requests, agents, gateway, typing, list,
                   network, history, budget>>

\* The connection drops: what is on the wire is lost, nothing is asked again.
Drop ==
    /\ page.joined /\ Spend("drops")
    /\ page' = [page EXCEPT !.joined = FALSE]
    /\ wire' = {} /\ promised' = promised \ wire
    /\ UNCHANGED <<conversations, messages, requests, agents, gateway, typing, list,
                   notes, overlap, doomed, seen, late, raced, crashed>>

toggleChat ==
    /\ page.get # "closed" /\ Spend("opens")
    /\ page' = [page EXCEPT !.open = ~@]
    /\ notes' = (notes \/ ~page.open)
    /\ typing' = (typing /\ ~page.open)
    /\ UNCHANGED <<conversations, messages, requests, agents, gateway, list,
                   wire, history>>

\* Mutant of ReceivedAs: the list is not searched for the id.
ReceivedTwice(a) == shown[a] + 1

\* widget:message:new: a message whose id is in the list is merged into it.
ReceivedAs(a) == IF shown[a] = 0 THEN 1 ELSE shown[a]

\* Mutant of Receive: nothing is listed while the chat is closed.
ReceiveIfOpen(a) ==
    /\ a \in wire
    /\ wire' = wire \ {a}
    /\ shown' = [shown EXCEPT ![a] = IF page.open THEN ReceivedAs(a) ELSE @]
    /\ notes' = (notes \/ page.open)
    /\ UNCHANGED <<conversations, messages, requests, agents, gateway, page, typing, answer, temps, mine,
                   history, budget>>

Receive(a) ==
    /\ a \in wire
    /\ wire' = wire \ {a}
    /\ shown' = [shown EXCEPT ![a] = ReceivedAs(a)]
    /\ notes' = (notes \/ (page.open /\ shown[a] = 0))
    /\ typing' = FALSE
    /\ UNCHANGED <<conversations, messages, requests, agents, gateway, page, answer, temps, mine,
                   history, budget>>

\* setAdminTyping: what the agent's page says; TRUE sets a timer.
setAdminTyping ==
    /\ page.joined /\ Spend("typings")
    /\ typing' \in BOOLEAN
    /\ UNCHANGED <<conversations, messages, requests, agents, gateway, page, list, network, history>>

adminTypingTimeout ==
    /\ typing
    /\ typing' = FALSE
    /\ UNCHANGED <<conversations, messages, requests, agents, gateway, page, list, network, history, budget>>

\* sendMessage: a temporary bubble and the request.
sendMessage(m) ==
    /\ page.get # "closed" /\ pc[m] = "idle" /\ Spend("posts")
    /\ temps' = temps \cup {m} /\ mine' = mine \cup {m}
    /\ GoTo(m, "find")
    /\ raced' = IF page.get = "done" THEN raced ELSE raced \cup {m}
    /\ overlap' = (overlap \/ Running # {})
    /\ UNCHANGED <<conversations, messages, at, generic, enriching, agents, gateway, page, typing, answer,
                   shown, network, doomed, seen, late, promised, crashed>>

\* sendImageWithCaption uploads the image before the same request.
sendImageWithCaption(m) ==
    /\ page.get # "closed" /\ pc[m] = "idle" /\ Spend("uploads")
    /\ temps' = temps \cup {m} /\ mine' = mine \cup {m}
    /\ GoTo(m, "upload")
    /\ raced' = IF page.get = "done" THEN raced ELSE raced \cup {m}
    /\ overlap' = (overlap \/ Running # {})
    /\ UNCHANGED <<conversations, messages, at, generic, enriching, agents, gateway, page, typing, answer,
                   shown, network, doomed, seen, late, promised, crashed>>

\* The upload is over: the page that began it posts the message.
Uploaded(m) ==
    /\ pc[m] = "upload"
    /\ GoTo(m, IF m \in mine THEN "find" ELSE "done")
    /\ UNCHANGED <<conversations, messages, at, generic, enriching, agents, gateway, browser,
                   network, history, budget>>

\* The answer: every temporary bubble goes, the stored message is added.
Answered(m) ==
    /\ pc[m] = "answer"
    /\ GoTo(m, "done")
    /\ IF m \in mine
       THEN temps' = {} /\ shown' = [shown EXCEPT ![m] = @ + 1] /\ typing' = FALSE
       ELSE UNCHANGED <<temps, shown, typing>>
    /\ UNCHANGED <<conversations, messages, at, generic, enriching, agents, gateway, page, answer,
                   mine, network, history, budget>>

\* Refused: response.ok is false and nothing is done; the bubble stays.
AnsweredWithError(m) ==
    /\ pc[m] = "refused"
    /\ GoTo(m, "done")
    /\ UNCHANGED <<conversations, messages, at, generic, enriching, agents, gateway, browser,
                   network, history, budget>>

\* fetch throws: the bubbles go; the server may have got the request or not.
RequestLost(m) ==
    /\ m \in mine /\ pc[m] # "done" /\ Spend("losses")
    /\ mine' = mine \ {m} /\ temps' = {}
    /\ \/ pc[m] \in {"upload", "find"} /\ GoTo(m, "done")
       \/ pc[m] # "upload" /\ UNCHANGED pc
    /\ UNCHANGED <<conversations, messages, at, generic, enriching, agents, gateway, page, typing, answer,
                   shown, network, history>>

-----------------------------------------------------------------------------
(* handleWidgetMessage and addMessage. *)

\* The widget is disabled, or the visitor writes too often.
Refused(m) ==
    /\ m \in Inbound /\ pc[m] = "find" /\ Spend("losses")
    /\ GoTo(m, "refused")
    /\ UNCHANGED <<conversations, messages, at, generic, enriching, agents, gateway, browser,
                   network, history>>

Find(m) ==
    /\ m \in Inbound /\ pc[m] = "find"
    /\ \/ \E c \in findByWidgetVisitor :
              /\ at' = [at EXCEPT ![m] = c]
              /\ generic' = IF subject[c] = Nobody THEN generic \cup {m} ELSE generic
              /\ GoTo(m, "load")
       \/ findByWidgetVisitor = {} /\ GoTo(m, "create") /\ UNCHANGED <<at, generic>>
    /\ UNCHANGED <<conversations, messages, enriching, agents, gateway, browser,
                   network, history, budget>>

\* createWidgetContact and create: a thread with the visitor's id.
Create(m) ==
    /\ pc[m] = "create"
    /\ \E c \in Threads \ convs :
           /\ c \notin Foreign
           /\ \A n \in Messages : at[n] # c
           /\ convs' = convs \cup {c}
           /\ unread' = [unread EXCEPT ![c] = 0]
           /\ subject' = [subject EXCEPT ![c] = Nobody]
           /\ at' = [at EXCEPT ![m] = c]
    /\ generic' = generic \cup {m}
    /\ GoTo(m, "load")
    /\ UNCHANGED <<messages, enriching, agents, gateway, browser, network, history, budget>>

\* findById in addMessage, findOne in an agent's sendMessage.
LoadThread(m) ==
    /\ pc[m] = "load"
    /\ GoTo(m, IF at[m] \in convs THEN "save" ELSE "refused")
    /\ UNCHANGED <<conversations, messages, at, generic, enriching, agents, gateway, browser,
                   network, history, budget>>

Save(m) ==
    /\ pc[m] = "save"
    /\ where' = [where EXCEPT ![m] = at[m]]
    /\ status' = [status EXCEPT ![m] = IF m \in Inbound THEN "delivered" ELSE "sent"]
    /\ GoTo(m, IF m \in Inbound THEN "look" ELSE "emit")
    /\ UNCHANGED <<conversations, at, generic, enriching, agents, gateway, browser, network,
                   history, budget>>

isConversationBeingViewed(c) == \E s \in Sockets : <<s, c>> \in viewers

\* shouldIncrementUnread is decided, then the conversation is updated.
Look(m) ==
    /\ pc[m] = "look"
    /\ IF isConversationBeingViewed(at[m])
       THEN GoTo(m, "answer") /\ enriching' = enriching \cup {m} /\ seen' = seen \cup {m}
       ELSE GoTo(m, "count") /\ UNCHANGED <<enriching, seen>>
    /\ UNCHANGED <<conversations, messages, at, generic, agents, gateway, browser, network,
                   overlap, doomed, late, raced, promised, crashed, budget>>

Count(m) ==
    /\ pc[m] = "count"
    /\ unread' = IF at[m] \in convs THEN [unread EXCEPT ![at[m]] = @ + 1] ELSE unread
    /\ GoTo(m, "answer")
    /\ enriching' = enriching \cup {m}
    /\ UNCHANGED <<convs, subject, messages, at, generic, agents, gateway, browser, network,
                   history, budget>>

\* isGenericSubject, of the conversation as it was loaded.
SubjectFree(m) == m \in generic

\* autoEnrichContact, which nobody waits for.
Enrich(m) ==
    /\ m \in enriching
    /\ enriching' = enriching \ {m}
    /\ subject' = IF SubjectFree(m) /\ at[m] \in convs THEN [subject EXCEPT ![at[m]] = m] ELSE subject
    /\ UNCHANGED <<convs, unread, messages, pc, at, generic, agents, gateway, browser, network,
                   history, budget>>

-----------------------------------------------------------------------------
(* What agents do. *)

\* ConversationsService.sendMessage in a web chat.
Reply(a, c) ==
    /\ a \in Outbound /\ pc[a] = "idle" /\ c \in convs /\ Spend("replies")
    /\ at' = [at EXCEPT ![a] = c]
    /\ GoTo(a, "load")
    /\ UNCHANGED <<conversations, messages, generic, enriching, agents, gateway, browser, network,
                   history>>

\* The conversation is updated and, if it is still there, the page is told.
Emit(a) ==
    /\ pc[a] = "emit"
    /\ GoTo(a, "done")
    /\ IF at[a] \in findByWidgetVisitor /\ page.joined
       THEN /\ wire' = wire \cup {a}
            /\ promised' = IF page.get = "done" THEN promised \cup {a} ELSE promised
       ELSE UNCHANGED <<wire, promised>>
    /\ UNCHANGED <<conversations, messages, at, generic, enriching, agents, gateway, browser, notes,
                   overlap, doomed, seen, late, raced, crashed, budget>>

\* markAsRead: the counter first, then the messages.
markAsRead(c) ==
    /\ marking = Resting /\ c \in convs /\ Spend("marks")
    /\ marking' = [Resting EXCEPT !.step = "reset", !.on = c]
    /\ UNCHANGED <<conversations, messages, requests, removal, gateway, browser, network, history>>

MarkMessages(c) ==
    status' = [m \in Messages |-> IF m \in Inbound /\ where[m] = c THEN "read" ELSE status[m]]

ResetCounter(c) == unread' = IF c \in convs THEN [unread EXCEPT ![c] = 0] ELSE unread

\* Mutant of MarkEffect: the messages are marked before the counter is reset.
MarkEffectSwapped(step, c) ==
    IF step = "reset" THEN MarkMessages(c) /\ UNCHANGED unread ELSE ResetCounter(c) /\ UNCHANGED status

MarkEffect(step, c) ==
    IF step = "reset" THEN ResetCounter(c) /\ UNCHANGED status ELSE MarkMessages(c) /\ UNCHANGED unread

MarkStep ==
    /\ marking.step \in {"reset", "update"}
    /\ MarkEffect(marking.step, marking.on)
    /\ marking' = IF marking.step = "reset" THEN [marking EXCEPT !.step = "update"] ELSE Resting
    /\ UNCHANGED <<convs, subject, where, requests, removal, gateway, browser, network, history, budget>>

\* The filter of remove for a conversation that has no externalId, pageId or
\* accountId, as those of the widget: the tenant's web chats.
Matching(c) == convs

remove(c) ==
    /\ removal = Resting /\ c \in convs /\ Spend("removals")
    /\ removal' = [step |-> "threads", on |-> c, ids |-> Matching(c)]
    /\ UNCHANGED <<conversations, messages, requests, marking, gateway, browser, network, history>>

RemoveThreads ==
    /\ removal.step = "threads"
    /\ convs' = convs \ removal.ids
    /\ doomed' = doomed \cup {m \in Messages : pc[m] = "save" /\ at[m] \in removal.ids}
    /\ removal' = [removal EXCEPT !.step = "messages"]
    /\ UNCHANGED <<unread, subject, messages, requests, marking, gateway, browser, network,
                   overlap, seen, late, raced, promised, crashed, budget>>

Deleted(ids, c) == {m \in Messages : where[m] \in ids}

RemoveMessages ==
    /\ removal.step = "messages"
    /\ where' = [m \in Messages |-> IF m \in Deleted(removal.ids, removal.on) THEN None ELSE where[m]]
    /\ status' = [m \in Messages |-> IF m \in Deleted(removal.ids, removal.on) THEN None ELSE status[m]]
    /\ removal' = Resting
    /\ UNCHANGED <<conversations, requests, marking, gateway, browser, network, history, budget>>

\* admin:join:widget looks the conversation up before it adds the viewer.
JoinAsked(s, c) ==
    /\ s \notin connected /\ c \in convs /\ Spend("joins")
    /\ connected' = connected \cup {s}
    /\ joining' = joining \cup {<<s, c>>}
    /\ UNCHANGED <<conversations, messages, requests, agents, viewers, browser, network, history>>

handleAdminJoinWidget(s, c) ==
    /\ <<s, c>> \in joining
    /\ joining' = joining \ {<<s, c>>}
    /\ viewers' = IF c \in convs THEN viewers \cup {<<s, c>>} ELSE viewers
    /\ UNCHANGED <<conversations, messages, requests, agents, connected, browser, network, history, budget>>

handleAdminLeaveWidget(s, c) ==
    /\ s \in connected /\ <<s, c>> \in viewers
    /\ viewers' = viewers \ {<<s, c>>}
    /\ UNCHANGED <<conversations, messages, requests, agents, connected, joining, browser, network,
                   history, budget>>

\* Mutant of ViewedBy: nothing is cleaned up.
ViewedByNone(s) == {}

\* What handleDisconnect takes out of activeAdminConversations.
ViewedBy(s) == {v \in viewers : v[1] = s}

handleDisconnect(s) ==
    /\ s \in connected
    /\ connected' = connected \ {s}
    /\ viewers' = viewers \ ViewedBy(s)
    /\ late' = late \cup {v \in joining : v[1] = s}
    /\ UNCHANGED <<conversations, messages, requests, agents, joining, browser, network,
                   overlap, doomed, seen, raced, promised, crashed, budget>>

\* markMessagesAsRead, and markOutboundAsRead of the thread that is found.
markMessagesAsRead ==
    /\ notes
    /\ notes' = FALSE
    /\ \/ \E c \in findByWidgetVisitor :
              status' = [m \in Messages |-> IF m \in Outbound /\ where[m] = c THEN "read" ELSE status[m]]
       \/ findByWidgetVisitor = {} /\ UNCHANGED status
    /\ UNCHANGED <<conversations, where, requests, agents, gateway, browser, wire, history, budget>>

\* The server restarts: handlers end, sockets are closed, viewers forgotten.
Crash ==
    /\ Spend("crashes")
    /\ pc' = [m \in Messages |-> IF pc[m] = "idle" THEN "idle" ELSE "done"]
    /\ enriching' = {} /\ mine' = {} /\ temps' = {}
    /\ marking' = Resting /\ removal' = Resting
    /\ connected' = {} /\ joining' = {} /\ viewers' = {}
    /\ page' = [page EXCEPT !.joined = FALSE, !.get = IF @ = "asked" THEN "done" ELSE @]
    /\ wire' = {} /\ notes' = FALSE /\ promised' = promised \ wire
    /\ crashed' = TRUE
    /\ UNCHANGED <<conversations, messages, at, generic, typing, answer, shown, overlap, doomed, seen, late, raced>>

-----------------------------------------------------------------------------
Handle(m) ==
    \/ Find(m) \/ Create(m) \/ LoadThread(m) \/ Save(m) \/ Look(m) \/ Count(m) \/ Emit(m)

Next ==
    \/ LoadPage \/ AnswerLoad \/ loadMessages \/ LoadFails \/ Connect \/ Drop \/ toggleChat
    \/ setAdminTyping \/ adminTypingTimeout
    \/ \E a \in Outbound : Receive(a)
    \/ \E m \in Inbound : sendMessage(m) \/ sendImageWithCaption(m) \/ Uploaded(m) \/ Answered(m) \/ RequestLost(m) \/ Refused(m) \/ Enrich(m)
    \/ \E m \in Messages : AnsweredWithError(m) \/ Handle(m)
    \/ \E a \in Outbound, c \in Threads : Reply(a, c)
    \/ \E c \in Threads : markAsRead(c) \/ remove(c)
    \/ MarkStep \/ RemoveThreads \/ RemoveMessages \/ markMessagesAsRead \/ Crash
    \/ \E s \in Sockets, c \in Threads :
           JoinAsked(s, c) \/ handleAdminJoinWidget(s, c) \/ handleAdminLeaveWidget(s, c)
    \/ \E s \in Sockets : handleDisconnect(s)

Spec == Init /\ [][Next]_vars

\* A connection that is up delivers what is on it, a timer that is set fires.
FairSpec == Spec /\ (\A a \in Outbound : WF_vars(Receive(a))) /\ WF_vars(adminTypingTimeout)

-----------------------------------------------------------------------------
(* Properties. *)

Steps == {"idle", "upload", "find", "create", "load", "save", "look", "count", "emit", "answer", "refused", "done"}

\* Every variable has its type.
TypeOK ==
    /\ convs \subseteq Threads
    /\ unread \in [Threads -> Nat] /\ subject \in [Threads -> Inbound \cup {Nobody}]
    /\ where \in [Messages -> Threads \cup {None}]
    /\ status \in [Messages -> {None, "sent", "delivered", "read"}]
    /\ pc \in [Messages -> Steps] /\ at \in [Messages -> Threads \cup {None}]
    /\ generic \subseteq Inbound /\ enriching \subseteq Inbound
    /\ marking \in [step : {"rest", "reset", "update"}, on : Threads \cup {None}, ids : {{}}]
    /\ removal \in [step : {"rest", "threads", "messages"}, on : Threads \cup {None}, ids : SUBSET Threads]
    /\ connected \subseteq Sockets
    /\ joining \subseteq Sockets \X Threads /\ viewers \subseteq Sockets \X Threads
    /\ page \in [get : {"closed", "asked", "answered", "done"}, joined : BOOLEAN, open : BOOLEAN]
    /\ answer \subseteq Messages /\ shown \in [Messages -> Nat]
    /\ temps \subseteq Inbound /\ mine \subseteq Inbound
    /\ typing \in BOOLEAN
    /\ wire \subseteq Outbound /\ notes \in BOOLEAN
    /\ overlap \in BOOLEAN /\ doomed \subseteq Messages /\ seen \subseteq Inbound
    /\ crashed \in BOOLEAN /\ late \subseteq Sockets \X Threads /\ raced \subseteq Inbound /\ promised \subseteq Outbound
    /\ budget \in [Kinds -> Nat]

\* Nothing is overlooked: when the counter of a conversation is 0 and nobody is
\* changing it or was cut off by a restart, an agent has read or was looking at everything in it
\* (markAsRead resets the counter before it marks the messages).
NoneOverlooked ==
    \A c \in convs :
        (unread[c] = 0 /\ marking.on # c /\ ~crashed)
            => \A m \in Inbound : where[m] = c => \/ status[m] = "read" \/ m \in seen
                                                  \/ pc[m] \in {"look", "count"}

\* A visitor whose requests do not overlap has one thread, whatever his page,
\* his connection and the agents do.
OneThread == ~overlap => Cardinality(findByWidgetVisitor) <= 1

\* Nothing is listed twice in the page, except what was sent before the first
\* listing had come.
ShownOnce == \A m \in Messages \ raced : shown[m] <= 1

\* "Delete all messages linked to those conversations": a message without a
\* conversation belongs to a removal that is not over, or to a request that had
\* found the conversation before it was deleted, unless a restart cut one off.
NoOrphans ==
    \A m \in Messages :
        (where[m] # None /\ where[m] \notin convs /\ ~crashed)
            => m \in doomed \/ (removal.step = "messages" /\ where[m] \in removal.ids)

\* "NOT being actively viewed" (conversations.service.ts:540): who is said to
\* look at a conversation is connected, or left before his join was over.
ViewersAreThere == \A v \in viewers : v[1] \in connected \/ v \in late

\* remove deletes "ALL conversations for the same participant"
\* (conversations.service.ts:447), and those of nobody else.
OnlyThisParticipant ==
    removal.on # None => \A c \in removal.ids : (c \in Foreign) => c = removal.on

\* What is sent to a page that is up and connected is in the end listed there.
ShownInTheEnd == \A a \in Outbound : (a \in promised) ~> (shown[a] > 0 \/ a \notin promised)

\* An agent is not shown as typing for ever, although nothing tells the page
\* when his connection is lost.
TypingEnds == typing ~> ~typing

\* No message of a visitor is lost to the agents: neither by a counter that is reset
\* too early, nor by a conversation that is deleted under it.
NothingLost == TypeOK /\ NoneOverlooked /\ NoOrphans

\* A visitor whose requests do not overlap has one thread, and sees a message once.
NothingTwice == OneThread /\ ShownOnce

\* The page settles: it lists what it was sent, and nobody types for ever.
PageSettles == ShownInTheEnd /\ TypingEnds
=============================================================================
