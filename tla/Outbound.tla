------------------------------ MODULE Outbound ------------------------------
(***************************************************************************)
(* A reply on its way to a Messenger or Instagram thread:                  *)
(* ConversationsService.sendMessage stores it and hands it to              *)
(* FacebookService.sendMessage without waiting; Meta answers with an id;   *)
(* the customer's read receipt, Meta's echo and the polling pass come back *)
(* on their own, in any order.                                             *)
(*                                                                         *)
(* A message is its own id at Meta.  A document is <<m, "app">> when we    *)
(* stored m ourselves and <<m, "meta">> when an echo or the polling pass   *)
(* stored it.  That the claims keep an echo and the polling pass from      *)
(* handling one id together is MetaIngest's subject and taken from it.     *)
(***************************************************************************)
EXTENDS Naturals, FiniteSets

CONSTANTS
    Replies,     \* messages sent from a conversation
    Directs,     \* messages sent to a Messenger user by sendDirectMessage
    Outside,     \* messages the page's owner sends without this program
    Text,        \* [Messages -> content]
    Wordless,    \* attachments: Meta reports them under another content
    EchoTagged,  \* TRUE: Meta's echoes name our app
    MaxReads,    \* bound of the read receipts
    MaxCrashes   \* bound of the server restarts

Messages == Replies \cup Directs \cup Outside

ASSUME OutboundAssumption ==
    /\ Replies \cap Directs = {} /\ Outside \cap (Replies \cup Directs) = {}
    /\ Wordless \subseteq Replies
    /\ EchoTagged \in BOOLEAN
    /\ MaxReads \in Nat /\ MaxCrashes \in Nat

VARIABLES
    channel,   \* the conversation's channel, fixed
    doc,       \* [Docs -> the stored document, or Absent]
    pc,        \* [Messages -> the next step of its sending]
    accepted,  \* messages Meta accepted
    last,      \* the one it accepted last
    receipts,  \* read events on their way
    handler,   \* ["echo", "poll" -> what it is doing]
    reads, crashes

vars == <<channel, doc, pc, accepted, last, receipts, handler, reads, crashes>>

Handlers == {"echo", "poll"}
Docs     == Messages \X {"app", "meta"}
None     == "none"
NoDoc    == <<None, None>>
Recipient == "psid"   \* sendDirectMessage stores the recipient's id
Absent   == [status |-> "absent", ext |-> None, born |-> 0]
Resting  == [step |-> "rest", on |-> None, with |-> NoDoc]

Present == {d \in Docs : doc[d] # Absent}
Content(d) == Text[d[1]]

\* messageModel.exists on metadata.externalId.
Known(m) == \E d \in Present : doc[d].ext = m

Init ==
    /\ channel \in {"facebook", "instagram"}
    /\ doc = [d \in Docs |-> Absent]
    /\ pc = [m \in Messages |-> "idle"]
    /\ accepted = {} /\ last = None
    /\ receipts = {}
    /\ handler = [h \in Handlers |-> Resting]
    /\ reads = 0 /\ crashes = 0

GoTo(m, step) == pc' = [pc EXCEPT ![m] = step]

Store(d, ext) ==
    doc' = [doc EXCEPT ![d] = [status |-> "sent", ext |-> ext, born |-> Cardinality(Present) + 1]]

Accept(m) == accepted' = accepted \cup {m} /\ last' = m

others == <<channel, receipts, handler, reads, crashes>>

-----------------------------------------------------------------------------
(* ConversationsService.sendMessage and FacebookService.sendMessage. *)

sendMessage(m) ==
    /\ pc[m] = "idle"
    /\ Store(<<m, "app">>, None)
    /\ GoTo(m, "saved")
    /\ UNCHANGED <<accepted, last, others>>

\* findByIdAndUpdate of the conversation, and FacebookService.sendMessage is called.
HandOver(m) ==
    /\ pc[m] = "saved"
    /\ GoTo(m, "post")
    /\ UNCHANGED <<doc, accepted, last, others>>

\* The update fails or finds no conversation, or the conversation names no thread of
\* Meta's: the message is stored as sent and nobody posts it.
NeverPosted(m) ==
    /\ pc[m] = "saved"
    /\ GoTo(m, "untold")
    /\ UNCHANGED <<doc, accepted, last, others>>

\* resolveMetaThread finds no connected account, or Meta answers with an error.
Refused(m) ==
    /\ pc[m] = "post"
    /\ GoTo(m, "failed")
    /\ UNCHANGED <<doc, accepted, last, others>>

MetaAccepts(m) ==
    /\ pc[m] = "post"
    /\ Accept(m)
    /\ GoTo(m, "answer")
    /\ UNCHANGED <<doc, others>>

\* The request went through and fetch throws, or the answer cannot be recorded.
AnswerLost(m) ==
    /\ pc[m] = "answer"
    /\ GoTo(m, "failed")
    /\ UNCHANGED <<doc, accepted, last, others>>

\* Meta accepts and gives no message_id: nothing is recorded.
AnsweredWithoutId(m) ==
    /\ pc[m] = "answer"
    /\ GoTo(m, "untold")
    /\ UNCHANGED <<doc, accepted, last, others>>

\* Documents the answer may be recorded on: the same text and no id yet.
Unlinked(m) == {d \in Present : Content(d) = Text[m] /\ doc[d].ext = None}

\* updateOne writes one of them; a server before 8.0 ignores its sort.
RecordAnswer(m) ==
    /\ pc[m] = "answer"
    /\ GoTo(m, "done")
    /\ \/ \E d \in Unlinked(m) :
              doc' = [doc EXCEPT ![d].ext = m, ![d].status = "delivered"]
       \/ Unlinked(m) = {} /\ UNCHANGED doc
    /\ UNCHANGED <<accepted, last, others>>

\* Mutant of markMessageFailed: nobody calls it.
logFailureOnly(m) ==
    /\ pc[m] = "failed"
    /\ GoTo(m, "done")
    /\ UNCHANGED <<doc, accepted, last, others>>

markMessageFailed(m) ==
    /\ pc[m] = "failed"
    /\ doc' = [doc EXCEPT ![<<m, "app">>].status = "failed"]
    /\ GoTo(m, "done")
    /\ UNCHANGED <<accepted, last, others>>

\* The update fails, which is only logged.
MarkFails(m) ==
    /\ pc[m] = "failed"
    /\ GoTo(m, "untold")
    /\ UNCHANGED <<doc, accepted, last, others>>

-----------------------------------------------------------------------------
(* sendDirectMessage: Meta first, then the document. *)

sendDirectMessage(m) ==
    /\ channel = "facebook"
    /\ pc[m] = "idle"
    /\ Accept(m)
    /\ GoTo(m, "save")
    /\ UNCHANGED <<doc, others>>

SaveDirect(m) ==
    /\ pc[m] = "save"
    /\ Store(<<m, "app">>, Recipient)
    /\ GoTo(m, "done")
    /\ UNCHANGED <<accepted, last, others>>

-----------------------------------------------------------------------------
(* What comes back from Meta. *)

SentOutside(m) ==
    /\ pc[m] = "idle"
    /\ GoTo(m, "done")
    /\ Accept(m)
    /\ UNCHANGED <<doc, others>>

\* The customer opens the thread.  Messenger's event carries the time,
\* Instagram's the last message seen.
CustomerReads ==
    /\ accepted # {} /\ reads < MaxReads
    /\ reads' = reads + 1
    /\ receipts' = receipts \cup {[upTo |-> Cardinality(Present), last |-> last]}
    /\ UNCHANGED <<channel, doc, pc, accepted, last, handler, crashes>>

\* How far a receipt reaches: up to its time; on Instagram up to the message it
\* names when that is known, else up to its time as well.
ReadUpTo(r) ==
    IF channel = "instagram" /\ Known(r.last)
    THEN {doc[d].born : d \in {e \in Present : doc[e].ext = r.last}}
    ELSE {r.upTo}

\* Mutant of Readable: a failed message is marked as well.
ReadableAll == {"sent", "delivered", "failed"}

Readable == {"sent", "delivered"}

handleMessageRead(r) ==
    /\ r \in receipts
    /\ receipts' = receipts \ {r}
    /\ \E upTo \in ReadUpTo(r) :
           doc' = [d \in Docs |-> IF d \in Present /\ doc[d].status \in Readable /\ doc[d].born <= upTo
                                  THEN [doc[d] EXCEPT !.status = "read"] ELSE doc[d]]
    /\ UNCHANGED <<channel, pc, accepted, last, handler, reads, crashes>>

\* Nobody else holds the claim of the id.
Claimable(h, m) == handler[h] = Resting /\ \A other \in Handlers : handler[other].on # m

Do(h, step, m, d) == handler' = [handler EXCEPT ![h] = [step |-> step, on |-> m, with |-> d]]

\* An echo that names our app is ignored; one that does not is looked up.
Echo(m) ==
    /\ m \in Outside \/ ~EchoTagged
    /\ m \in accepted
    /\ Claimable("echo", m)
    /\ ~Known(m)
    /\ Do("echo", "save", m, NoDoc)
    /\ UNCHANGED <<channel, doc, pc, accepted, last, receipts, reads, crashes>>

\* Mutant of SameText: polling does not look for a message of ours.
SameTextNever(m) == {}

\* existingOutbound: a document of ours with the text Meta reports.
SameText(m) == {d \in Present : m \notin Wordless /\ Content(d) = Text[m]}

Poll(m) ==
    /\ channel = "instagram"
    /\ m \in accepted
    /\ Claimable("poll", m)
    /\ ~Known(m)
    /\ \/ \E d \in SameText(m) : Do("poll", "link", m, d)
       \/ SameText(m) = {} /\ Do("poll", "save", m, NoDoc)
    /\ UNCHANGED <<channel, doc, pc, accepted, last, receipts, reads, crashes>>

\* Only the id and the platform are written: the status stays.
Link ==
    /\ handler["poll"].step = "link"
    /\ doc' = [doc EXCEPT ![handler["poll"].with].ext = handler["poll"].on]
    /\ handler' = [handler EXCEPT !["poll"] = Resting]
    /\ UNCHANGED <<channel, pc, accepted, last, receipts, reads, crashes>>

SaveCopy(h) ==
    /\ handler[h].step = "save"
    /\ Store(<<handler[h].on, "meta">>, handler[h].on)
    /\ handler' = [handler EXCEPT ![h] = Resting]
    /\ UNCHANGED <<channel, pc, accepted, last, receipts, reads, crashes>>

\* The server restarts: nothing that was under way is taken up again.
Crash ==
    /\ crashes < MaxCrashes
    /\ crashes' = crashes + 1
    /\ pc' = [m \in Messages |-> IF pc[m] \in {"idle", "done"} THEN pc[m] ELSE "untold"]
    /\ handler' = [h \in Handlers |-> Resting]
    /\ UNCHANGED <<channel, doc, accepted, last, receipts, reads>>

-----------------------------------------------------------------------------
Sending(m) ==
    \/ HandOver(m) \/ NeverPosted(m)
    \/ Refused(m) \/ MetaAccepts(m)
    \/ AnswerLost(m) \/ AnsweredWithoutId(m) \/ RecordAnswer(m)
    \/ markMessageFailed(m) \/ MarkFails(m)

Next ==
    \/ \E m \in Replies : sendMessage(m) \/ Sending(m)
    \/ \E m \in Directs : sendDirectMessage(m) \/ SaveDirect(m)
    \/ \E m \in Outside : SentOutside(m)
    \/ CustomerReads
    \/ \E r \in receipts : handleMessageRead(r)
    \/ \E m \in Messages : Echo(m) \/ Poll(m)
    \/ Link
    \/ \E h \in Handlers : SaveCopy(h)
    \/ Crash

Spec == Init /\ [][Next]_vars

\* A promise that was started runs on, and fetch answers or gives up.
FairSpec == Spec /\ \A m \in Replies : WF_vars(Sending(m))

-----------------------------------------------------------------------------
(* Properties. *)

SendSteps == {"idle", "saved", "post", "answer", "failed", "save", "done", "untold"}
Statuses == {"absent", "sent", "delivered", "read", "failed"}

\* Every variable has its type.
TypeOK ==
    /\ channel \in {"facebook", "instagram"}
    /\ doc \in [Docs -> [status : Statuses, ext : Messages \cup {None, Recipient}, born : Nat]]
    /\ pc \in [Messages -> SendSteps]
    /\ accepted \subseteq Messages /\ last \in Messages \cup {None}
    /\ receipts \subseteq [upTo : Nat, last : Messages]
    /\ handler \in [Handlers -> [step : {"rest", "save", "link"}, on : Messages \cup {None},
                                 with : Docs \cup {NoDoc}]]
    /\ reads \in Nat /\ crashes \in Nat

\* "Save externalId on the outbound message to prevent duplicates from polling"
\* (facebook.service.ts:3851): whether Meta's answer or the polling pass is
\* first, a text we sent is in the conversation once.
StoredOnce ==
    \A m \in Messages \ Wordless : ~({<<m, "app">>, <<m, "meta">>} \subseteq Present)

\* The id Meta gave to one of our messages is never found on another one,
\* as long as no two of them read the same.
IdIsItsOwn ==
    \A m \in Replies : doc[<<m, "app">>].ext \in {None, m}

\* A message shown as delivered was accepted by Meta.
DeliveredIsTrue ==
    \A m \in Replies : doc[<<m, "app">>].status = "delivered" => m \in accepted

\* On Messenger no reply stays merely sent (markMessageFailed, the answer's update)
\* for any other reason than these four: the server restarted under it, the conversation was
\* not updated or has no thread at Meta, Meta gave no id, or the failure itself could
\* not be written.  A refusal, a lost answer and an answer that could not be recorded
\* all end in a status the agent sees.
Settled ==
    \A m \in Replies :
        (channel = "facebook" /\ pc[m] = "saved")
            ~> (pc[m] = "untold" \/ doc[<<m, "app">>].status \in {"delivered", "read", "failed"})

\* A text of ours is in the conversation once, with its own id, and shown as
\* delivered only if Meta took it: whichever of Meta's answer, echo and the polling
\* pass comes first, for texts that differ.
MessagesAreTrue == TypeOK /\ StoredOnce /\ IdIsItsOwn /\ DeliveredIsTrue

\* A status that was reached stays: a refused message is not shown as read by a
\* receipt for others, and what was read is taken back by nothing but the message's
\* own answer, if that is still on its way.
StatusStays ==
    [][\A m \in Replies :
           /\ doc[<<m, "app">>].status = "failed" => doc'[<<m, "app">>].status = "failed"
           /\ (doc[<<m, "app">>].status = "read" /\ doc'[<<m, "app">>].status # "read")
               => pc[m] \in {"answer", "failed"}]_vars
=============================================================================
