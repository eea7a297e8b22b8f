------------------------- MODULE ConversationProofs -------------------------
(***************************************************************************)
(* A reply is stored once, carries its own id and keeps its status, for    *)
(* any number of replies, receipts, echoes, passes and restarts, as long   *)
(* as no two messages read the same and Meta's echoes name our app.  In a  *)
(* visitor's chat nothing is overlooked, doubled or left behind, for any   *)
(* number of messages, threads and agents, whatever is lost.               *)
(***************************************************************************)
EXTENDS MCConversations, FiniteSetTheorems, TLAPS

USE OutboundAssumption DEF SendSteps

\* What the code takes for granted when it matches messages by their text.
Distinct == \A m, n \in Messages : Text[m] = Text[n] => m = n

-----------------------------------------------------------------------------
\* A reply has its document from the moment its sending begins; nobody else
\* stores one for it but a pass that cannot recognise it.
Stored ==
    /\ \A d \in Docs : doc[d].status = "absent" => doc[d] = Absent
    /\ \A m \in Replies : pc[m] = "idle" <=> doc[<<m, "app">>] = Absent
    /\ \A m \in Outside : doc[<<m, "app">>] = Absent
    /\ \A m \in Messages : doc[<<m, "meta">>] # Absent => m \in Outside \cup Wordless

\* Ids are those of the message itself.
Named == \A d \in Docs : d[1] \in Replies => doc[d].ext \in {None, d[1]}

\* Meta knows what was sent, and on Instagram nothing was sent directly.
Sent ==
    /\ \A m \in Replies : m \in accepted => pc[m] # "idle"
    /\ \A m \in Replies : pc[m] = "answer" => m \in accepted
    /\ \A m \in Directs : m \in accepted => channel = "facebook"
    /\ accepted # {} => last \in Messages

\* What a status says of the sending.
Said ==
    /\ \A m \in Replies : doc[<<m, "app">>].status = "delivered" => m \in accepted
    /\ \A m \in Replies : doc[<<m, "app">>].status = "failed" => pc[m] = "done"

\* What handlers are about to write: a copy of what has no document of ours, or
\* the id on the document of the message itself.
Held ==
    /\ \A h \in Handlers : handler[h].step = "save" => handler[h].on \in Outside \cup Wordless
    /\ handler["poll"].step = "link" =>
          /\ handler["poll"].with \in Docs
          /\ handler["poll"].with[1] = handler["poll"].on
          /\ doc[handler["poll"].with] # Absent

IInv == TypeOK /\ Stored /\ Named /\ Sent /\ Said /\ Held

-----------------------------------------------------------------------------
LEMMA Numbered ==
    ASSUME IsFiniteSet(Messages), TypeOK
    PROVE  Cardinality(Present) \in Nat
<1>0. {"app", "meta"} = {"app"} \cup {"meta"} OBVIOUS
<1>1. IsFiniteSet({"app", "meta"})
  <2>1. IsFiniteSet({"app"}) BY FS_Singleton
  <2>2. IsFiniteSet({"app"} \cup {"meta"}) BY <2>1, FS_AddElement
  <2>3. QED BY <1>0, <2>2
<1>2. IsFiniteSet(Docs) BY <1>1, FS_Product DEF Docs
<1>3. Present \in SUBSET Docs BY DEF Present
<1>4. QED BY <1>2, <1>3, FS_Subset, FS_CardinalityType

LEMMA InitHolds == Init => IInv
<1> SUFFICES ASSUME Init PROVE IInv OBVIOUS
<1>1. TypeOK BY DEF Init, TypeOK, Absent, Statuses, Resting, Handlers, NoDoc
<1>2. \A d \in Docs : doc[d] = Absent BY DEF Init
<1>3. \A m \in Messages : <<m, "app">> \in Docs /\ <<m, "meta">> \in Docs BY DEF Docs
<1>4. \A m \in Messages : pc[m] = "idle" BY DEF Init
<1>5. Stored BY <1>2, <1>3, <1>4 DEF Stored, Messages
<1>6. Named BY <1>2 DEF Named, Absent
<1>7. Sent BY <1>4 DEF Sent, Init, Messages
<1>8. Said
  <2>1. \A m \in Replies : doc[<<m, "app">>] = Absent BY <1>2, <1>3 DEF Messages
  <2>2. Absent.status = "absent" BY DEF Absent
  <2>3. QED BY <2>1, <2>2 DEF Said
<1>9. Held BY DEF Init, Held, Resting, Handlers
<1>10. QED BY <1>1, <1>5, <1>6, <1>7, <1>8, <1>9 DEF IInv

\* A step of one message's sending.
LEMMA GoToSteps ==
    ASSUME TypeOK, NEW m \in Messages,
           NEW step \in SendSteps, GoTo(m, step)
    PROVE  /\ pc' \in [Messages -> SendSteps]
           /\ pc'[m] = step
           /\ \A n \in Messages \ {m} : pc'[n] = pc[n]
  BY DEF GoTo, TypeOK

LEMMA SendStep ==
    ASSUME IInv, IsFiniteSet(Messages), NEW m \in Replies, sendMessage(m)
    PROVE  IInv'
<1> DEFINE new == [status |-> "sent", ext |-> None, born |-> Cardinality(Present) + 1]
           x == <<m, "app">>
<1>1. m \in Messages /\ x \in Docs BY DEF Messages, Docs
<1>2. new \in [status : Statuses, ext : Messages \cup {None, Recipient}, born : Nat]
      BY Numbered DEF IInv, Statuses
<1>3. /\ pc' \in [Messages -> SendSteps]
      /\ pc'[m] = "saved" /\ \A n \in Messages \ {m} : pc'[n] = pc[n]
      BY <1>1, GoToSteps DEF IInv, sendMessage
<1>4. /\ doc' = [doc EXCEPT ![x] = new]
      /\ doc'[x] = new /\ \A d \in Docs \ {x} : doc'[d] = doc[d]
      BY <1>1 DEF sendMessage, Store, IInv, TypeOK
<1>5. new # Absent /\ new.status = "sent" /\ new.ext = None BY DEF Absent
<1> HIDE DEF new
<1>6. TypeOK' BY <1>1, <1>2, <1>3, <1>4 DEF IInv, TypeOK, sendMessage, others
<1>7. Stored' BY <1>1, <1>3, <1>4, <1>5 DEF IInv, Stored, Docs, Messages
<1>8. Named' BY <1>1, <1>4, <1>5 DEF IInv, Named
<1>9. Sent' BY <1>1, <1>3 DEF IInv, Sent, sendMessage, others, Messages
<1>10. Said' BY <1>1, <1>3, <1>4, <1>5 DEF IInv, Said, sendMessage, Docs, Messages, Stored
<1>11. Held' BY <1>1, <1>4, <1>5 DEF IInv, Held, sendMessage, others
<1>12. QED BY <1>6, <1>7, <1>8, <1>9, <1>10, <1>11 DEF IInv

\* A step of the sending that writes no document: handed over or not, refused,
\* accepted, its answer lost or without an id, its failure not written.
LEMMA TalkStep ==
    ASSUME IInv, NEW m \in Replies, HandOver(m) \/ NeverPosted(m) \/ Refused(m) \/ MetaAccepts(m) \/ AnswerLost(m)
              \/ AnsweredWithoutId(m) \/ MarkFails(m)
    PROVE  IInv'
<1> DEFINE step == IF MetaAccepts(m) THEN "answer"
                   ELSE IF HandOver(m) THEN "post"
                   ELSE IF NeverPosted(m) \/ AnsweredWithoutId(m) \/ MarkFails(m) THEN "untold" ELSE "failed"
<1>1. /\ m \in Messages /\ pc[m] \in {"saved", "post", "answer", "failed"} /\ GoTo(m, step) /\ doc' = doc
      /\ channel' = channel /\ handler' = handler
      /\ accepted' = (IF step = "answer" THEN accepted \cup {m} ELSE accepted)
      /\ last' = (IF step = "answer" THEN m ELSE last)
      BY DEF HandOver, NeverPosted, Refused, MetaAccepts, AnswerLost, AnsweredWithoutId, MarkFails,
             Accept, others, Messages, GoTo
<1>2. step \in {"answer", "post", "untold", "failed"} OBVIOUS
<1> HIDE DEF step
<1>3. /\ pc' \in [Messages -> SendSteps]
      /\ pc'[m] = step /\ \A n \in Messages \ {m} : pc'[n] = pc[n]
      BY <1>1, <1>2, GoToSteps DEF IInv
<1>4. TypeOK' BY <1>1, <1>3 DEF IInv, TypeOK, HandOver, NeverPosted, Refused, MetaAccepts, AnswerLost,
                           AnsweredWithoutId, MarkFails, Accept, others
<1>5. Stored' BY <1>1, <1>2, <1>3 DEF IInv, Stored, Messages
<1>6. Named' BY <1>1 DEF IInv, Named
<1>7. Sent' BY <1>1, <1>2, <1>3 DEF IInv, Sent, Messages
<1>8. Said' BY <1>1, <1>2, <1>3 DEF IInv, Said, Messages
<1>9. Held' BY <1>1 DEF IInv, Held
<1>10. QED BY <1>4, <1>5, <1>6, <1>7, <1>8, <1>9 DEF IInv

\* The answer finds the message by its text.
LEMMA AnswerStep ==
    ASSUME IInv, Distinct, NEW m \in Replies, RecordAnswer(m)
    PROVE  IInv'
<1>1. m \in Messages /\ pc[m] = "answer" /\ m \in accepted
      BY DEF RecordAnswer, Messages, IInv, Sent
<1>2. /\ pc' \in [Messages -> SendSteps]
      /\ pc'[m] = "done" /\ \A n \in Messages \ {m} : pc'[n] = pc[n]
      BY <1>1, GoToSteps DEF IInv, RecordAnswer
<1>3. UNCHANGED <<accepted, last, channel, receipts, handler, reads, crashes>>
      BY DEF RecordAnswer, others
<1>4. CASE doc' = doc
  <2>1. TypeOK' BY <1>2, <1>3, <1>4 DEF IInv, TypeOK
  <2>2. Stored' BY <1>1, <1>2, <1>4 DEF IInv, Stored, Messages
  <2>3. Named' /\ Sent' /\ Said' /\ Held'
        BY <1>1, <1>2, <1>3, <1>4 DEF IInv, Named, Sent, Said, Held, Messages
  <2>4. QED BY <2>1, <2>2, <2>3 DEF IInv
<1>5. CASE \E d \in Unlinked(m) : doc' = [doc EXCEPT ![d].ext = m, ![d].status = "delivered"]
  <2>1. PICK d \in Unlinked(m) : doc' = [doc EXCEPT ![d].ext = m, ![d].status = "delivered"]
        BY <1>5
  <2>2. d \in Docs /\ d[1] = m /\ doc[d] # Absent
        BY <1>1 DEF Unlinked, Present, Content, Distinct, Docs
  <2>3. /\ doc'[d] = [doc[d] EXCEPT !.ext = m, !.status = "delivered"]
        /\ DOMAIN doc' = Docs
        /\ \A e \in Docs \ {d} : doc'[e] = doc[e]
        BY <2>1, <2>2 DEF IInv, TypeOK
  <2>4. /\ doc'[d] \in [status : Statuses, ext : Messages \cup {None, Recipient}, born : Nat]
        /\ doc'[d].status = "delivered" /\ doc'[d].ext = m /\ doc'[d] # Absent
    <3>1. doc[d] \in [status : Statuses, ext : Messages \cup {None, Recipient}, born : Nat]
          BY <2>2 DEF IInv, TypeOK
    <3>2. doc'[d] = [status |-> "delivered", ext |-> m, born |-> doc[d].born] BY <2>3, <3>1
    <3>3. doc'[d] # Absent BY <3>2 DEF Absent
    <3>4. QED BY <1>1, <3>1, <3>2, <3>3 DEF Statuses
  <2>12. doc' \in [Docs -> [status : Statuses, ext : Messages \cup {None, Recipient}, born : Nat]]
        BY <2>1, <2>2, <2>3, <2>4 DEF IInv, TypeOK
  <2>5. TypeOK' BY <1>2, <1>3, <2>12 DEF IInv, TypeOK
  <2>6. Stored'
    <3>1. Stored /\ \A e \in Docs : doc'[e] = Absent <=> doc[e] = Absent BY <2>2, <2>3, <2>4 DEF IInv
    <3>2. \A e \in Docs : doc'[e].status = "absent" => doc'[e] = Absent
          BY <2>3, <2>4, <3>1 DEF Stored
    <3>3. \A n \in Messages : <<n, "app">> \in Docs /\ <<n, "meta">> \in Docs BY DEF Docs
    <3>4. QED BY <1>1, <1>2, <3>1, <3>2, <3>3 DEF Stored, Messages
  <2>7. Named' BY <2>2, <2>3, <2>4 DEF IInv, Named
  <2>8. Sent' BY <1>1, <1>2, <1>3 DEF IInv, Sent, Messages
  <2>9. Said' BY <1>1, <1>2, <1>3, <2>2, <2>3, <2>4 DEF IInv, Said, Docs, Messages
  <2>10. Held' BY <1>3, <2>2, <2>3, <2>4 DEF IInv, Held
  <2>11. QED BY <2>5, <2>6, <2>7, <2>8, <2>9, <2>10 DEF IInv
<1>6. QED BY <1>4, <1>5 DEF RecordAnswer

LEMMA FailedStep ==
    ASSUME IInv, NEW m \in Replies, markMessageFailed(m)
    PROVE  IInv'
<1> DEFINE x == <<m, "app">>
<1>1. m \in Messages /\ pc[m] = "failed" /\ x \in Docs
      BY DEF markMessageFailed, Messages, Docs
<1>2. /\ pc' \in [Messages -> SendSteps]
      /\ pc'[m] = "done" /\ \A n \in Messages \ {m} : pc'[n] = pc[n]
      BY <1>1, GoToSteps DEF IInv, markMessageFailed
<1>3. UNCHANGED <<accepted, last, channel, receipts, handler, reads, crashes>>
      BY DEF markMessageFailed, others
<1>4. /\ doc'[x] = [doc[x] EXCEPT !.status = "failed"]
      /\ doc' \in [Docs -> [status : Statuses, ext : Messages \cup {None, Recipient}, born : Nat]]
      /\ \A e \in Docs \ {x} : doc'[e] = doc[e]
      BY <1>1 DEF markMessageFailed, IInv, TypeOK, Statuses
<1>5. /\ doc'[x].status = "failed" /\ doc'[x].ext = doc[x].ext /\ doc'[x] # Absent
      BY <1>1, <1>4 DEF IInv, TypeOK, Absent
<1>6. TypeOK' BY <1>2, <1>3, <1>4 DEF IInv, TypeOK
<1>7. Stored' BY <1>1, <1>2, <1>4, <1>5 DEF IInv, Stored, Docs, Messages
<1>8. Named' BY <1>1, <1>4, <1>5 DEF IInv, Named
<1>9. Sent' BY <1>1, <1>2, <1>3 DEF IInv, Sent, Messages
<1>10. Said' BY <1>1, <1>2, <1>3, <1>4, <1>5 DEF IInv, Said, Docs, Messages
<1>11. Held' BY <1>3, <1>1, <1>4, <1>5 DEF IInv, Held
<1>12. QED BY <1>6, <1>7, <1>8, <1>9, <1>10, <1>11 DEF IInv

LEMMA DirectStep ==
    ASSUME IInv, NEW m \in Directs, sendDirectMessage(m)
    PROVE  IInv'
<1>1. m \in Messages /\ m \notin Replies /\ channel = "facebook" BY DEF sendDirectMessage, Messages
<1>2. /\ pc' \in [Messages -> SendSteps]
      /\ \A n \in Messages \ {m} : pc'[n] = pc[n]
      BY <1>1, GoToSteps DEF IInv, sendDirectMessage
<1>3. /\ UNCHANGED <<doc, channel, receipts, handler, reads, crashes>>
      /\ accepted' = accepted \cup {m} /\ last' = m
      BY DEF sendDirectMessage, others, Accept
<1>4. TypeOK' BY <1>1, <1>2, <1>3 DEF IInv, TypeOK
<1>5. Stored' BY <1>1, <1>2, <1>3 DEF IInv, Stored, Messages
<1>6. Named' /\ Held' BY <1>3 DEF IInv, Named, Held
<1>7. Sent' BY <1>1, <1>2, <1>3 DEF IInv, Sent, Messages
<1>8. Said' BY <1>1, <1>2, <1>3 DEF IInv, Said, Messages
<1>9. QED BY <1>4, <1>5, <1>6, <1>7, <1>8 DEF IInv

\* A document that is stored for message m, which has none of that kind as a reply.
LEMMA StoreStep ==
    ASSUME IInv, IsFiniteSet(Messages), NEW m \in Messages, NEW side \in {"app", "meta"},
           NEW ext \in {m, Recipient}, Store(<<m, side>>, ext),
           m \in Replies => side = "meta" /\ m \in Wordless /\ ext = m,
           m \in Outside => side = "meta",
           m \in Directs => side = "app"
    PROVE  /\ doc' \in [Docs -> [status : Statuses, ext : Messages \cup {None, Recipient}, born : Nat]]
           /\ \A d \in Docs : doc'[d] # Absent \/ doc'[d] = doc[d]
           /\ \A n \in Replies : doc'[<<n, "app">>] = doc[<<n, "app">>]
           /\ \A n \in Outside : doc'[<<n, "app">>] = Absent
           /\ \A n \in Messages : doc'[<<n, "meta">>] # Absent => n \in Outside \cup Wordless
           /\ \A d \in Docs : doc'[d].status = "absent" => doc'[d] = Absent
           /\ Named'
<1> DEFINE new == [status |-> "sent", ext |-> ext, born |-> Cardinality(Present) + 1]
           x == <<m, side>>
<1>1. x \in Docs /\ \A n \in Messages : <<n, "app">> \in Docs /\ <<n, "meta">> \in Docs BY DEF Docs
<1>2. new \in [status : Statuses, ext : Messages \cup {None, Recipient}, born : Nat]
      BY Numbered DEF IInv, Statuses
<1>3. /\ doc' = [doc EXCEPT ![x] = new]
      /\ doc'[x] = new /\ \A d \in Docs \ {x} : doc'[d] = doc[d]
      BY <1>1 DEF Store, IInv, TypeOK
<1>4. new # Absent /\ new.status = "sent" /\ new.ext = ext BY DEF Absent
<1> HIDE DEF new
<1>5. doc' \in [Docs -> [status : Statuses, ext : Messages \cup {None, Recipient}, born : Nat]]
      BY <1>1, <1>2, <1>3 DEF IInv, TypeOK
<1>6. \A d \in Docs : doc'[d] # Absent \/ doc'[d] = doc[d] BY <1>3, <1>4
<1>7. \A n \in Replies : doc'[<<n, "app">>] = doc[<<n, "app">>] BY <1>1, <1>3 DEF Messages
<1>8. \A n \in Outside : doc'[<<n, "app">>] = Absent
      BY <1>1, <1>3 DEF Messages, IInv, Stored
<1>9. \A n \in Messages : doc'[<<n, "meta">>] # Absent => n \in Outside \cup Wordless
      BY <1>1, <1>3 DEF Messages, IInv, Stored
<1>10. \A d \in Docs : doc'[d].status = "absent" => doc'[d] = Absent
      BY <1>1, <1>3, <1>4 DEF IInv, Stored
<1>11. Named'
  <2>1. x[1] = m OBVIOUS
  <2>2. QED BY <1>1, <1>3, <1>4, <2>1 DEF IInv, Named
<1>12. QED BY <1>5, <1>6, <1>7, <1>8, <1>9, <1>10, <1>11

LEMMA DirectSaved ==
    ASSUME IInv, IsFiniteSet(Messages), NEW m \in Directs, SaveDirect(m)
    PROVE  IInv'
<1>1. m \in Messages /\ m \notin Replies /\ m \notin Outside BY DEF Messages
<1>2. /\ pc' \in [Messages -> SendSteps]
      /\ \A n \in Messages \ {m} : pc'[n] = pc[n]
      BY <1>1, GoToSteps DEF IInv, SaveDirect
<1>3. UNCHANGED <<accepted, last, channel, receipts, handler, reads, crashes>>
      BY DEF SaveDirect, others
<1>4. Store(<<m, "app">>, Recipient) BY DEF SaveDirect
<1>5. /\ doc' \in [Docs -> [status : Statuses, ext : Messages \cup {None, Recipient}, born : Nat]]
      /\ \A d \in Docs : doc'[d] # Absent \/ doc'[d] = doc[d]
      /\ \A n \in Replies : doc'[<<n, "app">>] = doc[<<n, "app">>]
      /\ \A n \in Outside : doc'[<<n, "app">>] = Absent
      /\ \A n \in Messages : doc'[<<n, "meta">>] # Absent => n \in Outside \cup Wordless
      /\ \A d \in Docs : doc'[d].status = "absent" => doc'[d] = Absent
      /\ Named'
      BY <1>1, <1>4, StoreStep
<1>6. TypeOK' BY <1>2, <1>3, <1>5 DEF IInv, TypeOK
<1>7. Stored' BY <1>1, <1>2, <1>5 DEF IInv, Stored, Messages
<1>8. Sent' BY <1>1, <1>2, <1>3 DEF IInv, Sent, Messages
<1>9. Said' BY <1>1, <1>2, <1>3, <1>5 DEF IInv, Said, Messages
<1>10. Held' BY <1>3, <1>5 DEF IInv, Held
<1>11. QED BY <1>5, <1>6, <1>7, <1>8, <1>9, <1>10 DEF IInv

\* A copy stored by an echo or a pass.
LEMMA CopyStep ==
    ASSUME IInv, IsFiniteSet(Messages), NEW h \in Handlers, SaveCopy(h)
    PROVE  IInv'
<1> DEFINE m == handler[h].on
<1>1. m \in Outside \cup Wordless /\ handler[h].step = "save" BY DEF SaveCopy, IInv, Held
<1>2. m \in Messages /\ m \notin Directs /\ (m \in Replies => m \in Wordless) BY <1>1 DEF Messages
<1>3. /\ UNCHANGED <<channel, pc, accepted, last, receipts, reads, crashes>>
      /\ handler' = [handler EXCEPT ![h] = Resting] /\ Store(<<m, "meta">>, m)
      BY DEF SaveCopy
<1> HIDE DEF m
<1>4. /\ doc' \in [Docs -> [status : Statuses, ext : Messages \cup {None, Recipient}, born : Nat]]
      /\ \A d \in Docs : doc'[d] # Absent \/ doc'[d] = doc[d]
      /\ \A n \in Replies : doc'[<<n, "app">>] = doc[<<n, "app">>]
      /\ \A n \in Outside : doc'[<<n, "app">>] = Absent
      /\ \A n \in Messages : doc'[<<n, "meta">>] # Absent => n \in Outside \cup Wordless
      /\ \A d \in Docs : doc'[d].status = "absent" => doc'[d] = Absent
      /\ Named'
      BY <1>2, <1>3, StoreStep
<1>5. /\ handler' \in [Handlers -> [step : {"rest", "save", "link"}, on : Messages \cup {None},
                                    with : Docs \cup {NoDoc}]]
      /\ \A k \in Handlers : handler'[k].step = "rest" \/ handler'[k] = handler[k]
      BY <1>3 DEF IInv, TypeOK, Resting
<1>6. TypeOK' BY <1>3, <1>4, <1>5 DEF IInv, TypeOK
<1>7. Stored' BY <1>3, <1>4 DEF IInv, Stored
<1>8. Sent' BY <1>3 DEF IInv, Sent
<1>9. Said' BY <1>3, <1>4 DEF IInv, Said
<1>10. Held' BY <1>4, <1>5 DEF IInv, Held, Handlers
<1>11. QED BY <1>4, <1>6, <1>7, <1>8, <1>9, <1>10 DEF IInv

LEMMA OutsideStep ==
    ASSUME IInv, NEW m \in Outside, SentOutside(m)
    PROVE  IInv'
<1>1. m \in Messages /\ m \notin Replies /\ m \notin Directs BY DEF Messages
<1>2. /\ pc' \in [Messages -> SendSteps]
      /\ \A n \in Messages \ {m} : pc'[n] = pc[n]
      BY <1>1, GoToSteps DEF IInv, SentOutside
<1>3. /\ UNCHANGED <<doc, channel, receipts, handler, reads, crashes>>
      /\ accepted' = accepted \cup {m} /\ last' = m
      BY DEF SentOutside, others, Accept
<1>4. TypeOK' BY <1>1, <1>2, <1>3 DEF IInv, TypeOK
<1>5. Stored' BY <1>1, <1>2, <1>3 DEF IInv, Stored, Messages
<1>6. Named' /\ Held' BY <1>3 DEF IInv, Named, Held
<1>7. Sent' BY <1>1, <1>2, <1>3 DEF IInv, Sent, Messages
<1>8. Said' BY <1>1, <1>2, <1>3 DEF IInv, Said, Messages
<1>9. QED BY <1>4, <1>5, <1>6, <1>7, <1>8 DEF IInv

LEMMA ReceiptStep ==
    ASSUME IInv, IsFiniteSet(Messages), CustomerReads
    PROVE  IInv'
<1>1. last \in Messages BY DEF CustomerReads, IInv, Sent
<1>2. [upTo |-> Cardinality(Present), last |-> last] \in [upTo : Nat, last : Messages]
      BY <1>1, Numbered DEF IInv
<1>3. TypeOK' BY <1>2 DEF CustomerReads, IInv, TypeOK
<1>4. Stored' /\ Named' /\ Sent' /\ Said' /\ Held'
      BY DEF CustomerReads, IInv, Stored, Named, Sent, Said, Held
<1>5. QED BY <1>3, <1>4 DEF IInv

\* A receipt turns sent and delivered into read, and touches nothing else.
LEMMA ReadStep ==
    ASSUME IInv, NEW r \in receipts, handleMessageRead(r)
    PROVE  /\ IInv'
           /\ \A d \in Docs : doc'[d].status \in {"failed", "read"} \/ doc[d].status \notin {"failed", "read"}
           /\ \A d \in Docs : doc[d].status \in {"failed", "read"} => doc'[d] = doc[d]
<1>1. PICK upTo \in ReadUpTo(r) :
           doc' = [d \in Docs |-> IF d \in Present /\ doc[d].status \in Readable /\ doc[d].born <= upTo
                                  THEN [doc[d] EXCEPT !.status = "read"] ELSE doc[d]]
      BY DEF handleMessageRead
<1>2. UNCHANGED <<channel, pc, accepted, last, handler, reads, crashes>> /\ receipts' \subseteq receipts
      BY DEF handleMessageRead
<1>3. ASSUME NEW d \in Docs
      PROVE  \/ doc'[d] = doc[d]
             \/ /\ doc[d].status \in Readable /\ doc[d] # Absent /\ doc'[d] # Absent
                /\ doc'[d] \in [status : Statuses, ext : Messages \cup {None, Recipient}, born : Nat]
                /\ doc'[d].status = "read" /\ doc'[d].ext = doc[d].ext
  <2>1. doc[d] \in [status : Statuses, ext : Messages \cup {None, Recipient}, born : Nat]
        BY DEF IInv, TypeOK
  <2>2. CASE doc'[d] = doc[d] BY <2>2
  <2>3. CASE d \in Present /\ doc[d].status \in Readable /\ doc'[d] = [doc[d] EXCEPT !.status = "read"]
    <3>1. doc'[d] = [status |-> "read", ext |-> doc[d].ext, born |-> doc[d].born] BY <2>1, <2>3
    <3>2. doc'[d] # Absent BY <3>1 DEF Absent
    <3>3. QED BY <2>1, <2>3, <3>1, <3>2 DEF Statuses, Present
  <2>4. QED BY <1>1, <2>2, <2>3
<1>4. Readable = {"sent", "delivered"} BY DEF Readable
<1>5. doc' \in [Docs -> [status : Statuses, ext : Messages \cup {None, Recipient}, born : Nat]]
  <2>1. doc \in [Docs -> [status : Statuses, ext : Messages \cup {None, Recipient}, born : Nat]]
        BY DEF IInv, TypeOK
  <2>2. doc' = [d \in Docs |-> doc'[d]] BY <1>1
  <2>3. \A d \in Docs : doc'[d] \in [status : Statuses, ext : Messages \cup {None, Recipient}, born : Nat]
        BY <1>3, <2>1
  <2>4. QED BY <2>2, <2>3
<1>6. \A m \in Messages : <<m, "app">> \in Docs /\ <<m, "meta">> \in Docs BY DEF Docs
<1>7. TypeOK' BY <1>2, <1>5 DEF IInv, TypeOK
<1>8. Stored'
  <2>1. Stored /\ \A d \in Docs : doc'[d] = Absent <=> doc[d] = Absent BY <1>3 DEF IInv
  <2>2. \A d \in Docs : doc'[d].status = "absent" => doc'[d] = Absent BY <1>3, <2>1 DEF Stored
  <2>3. QED BY <1>2, <1>6, <2>1, <2>2 DEF Stored, Messages
<1>9. Named' BY <1>3 DEF IInv, Named
<1>10. Sent' BY <1>2 DEF IInv, Sent
<1>11. Said' BY <1>2, <1>3, <1>6 DEF IInv, Said, Messages
<1>12. Held' BY <1>2, <1>3 DEF IInv, Held
<1>13. QED BY <1>3, <1>4, <1>7, <1>8, <1>9, <1>10, <1>11, <1>12 DEF IInv

LEMMA EchoStep ==
    ASSUME IInv, EchoTagged, NEW m \in Messages, Echo(m)
    PROVE  IInv'
<1>1. m \in Outside BY DEF Echo
<1>2. /\ UNCHANGED <<channel, doc, pc, accepted, last, receipts, reads, crashes>>
      /\ handler' = [handler EXCEPT !["echo"] = [step |-> "save", on |-> m, with |-> NoDoc]]
      BY DEF Echo, Do
<1>3. /\ handler'["echo"] = [step |-> "save", on |-> m, with |-> NoDoc]
      /\ handler'["poll"] = handler["poll"]
      BY <1>2 DEF IInv, TypeOK, Handlers
<1>4. TypeOK' BY <1>2 DEF IInv, TypeOK
<1>5. Stored' /\ Named' /\ Sent' /\ Said' BY <1>2 DEF IInv, Stored, Named, Sent, Said
<1>6. Held' BY <1>1, <1>2, <1>3 DEF IInv, Held, Handlers
<1>7. QED BY <1>4, <1>5, <1>6 DEF IInv

\* A pass recognises every reply that has words, because its document is there.
LEMMA PollStep ==
    ASSUME IInv, Distinct, NEW m \in Messages, Poll(m)
    PROVE  IInv'
<1>1. UNCHANGED <<channel, doc, pc, accepted, last, receipts, reads, crashes>> BY DEF Poll
<1>2. Stored' /\ Named' /\ Sent' /\ Said' BY <1>1 DEF IInv, Stored, Named, Sent, Said
<1>3. CASE \E d \in SameText(m) : Do("poll", "link", m, d)
  <2>1. PICK d \in SameText(m) : Do("poll", "link", m, d) BY <1>3
  <2>2. d \in Docs /\ doc[d] # Absent /\ d[1] = m
        BY DEF SameText, Present, Content, Distinct, Docs
  <2>3. handler' = [handler EXCEPT !["poll"] = [step |-> "link", on |-> m, with |-> d]]
        BY <2>1 DEF Do
  <2>4. /\ handler'["poll"] = [step |-> "link", on |-> m, with |-> d]
        /\ handler'["echo"] = handler["echo"]
        BY <2>3 DEF IInv, TypeOK, Handlers
  <2>5. TypeOK' BY <1>1, <2>2, <2>3 DEF IInv, TypeOK
  <2>6. Held' BY <1>1, <2>2, <2>4 DEF IInv, Held, Handlers
  <2>7. QED BY <1>2, <2>5, <2>6 DEF IInv
<1>4. CASE SameText(m) = {} /\ Do("poll", "save", m, NoDoc)
  <2>1. m \in Outside \cup Wordless
    <3>1. m \notin Directs BY DEF Poll, IInv, Sent
    <3>2. CASE m \in Replies \ Wordless
      <4>1. <<m, "app">> \in Present BY <3>2 DEF Poll, IInv, Sent, Stored, Present, Docs
      <4>2. <<m, "app">> \in SameText(m) BY <3>2, <4>1 DEF SameText, Content
      <4>3. QED BY <1>4, <4>2
    <3>3. QED BY <3>1, <3>2 DEF Messages
  <2>2. handler' = [handler EXCEPT !["poll"] = [step |-> "save", on |-> m, with |-> NoDoc]]
        BY <1>4 DEF Do
  <2>3. /\ handler'["poll"] = [step |-> "save", on |-> m, with |-> NoDoc]
        /\ handler'["echo"] = handler["echo"]
        BY <2>2 DEF IInv, TypeOK, Handlers
  <2>4. TypeOK' BY <1>1, <2>2 DEF IInv, TypeOK
  <2>5. Held' BY <1>1, <2>1, <2>3 DEF IInv, Held, Handlers
  <2>6. QED BY <1>2, <2>4, <2>5 DEF IInv
<1>5. QED BY <1>3, <1>4 DEF Poll

LEMMA LinkStep ==
    ASSUME IInv, Link
    PROVE  /\ IInv'
           /\ \A d \in Docs : doc'[d].status = doc[d].status
<1> DEFINE x == handler["poll"].with
           m == handler["poll"].on
<1>1. "poll" \in Handlers /\ x \in Docs /\ x[1] = m /\ doc[x] # Absent
      BY DEF Link, IInv, Held, Handlers
<1>2. m \in Messages BY <1>1 DEF Docs
<1>3. /\ doc' = [doc EXCEPT ![x].ext = m] /\ handler' = [handler EXCEPT !["poll"] = Resting]
      /\ UNCHANGED <<channel, pc, accepted, last, receipts, reads, crashes>>
      BY DEF Link
<1> HIDE DEF x, m
<1>4. /\ doc'[x] = [doc[x] EXCEPT !.ext = m]
      /\ doc' \in [Docs -> [status : Statuses, ext : Messages \cup {None, Recipient}, born : Nat]]
      /\ \A e \in Docs \ {x} : doc'[e] = doc[e]
      BY <1>1, <1>2, <1>3 DEF IInv, TypeOK
<1>5. doc'[x].ext = m /\ doc'[x].status = doc[x].status BY <1>1, <1>4 DEF IInv, TypeOK
<1>6. doc'[x].status # "absent" /\ doc'[x] # Absent BY <1>1, <1>5 DEF IInv, Stored, Absent
<1>7. /\ handler' \in [Handlers -> [step : {"rest", "save", "link"}, on : Messages \cup {None},
                                    with : Docs \cup {NoDoc}]]
      /\ handler'["poll"].step = "rest"
      /\ \A k \in Handlers \ {"poll"} : handler'[k] = handler[k]
      BY <1>1, <1>3 DEF IInv, TypeOK, Resting
<1>8. TypeOK' BY <1>3, <1>4, <1>7 DEF IInv, TypeOK
<1>9. Stored'
  <2>1. Stored /\ \A d \in Docs : doc'[d] = Absent <=> doc[d] = Absent BY <1>1, <1>4, <1>6 DEF IInv
  <2>2. \A d \in Docs : doc'[d].status = "absent" => doc'[d] = Absent
        BY <1>4, <1>6, <2>1 DEF Stored
  <2>3. \A n \in Messages : <<n, "app">> \in Docs /\ <<n, "meta">> \in Docs BY DEF Docs
  <2>4. QED BY <1>3, <2>1, <2>2, <2>3 DEF Stored, Messages
<1>10. Named' BY <1>1, <1>4, <1>5 DEF IInv, Named
<1>11. Sent' BY <1>3 DEF IInv, Sent
<1>12. Said' BY <1>3, <1>4, <1>5 DEF IInv, Said, Docs, Messages
<1>13. Held' BY <1>7 DEF IInv, Held, Handlers
<1>14. QED BY <1>4, <1>5, <1>8, <1>9, <1>10, <1>11, <1>12, <1>13 DEF IInv

LEMMA CrashStep ==
    ASSUME IInv, Crash
    PROVE  IInv'
<1>1. /\ UNCHANGED <<channel, doc, accepted, last, receipts, reads>>
      /\ pc' = [m \in Messages |-> IF pc[m] \in {"idle", "done"} THEN pc[m] ELSE "untold"]
      /\ handler' = [h \in Handlers |-> Resting] /\ crashes' = crashes + 1
      BY DEF Crash
<1>2. TypeOK' BY <1>1 DEF IInv, TypeOK, Resting
<1>3. Stored' BY <1>1 DEF IInv, Stored, Messages
<1>4. Named' BY <1>1 DEF IInv, Named
<1>5. Sent' BY <1>1 DEF IInv, Sent, Messages
<1>6. Said'
  <2>1. \A m \in Replies : pc[m] = "done" => pc'[m] = "done" BY <1>1 DEF Messages
  <2>2. QED BY <1>1, <2>1 DEF IInv, Said
<1>7. Held' BY <1>1 DEF Held, Resting, Handlers
<1>8. QED BY <1>2, <1>3, <1>4, <1>5, <1>6, <1>7 DEF IInv

-----------------------------------------------------------------------------
LEMMA NextKeeps ==
    ASSUME IInv, IsFiniteSet(Messages), Distinct, EchoTagged, [Next]_vars
    PROVE  IInv'
<1>1. ASSUME NEW m \in Replies, sendMessage(m) PROVE IInv' BY <1>1, SendStep
<1>2. ASSUME NEW m \in Replies, Sending(m) PROVE IInv'
      BY <1>2, TalkStep, AnswerStep, FailedStep DEF Sending
<1>3. ASSUME NEW m \in Directs, sendDirectMessage(m) \/ SaveDirect(m) PROVE IInv'
      BY <1>3, DirectStep, DirectSaved
<1>4. ASSUME NEW m \in Outside, SentOutside(m) PROVE IInv' BY <1>4, OutsideStep
<1>5. CASE CustomerReads BY <1>5, ReceiptStep
<1>6. ASSUME NEW r \in receipts, handleMessageRead(r) PROVE IInv' BY <1>6, ReadStep
<1>7. ASSUME NEW m \in Messages, Echo(m) \/ Poll(m) PROVE IInv' BY <1>7, EchoStep, PollStep
<1>8. CASE Link BY <1>8, LinkStep
<1>9. ASSUME NEW h \in Handlers, SaveCopy(h) PROVE IInv' BY <1>9, CopyStep
<1>10. CASE Crash BY <1>10, CrashStep
<1>11. CASE UNCHANGED vars
  <2>1. TypeOK' BY <1>11 DEF vars, IInv, TypeOK
  <2>2. Stored' /\ Named' /\ Sent' /\ Said' /\ Held'
        BY <1>11 DEF vars, IInv, Stored, Named, Sent, Said, Held
  <2>3. QED BY <2>1, <2>2 DEF IInv
<1>12. QED BY <1>1, <1>2, <1>3, <1>4, <1>5, <1>6, <1>7, <1>8, <1>9, <1>10, <1>11 DEF Next

\* What the web chat does is no step of a reply.
LEMMA RepliesMove == [MCNext]_<<vars, chatVars, part>> => [Next]_vars
  BY DEF MCNext, Answering, Chatting

LEMMA InvariantOfSpec ==
    ASSUME IsFiniteSet(Messages), Distinct, EchoTagged
    PROVE  MCSpec => []IInv
<1>1. MCInit => IInv BY InitHolds DEF MCInit
<1>2. IInv /\ [MCNext]_<<vars, chatVars, part>> => IInv' BY NextKeeps, RepliesMove
<1>3. QED BY <1>1, <1>2, PTL DEF MCSpec

LEMMA InvariantImplies == IInv => MessagesAreTrue
<1> SUFFICES ASSUME IInv PROVE MessagesAreTrue OBVIOUS
<1>1. TypeOK BY DEF IInv
<1>2. StoredOnce
  <2> SUFFICES ASSUME NEW m \in Messages \ Wordless,
                      doc[<<m, "app">>] # Absent, doc[<<m, "meta">>] # Absent
               PROVE  FALSE
      BY DEF StoredOnce, Present
  <2>1. m \in Outside BY DEF IInv, Stored
  <2>2. QED BY <2>1 DEF IInv, Stored
<1>3. IdIsItsOwn
  <2> SUFFICES ASSUME NEW m \in Replies PROVE doc[<<m, "app">>].ext \in {None, m} BY DEF IdIsItsOwn
  <2>1. <<m, "app">> \in Docs /\ <<m, "app">>[1] = m BY DEF Docs, Messages
  <2>2. QED BY <2>1 DEF IInv, Named
<1>4. DeliveredIsTrue BY DEF DeliveredIsTrue, IInv, Said
<1>5. QED BY <1>1, <1>2, <1>3, <1>4 DEF MessagesAreTrue

\* A text of ours is in the conversation once, with its own id, and shown as
\* delivered only if Meta took it, for any number of messages, receipts, echoes,
\* passes and restarts (facebook.service.ts:3851, :4583).
THEOREM RepliesAreTrue ==
    ASSUME IsFiniteSet(Messages), Distinct, EchoTagged
    PROVE  MCSpec => []MessagesAreTrue
  BY InvariantOfSpec, InvariantImplies, PTL

-----------------------------------------------------------------------------
\* What StatusStays asks of one step for one reply.
Stays(m) ==
    /\ doc[<<m, "app">>].status = "failed" => doc'[<<m, "app">>].status = "failed"
    /\ (doc[<<m, "app">>].status = "read" /\ doc'[<<m, "app">>].status # "read")
        => pc[m] \in {"answer", "failed"}

\* A step that leaves the document of a reply alone, or is its own.
LEMMA NextStays ==
    ASSUME IInv, IsFiniteSet(Messages), Distinct, EchoTagged, [Next]_vars, NEW m \in Replies
    PROVE  Stays(m)
<1> DEFINE x == <<m, "app">>
<1>0. x \in Docs /\ x[1] = m /\ m \in Messages BY DEF Docs, Messages
<1>1. CASE doc'[x] = doc[x] BY <1>1 DEF Stays
<1>2. ASSUME NEW n \in Replies, sendMessage(n) PROVE Stays(m)
  <2>1. pc[n] = "idle" /\ Store(<<n, "app">>, None) BY <1>2 DEF sendMessage
  <2>2. CASE n = m
    <3>1. doc[x].status = "absent" BY <2>1, <2>2 DEF IInv, Stored, Absent
    <3>2. QED BY <3>1 DEF Stays
  <2>3. CASE n # m BY <1>0, <1>1, <2>1, <2>3 DEF Store, IInv, TypeOK
  <2>4. QED BY <2>2, <2>3
<1>3. ASSUME NEW n \in Replies, HandOver(n) \/ NeverPosted(n) \/ Refused(n) \/ MetaAccepts(n)
                                \/ AnswerLost(n) \/ AnsweredWithoutId(n) \/ MarkFails(n)
      PROVE  Stays(m)
      BY <1>1, <1>3 DEF HandOver, NeverPosted, Refused, MetaAccepts, AnswerLost, AnsweredWithoutId, MarkFails
<1>4. ASSUME NEW n \in Replies, RecordAnswer(n) PROVE Stays(m)
  <2>1. pc[n] = "answer" BY <1>4 DEF RecordAnswer
  <2>2. CASE n = m
    <3>1. doc[x].status # "failed" BY <2>1, <2>2 DEF IInv, Said
    <3>2. QED BY <2>1, <2>2, <3>1 DEF Stays
  <2>3. CASE n # m
    <3>1. CASE doc' = doc BY <1>1, <3>1
    <3>2. CASE \E d \in Unlinked(n) : doc' = [doc EXCEPT ![d].ext = n, ![d].status = "delivered"]
      <4>1. PICK d \in Unlinked(n) : doc' = [doc EXCEPT ![d].ext = n, ![d].status = "delivered"]
            BY <3>2
      <4>2. d # x BY <1>0, <2>3 DEF Unlinked, Present, Content, Distinct, Docs, Messages
      <4>3. QED BY <1>0, <1>1, <4>1, <4>2 DEF IInv, TypeOK
    <3>3. QED BY <1>4, <3>1, <3>2 DEF RecordAnswer
  <2>4. QED BY <2>2, <2>3
<1>5. ASSUME NEW n \in Replies, markMessageFailed(n) PROVE Stays(m)
  <2>1. pc[n] = "failed" /\ doc' = [doc EXCEPT ![<<n, "app">>].status = "failed"]
        BY <1>5 DEF markMessageFailed
  <2>2. CASE n = m
    <3>1. doc[x].status # "failed" BY <2>1, <2>2 DEF IInv, Said
    <3>2. QED BY <2>1, <2>2, <3>1 DEF Stays
  <2>3. CASE n # m BY <1>0, <1>1, <2>1, <2>3 DEF IInv, TypeOK
  <2>4. QED BY <2>2, <2>3
<1>6. ASSUME NEW n \in Directs, sendDirectMessage(n) \/ SaveDirect(n) PROVE Stays(m)
  <2>1. CASE sendDirectMessage(n) BY <1>1, <2>1 DEF sendDirectMessage
  <2>2. CASE SaveDirect(n)
    <3>1. Store(<<n, "app">>, Recipient) /\ <<n, "app">> # x BY <2>2 DEF SaveDirect
    <3>2. QED BY <1>0, <1>1, <3>1 DEF Store, IInv, TypeOK
  <2>3. QED BY <1>6, <2>1, <2>2
<1>7. ASSUME NEW n \in Outside, SentOutside(n) PROVE Stays(m) BY <1>1, <1>7 DEF SentOutside
<1>8. CASE CustomerReads BY <1>1, <1>8 DEF CustomerReads
<1>9. ASSUME NEW r \in receipts, handleMessageRead(r) PROVE Stays(m)
  <2>1. doc[x].status \in {"failed", "read"} => doc'[x] = doc[x] BY <1>0, <1>9, ReadStep
  <2>2. QED BY <2>1 DEF Stays
<1>10. ASSUME NEW n \in Messages, Echo(n) \/ Poll(n) PROVE Stays(m)
      BY <1>1, <1>10 DEF Echo, Poll
<1>11. CASE Link BY <1>0, <1>11, LinkStep DEF Stays
<1>12. ASSUME NEW h \in Handlers, SaveCopy(h) PROVE Stays(m)
  <2>1. Store(<<handler[h].on, "meta">>, handler[h].on) BY <1>12 DEF SaveCopy
  <2>2. <<handler[h].on, "meta">> # x OBVIOUS
  <2>3. QED BY <1>0, <1>1, <2>1, <2>2 DEF Store, IInv, TypeOK
<1>13. CASE Crash BY <1>1, <1>13 DEF Crash
<1>14. CASE UNCHANGED vars BY <1>1, <1>14 DEF vars
<1>15. QED
  BY <1>2, <1>3, <1>4, <1>5, <1>6, <1>7, <1>8, <1>9, <1>10, <1>11, <1>12, <1>13, <1>14
  DEF Next, Sending

\* A reply that failed stays failed, and one that was read is taken back by
\* nothing but its own answer or failure (facebook.service.ts:3286,
\* conversations.service.ts:210).
THEOREM StatusesStay ==
    ASSUME IsFiniteSet(Messages), Distinct, EchoTagged
    PROVE  MCSpec => StatusStays
<1> DEFINE A == \A m \in Replies : Stays(m)
<1>1. IInv /\ [MCNext]_<<vars, chatVars, part>> => [A]_vars BY NextStays, RepliesMove
<1>2. MCSpec => [][A]_vars BY <1>1, InvariantOfSpec, PTL DEF MCSpec
<1>3. QED BY <1>2 DEF StatusStays, Stays

HIDE OutboundAssumption

-----------------------------------------------------------------------------
(* The web chat. *)

LEMMA WidgetFacts ==
    /\ Inbound \cap Answers = {}
    /\ Foreign \subseteq Threads /\ W!None \notin Threads
    /\ Budgets \subseteq [W!Kinds -> Nat]
  BY ChatAssumption DEF None, W!None

\* Who does what: only a visitor's messages are posted and counted, only those of
\* agents are sent to the page.
Roles ==
    /\ \A m \in W!Messages : phase[m] \in {"upload", "find", "create", "look", "count"} => m \in Inbound
    /\ \A m \in W!Messages : phase[m] = "emit" => m \in Answers

\* A message is stored where its request was bound for, late in that request.
Placed ==
    \A m \in W!Messages : where[m] # W!None =>
        at[m] = where[m] /\ phase[m] \in {"look", "count", "emit", "answer", "done"}

\* The page knows of no message whose sending has not begun.
Begun == \A m \in W!Messages : (shown[m] # 0 \/ m \in answer \cup wire) => phase[m] # "idle"

\* A request that is about to store its message found the conversation there.
Bound == \A m \in W!Messages : phase[m] = "save" => at[m] \in convs \/ m \in doomed

\* While requests do not overlap, one at most is at work, and one that goes on to
\* make a thread is right that there is none.
OneAtWork == ~overlap =>
    /\ \A m, n \in W!Running : m = n
    /\ \A m \in W!Messages : phase[m] = "create" => convs \ Foreign = {}
    /\ \A c, d \in convs \ Foreign : c = d

\* A message the page has sent since its listing came is not in the list before its
\* answer comes.
NotYetShown ==
    /\ \A m \in W!Messages \ raced : shown[m] <= 1
    /\ \A m \in mine \ raced : page.get = "done" /\ (phase[m] # "done" => shown[m] = 0)

\* Who has asked to look, or looks, is connected or left before that was over.
Watched == \A v \in joining \cup viewers : v[1] \in connected \/ v \in late

ChatInv ==
    /\ W!TypeOK /\ Roles /\ Placed /\ Begun
    /\ W!NoneOverlooked /\ Bound /\ W!NoOrphans
    /\ OneAtWork /\ NotYetShown /\ Watched

USE DEF W!conversations, W!messages, W!requests, W!agents, W!gateway, W!list, W!browser, W!network, W!history,
        W!vars, W!GoTo

-----------------------------------------------------------------------------
LEMMA ChatBegins == MCInit => ChatInv
<1> SUFFICES ASSUME W!Init PROVE ChatInv BY DEF MCInit
<1>1. budget \in [W!Kinds -> Nat] BY WidgetFacts DEF W!Init
<1>2. W!TypeOK BY <1>1, WidgetFacts DEF W!Init, W!TypeOK, W!Resting, W!Steps, None, W!None
<1>3. Roles /\ Placed /\ Begun BY DEF W!Init, Roles, Placed, Begun
<1>4. W!NoneOverlooked BY WidgetFacts DEF W!Init, W!NoneOverlooked, W!None, W!Messages
<1>5. Bound /\ W!NoOrphans BY DEF W!Init, Bound, W!NoOrphans
<1>6. OneAtWork BY DEF W!Init, OneAtWork, W!Running, W!Messages
<1>7. NotYetShown /\ Watched BY DEF W!Init, NotYetShown, Watched
<1>8. QED BY <1>2, <1>3, <1>4, <1>5, <1>6, <1>7 DEF ChatInv

-----------------------------------------------------------------------------
LEMMA BudgetKept ==
    ASSUME budget \in [W!Kinds -> Nat], NEW kind \in W!Kinds, W!Spend(kind)
    PROVE  budget' \in [W!Kinds -> Nat]
  BY DEF W!Spend

\* The type, but for the two variables that are true or false.
Typed ==
    /\ convs \subseteq Threads
    /\ unread \in [Threads -> Nat] /\ subject \in [Threads -> Inbound \cup {W!Nobody}]
    /\ where \in [W!Messages -> Threads \cup {W!None}]
    /\ status \in [W!Messages -> {W!None, "sent", "delivered", "read"}]
    /\ phase \in [W!Messages -> W!Steps] /\ at \in [W!Messages -> Threads \cup {W!None}]
    /\ generic \subseteq Inbound /\ enriching \subseteq Inbound
    /\ marking \in [step : {"rest", "reset", "update"}, on : Threads \cup {W!None}, ids : {{}}]
    /\ removal \in [step : {"rest", "threads", "messages"}, on : Threads \cup {W!None}, ids : SUBSET Threads]
    /\ connected \subseteq Sockets
    /\ joining \subseteq Sockets \X Threads /\ viewers \subseteq Sockets \X Threads
    /\ page \in [get : {"closed", "asked", "answered", "done"}, joined : BOOLEAN, open : BOOLEAN]
    /\ answer \subseteq W!Messages /\ shown \in [W!Messages -> Nat]
    /\ temps \subseteq Inbound /\ mine \subseteq Inbound
    /\ wire \subseteq Answers
    /\ overlap \in BOOLEAN /\ doomed \subseteq W!Messages /\ seen \subseteq Inbound
    /\ crashed \in BOOLEAN /\ late \subseteq Sockets \X Threads /\ raced \subseteq Inbound /\ promised \subseteq Answers
    /\ budget \in [W!Kinds -> Nat]

LEMMA TypedTwice ==
    ASSUME Typed', typing' \in BOOLEAN, notes' \in BOOLEAN PROVE W!TypeOK'
  BY Zenon DEF Typed, W!TypeOK

\* What the page does by itself.
PageStep ==
    \/ W!LoadPage \/ W!AnswerLoad \/ W!loadMessages \/ W!LoadFails \/ W!Connect \/ W!Drop \/ W!toggleChat
    \/ W!setAdminTyping \/ W!adminTypingTimeout \/ \E a \in Answers : W!Receive(a)

LEMMA PageTyped == ASSUME W!TypeOK, PageStep PROVE W!TypeOK'
<1>1. CASE W!LoadPage
  <2>1. budget' \in [W!Kinds -> Nat] BY <1>1, BudgetKept DEF W!LoadPage, W!TypeOK, W!Kinds
  <2>2. QED BY <1>1, <2>1 DEF W!LoadPage, W!TypeOK
<1>2. CASE W!AnswerLoad BY <1>2 DEF W!AnswerLoad, W!TypeOK
<1>3. CASE W!loadMessages BY <1>3 DEF W!loadMessages, W!TypeOK
<1>4. CASE W!LoadFails
  <2>1. budget' \in [W!Kinds -> Nat] BY <1>4, BudgetKept DEF W!LoadFails, W!TypeOK, W!Kinds
  <2>2. QED BY <1>4, <2>1 DEF W!LoadFails, W!TypeOK
<1>5. CASE W!Connect BY <1>5 DEF W!Connect, W!TypeOK
<1>6. CASE W!Drop
  <2>1. budget' \in [W!Kinds -> Nat] BY <1>6, BudgetKept DEF W!Drop, W!TypeOK, W!Kinds
  <2>2. QED BY <1>6, <2>1 DEF W!Drop, W!TypeOK
<1>7. CASE W!toggleChat
  <2>1. budget' \in [W!Kinds -> Nat] BY <1>7, BudgetKept DEF W!toggleChat, W!TypeOK, W!Kinds
  <2>2. QED BY <1>7, <2>1 DEF W!toggleChat, W!TypeOK
<1>8. CASE W!setAdminTyping
  <2>1. budget' \in [W!Kinds -> Nat] BY <1>8, BudgetKept DEF W!setAdminTyping, W!TypeOK, W!Kinds
  <2>2. QED BY <1>8, <2>1 DEF W!setAdminTyping, W!TypeOK
<1>9. CASE W!adminTypingTimeout
  <2>1. Typed' BY <1>9 DEF W!adminTypingTimeout, W!TypeOK, Typed
  <2>2. typing' \in BOOLEAN BY <1>9 DEF W!adminTypingTimeout, W!TypeOK
  <2>3. notes' \in BOOLEAN BY <1>9 DEF W!adminTypingTimeout, W!TypeOK
  <2>4. QED BY <2>1, <2>2, <2>3, TypedTwice
<1>10. ASSUME NEW a \in Answers, W!Receive(a) PROVE W!TypeOK'
  <2>1. Typed' BY <1>10 DEF W!Receive, W!ReceivedAs, W!TypeOK, W!Messages, Typed
  <2>2. typing' \in BOOLEAN BY <1>10 DEF W!Receive, W!TypeOK
  <2>3. notes' \in BOOLEAN BY <1>10 DEF W!Receive, W!TypeOK
  <2>4. QED BY <2>1, <2>2, <2>3, TypedTwice
<1>11. QED BY <1>1, <1>2, <1>3, <1>4, <1>5, <1>6, <1>7, <1>8, <1>9, <1>10 DEF PageStep

\* What becomes of the request of a message of the visitor, seen from his page.
PostStep(m) ==
    \/ W!sendMessage(m) \/ W!sendImageWithCaption(m) \/ W!Uploaded(m) \/ W!Answered(m) \/ W!RequestLost(m)
    \/ W!Refused(m)

LEMMA PostTyped == ASSUME W!TypeOK, NEW m \in Inbound, PostStep(m) PROVE W!TypeOK'
<1>0. m \in W!Messages BY DEF W!Messages
<1>1. CASE W!sendMessage(m)
  <2>1. budget' \in [W!Kinds -> Nat] BY <1>1, BudgetKept DEF W!sendMessage, W!TypeOK, W!Kinds
  <2>2. QED BY <1>0, <1>1, <2>1 DEF W!sendMessage, W!TypeOK, W!Steps
<1>2. CASE W!sendImageWithCaption(m)
  <2>1. budget' \in [W!Kinds -> Nat] BY <1>2, BudgetKept DEF W!sendImageWithCaption, W!TypeOK, W!Kinds
  <2>2. QED BY <1>0, <1>2, <2>1 DEF W!sendImageWithCaption, W!TypeOK, W!Steps
<1>3. CASE W!Uploaded(m) BY <1>0, <1>3 DEF W!Uploaded, W!TypeOK, W!Steps
<1>4. CASE W!Answered(m)
  <2>1. Typed' BY <1>0, <1>4 DEF W!Answered, W!TypeOK, W!Steps, Typed
  <2>2. typing' \in BOOLEAN BY <1>0, <1>4 DEF W!Answered, W!TypeOK
  <2>3. notes' \in BOOLEAN BY <1>0, <1>4 DEF W!Answered, W!TypeOK
  <2>4. QED BY <2>1, <2>2, <2>3, TypedTwice
<1>5. CASE W!RequestLost(m)
  <2>1. budget' \in [W!Kinds -> Nat] BY <1>5, BudgetKept DEF W!RequestLost, W!TypeOK, W!Kinds
  <2>2. QED BY <1>0, <1>5, <2>1 DEF W!RequestLost, W!TypeOK, W!Steps
<1>6. CASE W!Refused(m)
  <2>1. budget' \in [W!Kinds -> Nat] BY <1>6, BudgetKept DEF W!Refused, W!TypeOK, W!Kinds
  <2>2. QED BY <1>0, <1>6, <2>1 DEF W!Refused, W!TypeOK, W!Steps
<1>7. QED BY <1>1, <1>2, <1>3, <1>4, <1>5, <1>6 DEF PostStep

LEMMA HandleTyped == ASSUME W!TypeOK, Roles, NEW m \in W!Messages, W!Handle(m) PROVE W!TypeOK'
<1>1. CASE W!Find(m) BY <1>1 DEF W!Find, W!findByWidgetVisitor, W!TypeOK, W!Steps
<1>2. CASE W!Create(m) BY <1>2 DEF W!Create, Roles, W!TypeOK, W!Steps
<1>3. CASE W!LoadThread(m) BY <1>3 DEF W!LoadThread, W!TypeOK, W!Steps
<1>4. CASE W!Save(m) BY <1>4 DEF W!Save, W!TypeOK, W!Steps
<1>5. CASE W!Look(m) BY <1>5 DEF W!Look, Roles, W!TypeOK, W!Steps
<1>6. CASE W!Count(m) BY <1>6 DEF W!Count, Roles, W!TypeOK, W!Steps
<1>7. CASE W!Emit(m) BY <1>7 DEF W!Emit, Roles, W!TypeOK, W!Steps
<1>8. QED BY <1>1, <1>2, <1>3, <1>4, <1>5, <1>6, <1>7 DEF W!Handle

\* What agents do to conversations and to those who look at them.
AgentStep ==
    \/ \E a \in Answers, c \in Threads : W!Reply(a, c)
    \/ \E c \in Threads : W!markAsRead(c) \/ W!remove(c)
    \/ W!MarkStep \/ W!RemoveThreads \/ W!RemoveMessages

GatewayStep ==
    \/ \E s \in Sockets, c \in Threads :
           W!JoinAsked(s, c) \/ W!handleAdminJoinWidget(s, c) \/ W!handleAdminLeaveWidget(s, c)
    \/ \E s \in Sockets : W!handleDisconnect(s)

LEMMA AgentTyped == ASSUME W!TypeOK, AgentStep PROVE W!TypeOK'
<1>1. ASSUME NEW a \in Answers, NEW c \in Threads, W!Reply(a, c) PROVE W!TypeOK'
  <2>1. budget' \in [W!Kinds -> Nat] BY <1>1, BudgetKept DEF W!Reply, W!TypeOK, W!Kinds
  <2>2. QED BY <1>1, <2>1 DEF W!Reply, W!TypeOK, W!Steps, W!Messages
<1>2. ASSUME NEW c \in Threads, W!markAsRead(c) PROVE W!TypeOK'
  <2>1. budget' \in [W!Kinds -> Nat] BY <1>2, BudgetKept DEF W!markAsRead, W!TypeOK, W!Kinds
  <2>2. QED BY <1>2, <2>1 DEF W!markAsRead, W!TypeOK, W!Resting
<1>3. ASSUME NEW c \in Threads, W!remove(c) PROVE W!TypeOK'
  <2>1. budget' \in [W!Kinds -> Nat] BY <1>3, BudgetKept DEF W!remove, W!TypeOK, W!Kinds
  <2>2. removal' \in [step : {"rest", "threads", "messages"}, on : Threads \cup {W!None}, ids : SUBSET Threads]
    BY <1>3 DEF W!remove, W!TypeOK, W!Matching
  <2>3. QED BY <1>3, <2>1, <2>2 DEF W!remove, W!TypeOK
<1>4. CASE W!MarkStep
  <2>1. marking' \in [step : {"rest", "reset", "update"}, on : Threads \cup {W!None}, ids : {{}}]
    BY <1>4 DEF W!MarkStep, W!TypeOK, W!Resting
  <2>2. unread' \in [Threads -> Nat] BY <1>4 DEF W!MarkStep, W!MarkEffect, W!ResetCounter, W!TypeOK
  <2>3. status' \in [W!Messages -> {W!None, "sent", "delivered", "read"}]
    BY <1>4 DEF W!MarkStep, W!MarkEffect, W!MarkMessages, W!TypeOK
  <2>4. QED BY <1>4, <2>1, <2>2, <2>3 DEF W!MarkStep, W!TypeOK
<1>5. CASE W!RemoveThreads BY <1>5 DEF W!RemoveThreads, W!TypeOK
<1>6. CASE W!RemoveMessages BY <1>6 DEF W!RemoveMessages, W!TypeOK, W!Resting
<1>7. QED BY <1>1, <1>2, <1>3, <1>4, <1>5, <1>6 DEF AgentStep

LEMMA GatewayTyped == ASSUME W!TypeOK, GatewayStep PROVE W!TypeOK'
<1>1. ASSUME NEW s \in Sockets, NEW c \in Threads, W!JoinAsked(s, c) PROVE W!TypeOK'
  <2>1. budget' \in [W!Kinds -> Nat] BY <1>1, BudgetKept DEF W!JoinAsked, W!TypeOK, W!Kinds
  <2>2. QED BY <1>1, <2>1 DEF W!JoinAsked, W!TypeOK
<1>2. ASSUME NEW s \in Sockets, NEW c \in Threads, W!handleAdminJoinWidget(s, c) PROVE W!TypeOK'
  BY <1>2 DEF W!handleAdminJoinWidget, W!TypeOK
<1>3. ASSUME NEW s \in Sockets, NEW c \in Threads, W!handleAdminLeaveWidget(s, c) PROVE W!TypeOK'
  BY <1>3 DEF W!handleAdminLeaveWidget, W!TypeOK
<1>4. ASSUME NEW s \in Sockets, W!handleDisconnect(s) PROVE W!TypeOK'
  BY <1>4 DEF W!handleDisconnect, W!TypeOK
<1>5. QED BY <1>1, <1>2, <1>3, <1>4 DEF GatewayStep

OtherStep ==
    \/ W!markMessagesAsRead \/ W!Crash \/ UNCHANGED W!vars
    \/ (\E m \in Inbound : W!Enrich(m)) \/ (\E m \in W!Messages : W!AnsweredWithError(m))

LEMMA OtherTyped == ASSUME W!TypeOK, OtherStep PROVE W!TypeOK'
<1>1. CASE W!markMessagesAsRead
  <2>1. Typed' BY <1>1 DEF W!markMessagesAsRead, W!TypeOK, Typed
  <2>2. typing' \in BOOLEAN BY <1>1 DEF W!markMessagesAsRead, W!TypeOK
  <2>3. notes' \in BOOLEAN BY <1>1 DEF W!markMessagesAsRead, W!TypeOK
  <2>4. QED BY <2>1, <2>2, <2>3, TypedTwice
<1>2. CASE W!Crash
  <2>1. budget' \in [W!Kinds -> Nat] BY <1>2, BudgetKept DEF W!Crash, W!TypeOK, W!Kinds
  <2>2. page' \in [get : {"closed", "asked", "answered", "done"}, joined : BOOLEAN, open : BOOLEAN]
    BY <1>2 DEF W!Crash, W!TypeOK
  <2>3. marking' \in [step : {"rest", "reset", "update"}, on : Threads \cup {W!None}, ids : {{}}]
    BY <1>2 DEF W!Crash, W!Resting
  <2>4. removal' \in [step : {"rest", "threads", "messages"}, on : Threads \cup {W!None}, ids : SUBSET Threads]
    BY <1>2 DEF W!Crash, W!Resting
  <2>5. QED BY <1>2, <2>1, <2>2, <2>3, <2>4 DEF W!Crash, W!TypeOK, W!Steps
<1>3. ASSUME NEW m \in Inbound, W!Enrich(m) PROVE W!TypeOK'
  BY <1>3 DEF W!Enrich, W!SubjectFree, W!TypeOK
<1>4. ASSUME NEW m \in W!Messages, W!AnsweredWithError(m) PROVE W!TypeOK'
  BY <1>4 DEF W!AnsweredWithError, W!TypeOK, W!Steps
<1>5. CASE UNCHANGED W!vars BY <1>5 DEF W!TypeOK
<1>6. QED BY <1>1, <1>2, <1>3, <1>4, <1>5 DEF OtherStep

\* Every step is one of these.
LEMMA StepIs ==
    ASSUME [W!Next]_(W!vars)
    PROVE  PageStep \/ (\E m \in Inbound : PostStep(m)) \/ (\E m \in W!Messages : W!Handle(m))
           \/ AgentStep \/ GatewayStep \/ OtherStep
<1>1. CASE W!Next BY <1>1, Zenon DEF W!Next, PageStep, PostStep, AgentStep, GatewayStep, OtherStep
<1>2. CASE UNCHANGED W!vars BY <1>2 DEF OtherStep
<1>3. QED BY <1>1, <1>2

LEMMA ChatTyped == ASSUME W!TypeOK, Roles, [W!Next]_(W!vars) PROVE W!TypeOK'
  BY StepIs, PageTyped, PostTyped, HandleTyped, AgentTyped, GatewayTyped, OtherTyped

-----------------------------------------------------------------------------
\* Steps that leave the messages and their requests alone.
LEMMA PageRests ==
    ASSUME PageStep
    PROVE  UNCHANGED <<convs, unread, subject, where, status, phase, at, generic, enriching, marking, removal,
                       connected, joining, viewers, overlap, doomed, seen, late, raced, crashed>>
  BY DEF PageStep, W!LoadPage, W!AnswerLoad, W!loadMessages, W!LoadFails, W!Connect, W!Drop, W!toggleChat,
         W!setAdminTyping, W!adminTypingTimeout, W!Receive

LEMMA GatewayRests ==
    ASSUME GatewayStep
    PROVE  UNCHANGED <<convs, unread, subject, where, status, phase, at, generic, enriching, marking, removal,
                       page, answer, shown, temps, mine, typing, wire, notes,
                       overlap, doomed, seen, raced, promised, crashed>>
  BY DEF GatewayStep, W!JoinAsked, W!handleAdminJoinWidget, W!handleAdminLeaveWidget, W!handleDisconnect

LEMMA PostRests ==
    ASSUME NEW m \in Inbound, PostStep(m)
    PROVE  UNCHANGED <<convs, unread, subject, where, status, at, generic, enriching, marking, removal,
                       connected, joining, viewers, page, answer, wire, notes,
                       doomed, seen, late, promised, crashed>>
  BY DEF PostStep, W!sendMessage, W!sendImageWithCaption, W!Uploaded, W!Answered, W!RequestLost, W!Refused

LEMMA HandleRests ==
    ASSUME NEW m \in W!Messages, W!Handle(m)
    PROVE  UNCHANGED <<marking, removal, connected, joining, viewers, page, answer, shown, temps, mine, typing,
                       notes, overlap, doomed, late, raced, crashed>>
  BY DEF W!Handle, W!Find, W!Create, W!LoadThread, W!Save, W!Look, W!Count, W!Emit

LEMMA AgentRests ==
    ASSUME AgentStep
    PROVE  UNCHANGED <<subject, generic, enriching, connected, joining, viewers,
                       page, answer, shown, temps, mine, typing, wire, notes,
                       overlap, seen, late, raced, promised, crashed>>
  BY DEF AgentStep, W!Reply, W!markAsRead, W!remove, W!MarkStep, W!RemoveThreads, W!RemoveMessages

\* A step of one message's request.
LEMMA PhaseMoves ==
    ASSUME W!TypeOK, NEW m \in W!Messages, NEW step, W!GoTo(m, step)
    PROVE  phase'[m] = step /\ \A n \in W!Messages : n # m => phase'[n] = phase[n]
  BY DEF W!TypeOK

\* What a request's step may be next.
LEMMA PostMoves ==
    ASSUME W!TypeOK, NEW m \in Inbound, PostStep(m)
    PROVE  /\ \A n \in W!Messages : n # m => phase'[n] = phase[n]
           /\ \/ phase[m] = "idle" /\ phase'[m] \in {"upload", "find"} /\ (overlap' <=> overlap \/ W!Running # {})
              \/ phase[m] = "upload" /\ phase'[m] \in {"find", "done"} /\ overlap' = overlap
              \/ phase[m] = "answer" /\ phase'[m] = "done" /\ overlap' = overlap
              \/ phase[m] = "find" /\ phase'[m] \in {"refused", "done"} /\ overlap' = overlap
              \/ phase'[m] = phase[m] /\ overlap' = overlap
<1>0. m \in W!Messages BY DEF W!Messages
<1>1. CASE W!sendMessage(m) BY <1>0, <1>1, PhaseMoves DEF W!sendMessage
<1>2. CASE W!sendImageWithCaption(m) BY <1>0, <1>2, PhaseMoves DEF W!sendImageWithCaption
<1>3. CASE W!Uploaded(m) BY <1>0, <1>3, PhaseMoves DEF W!Uploaded
<1>4. CASE W!Answered(m) BY <1>0, <1>4, PhaseMoves DEF W!Answered
<1>5. CASE W!RequestLost(m) BY <1>0, <1>5, PhaseMoves DEF W!RequestLost
<1>6. CASE W!Refused(m) BY <1>0, <1>6, PhaseMoves DEF W!Refused
<1>7. QED BY <1>1, <1>2, <1>3, <1>4, <1>5, <1>6 DEF PostStep

LEMMA HandleMoves ==
    ASSUME W!TypeOK, NEW m \in W!Messages, W!Handle(m)
    PROVE  /\ \A n \in W!Messages : n # m => phase'[n] = phase[n]
           /\ \/ phase[m] = "find" /\ phase'[m] \in {"load", "create"} /\ m \in Inbound
              \/ phase[m] = "create" /\ phase'[m] = "load"
              \/ phase[m] = "load" /\ phase'[m] \in {"save", "refused"}
              \/ phase[m] = "save" /\ phase'[m] = IF m \in Inbound THEN "look" ELSE "emit"
              \/ phase[m] = "look" /\ phase'[m] \in {"answer", "count"}
              \/ phase[m] = "count" /\ phase'[m] = "answer"
              \/ phase[m] = "emit" /\ phase'[m] = "done"
<1>1. CASE W!Find(m) BY <1>1, PhaseMoves DEF W!Find
<1>2. CASE W!Create(m) BY <1>2, PhaseMoves DEF W!Create
<1>3. CASE W!LoadThread(m) BY <1>3, PhaseMoves DEF W!LoadThread
<1>4. CASE W!Save(m) BY <1>4, PhaseMoves DEF W!Save
<1>5. CASE W!Look(m) BY <1>5, PhaseMoves DEF W!Look
<1>6. CASE W!Count(m) BY <1>6, PhaseMoves DEF W!Count
<1>7. CASE W!Emit(m) BY <1>7, PhaseMoves DEF W!Emit
<1>8. QED BY <1>1, <1>2, <1>3, <1>4, <1>5, <1>6, <1>7 DEF W!Handle

\* An agent's step begins the sending of an answer, or moves no request.
LEMMA AgentMoves ==
    ASSUME W!TypeOK, AgentStep
    PROVE  \/ UNCHANGED phase
           \/ \E a \in Answers : /\ phase[a] = "idle" /\ phase'[a] = "load"
                                 /\ \A n \in W!Messages : n # a => phase'[n] = phase[n]
<1>1. ASSUME NEW a \in Answers, NEW c \in Threads, W!Reply(a, c)
      PROVE  \E b \in Answers : /\ phase[b] = "idle" /\ phase'[b] = "load"
                                /\ \A n \in W!Messages : n # b => phase'[n] = phase[n]
  <2>1. a \in W!Messages BY DEF W!Messages
  <2>2. phase[a] = "idle" /\ W!GoTo(a, "load") BY <1>1 DEF W!Reply
  <2>3. phase'[a] = "load" /\ \A n \in W!Messages : n # a => phase'[n] = phase[n] BY <2>1, <2>2, PhaseMoves
  <2>4. QED BY <2>2, <2>3
<1>2. QED BY <1>1 DEF AgentStep, W!markAsRead, W!remove, W!MarkStep, W!RemoveThreads, W!RemoveMessages

LEMMA OtherMoves ==
    ASSUME W!TypeOK, OtherStep
    PROVE  \/ UNCHANGED phase
           \/ crashed' = TRUE /\ enriching' = {}
              /\ \A n \in W!Messages : phase'[n] = IF phase[n] = "idle" THEN "idle" ELSE "done"
           \/ \E m \in W!Messages : /\ phase[m] = "refused" /\ phase'[m] = "done"
                                    /\ \A n \in W!Messages : n # m => phase'[n] = phase[n]
<1>1. CASE W!Crash BY <1>1 DEF W!Crash
<1>2. ASSUME NEW m \in W!Messages, W!AnsweredWithError(m)
      PROVE  \E n \in W!Messages : /\ phase[n] = "refused" /\ phase'[n] = "done"
                                   /\ \A k \in W!Messages : k # n => phase'[k] = phase[k]
  BY <1>2, PhaseMoves DEF W!AnsweredWithError
<1>3. QED BY <1>1, <1>2 DEF OtherStep, W!markMessagesAsRead, W!Enrich

LEMMA RolesKept == ASSUME W!TypeOK, Roles, [W!Next]_(W!vars) PROVE Roles'
<1>1. CASE PageStep BY <1>1, PageRests DEF Roles
<1>2. ASSUME NEW m \in Inbound, PostStep(m) PROVE Roles' BY <1>2, PostMoves DEF Roles
<1>3. ASSUME NEW m \in W!Messages, W!Handle(m) PROVE Roles' BY <1>3, HandleMoves DEF Roles, W!Messages
<1>4. CASE AgentStep BY <1>4, AgentMoves DEF Roles
<1>5. CASE GatewayStep BY <1>5, GatewayRests DEF Roles
<1>6. CASE OtherStep BY <1>6, OtherMoves DEF Roles
<1>7. QED BY StepIs, <1>1, <1>2, <1>3, <1>4, <1>5, <1>6

\* Nothing that was begun is begun again.
LEMMA BegunOnce ==
    ASSUME W!TypeOK, [W!Next]_(W!vars), NEW m \in W!Messages, phase'[m] = "idle"
    PROVE  phase[m] = "idle"
<1>1. CASE PageStep BY <1>1, PageRests
<1>2. ASSUME NEW n \in Inbound, PostStep(n) PROVE phase[m] = "idle" BY <1>2, PostMoves
<1>3. ASSUME NEW n \in W!Messages, W!Handle(n) PROVE phase[m] = "idle" BY <1>3, HandleMoves
<1>4. CASE AgentStep BY <1>4, AgentMoves
<1>5. CASE GatewayStep BY <1>5, GatewayRests
<1>6. CASE OtherStep BY <1>6, OtherMoves
<1>7. QED BY StepIs, <1>1, <1>2, <1>3, <1>4, <1>5, <1>6

LEMMA PlacedKept == ASSUME W!TypeOK, Placed, [W!Next]_(W!vars) PROVE Placed'
<1>1. CASE PageStep BY <1>1, PageRests DEF Placed
<1>2. ASSUME NEW m \in Inbound, PostStep(m) PROVE Placed'
  <2>1. UNCHANGED <<where, at>> BY <1>2, PostRests
  <2>2. QED BY <1>2, <2>1, PostMoves DEF Placed
<1>3. ASSUME NEW m \in W!Messages, W!Handle(m) PROVE Placed'
  <2>1. CASE W!Find(m) \/ W!Create(m)
    <3>1. phase[m] \in {"find", "create"} /\ where' = where /\ \A n \in W!Messages : n # m => at'[n] = at[n]
      BY <2>1 DEF W!Find, W!Create, W!TypeOK
    <3>2. where[m] = W!None BY <3>1 DEF Placed
    <3>3. QED BY <1>3, <3>1, <3>2, HandleMoves DEF Placed
  <2>2. CASE W!Save(m)
    <3>1. /\ at' = at /\ where'[m] = at[m] /\ (\A n \in W!Messages : n # m => where'[n] = where[n])
          /\ phase'[m] \in {"look", "emit"} /\ \A n \in W!Messages : n # m => phase'[n] = phase[n]
      BY <2>2 DEF W!Save, W!TypeOK
    <3>2. QED BY <3>1 DEF Placed
  <2>3. CASE W!LoadThread(m) \/ W!Look(m) \/ W!Count(m) \/ W!Emit(m)
    <3>1. UNCHANGED <<where, at>> BY <2>3 DEF W!LoadThread, W!Look, W!Count, W!Emit
    <3>2. QED BY <1>3, <3>1, HandleMoves DEF Placed
  <2>4. QED BY <1>3, <2>1, <2>2, <2>3 DEF W!Handle
<1>4. CASE AgentStep
  <2>1. ASSUME NEW a \in Answers, NEW c \in Threads, W!Reply(a, c) PROVE Placed'
    <3>1. a \in W!Messages /\ phase[a] = "idle" /\ where' = where /\ \A n \in W!Messages : n # a => at'[n] = at[n] /\ phase'[n] = phase[n]
      BY <2>1 DEF W!Reply, W!TypeOK, W!Messages
    <3>2. where[a] = W!None BY <3>1 DEF Placed
    <3>3. QED BY <3>1, <3>2 DEF Placed
  <2>2. CASE W!RemoveMessages
    <3>1. UNCHANGED <<phase, at>> /\ \A m \in W!Messages : where'[m] \in {where[m], W!None} BY <2>2 DEF W!RemoveMessages
    <3>2. QED BY <3>1 DEF Placed
  <2>3. CASE W!MarkStep \/ W!RemoveThreads \/ \E c \in Threads : W!markAsRead(c) \/ W!remove(c)
    <3>1. UNCHANGED <<where, phase, at>> BY <2>3 DEF W!MarkStep, W!RemoveThreads, W!markAsRead, W!remove
    <3>2. QED BY <3>1 DEF Placed
  <2>4. QED BY <1>4, <2>1, <2>2, <2>3 DEF AgentStep
<1>5. CASE GatewayStep BY <1>5, GatewayRests DEF Placed
<1>6. CASE OtherStep
  <2>1. UNCHANGED <<where, at>> BY <1>6 DEF OtherStep, W!markMessagesAsRead, W!Crash, W!Enrich, W!AnsweredWithError
  <2>2. QED BY <1>6, <2>1, OtherMoves DEF Placed
<1>7. QED BY StepIs, <1>1, <1>2, <1>3, <1>4, <1>5, <1>6

\* What the page shows, awaits or is sent.
LEMMA BegunKept == ASSUME W!TypeOK, Placed, Begun, [W!Next]_(W!vars) PROVE Begun'
<1> SUFFICES ASSUME NEW m \in W!Messages, phase'[m] = "idle" PROVE shown'[m] = 0 /\ m \notin answer' /\ m \notin wire'
  BY DEF Begun
<1>1. phase[m] = "idle" BY BegunOnce
<1>2. shown[m] = 0 /\ m \notin answer /\ m \notin wire /\ where[m] = W!None BY <1>1 DEF Begun, Placed
<1>3. CASE PageStep
  <2>1. CASE W!AnswerLoad
    <3>1. m \notin answer' BY <1>2, <2>1, WidgetFacts DEF W!AnswerLoad, W!findByWidgetVisitor, W!TypeOK
    <3>2. QED BY <1>2, <2>1, <3>1 DEF W!AnswerLoad
  <2>2. CASE W!loadMessages BY <1>2, <2>2 DEF W!loadMessages
  <2>3. CASE W!LoadPage BY <1>2, <2>3 DEF W!LoadPage
  <2>4. ASSUME NEW a \in Answers, W!Receive(a) PROVE shown'[m] = 0 /\ m \notin answer' /\ m \notin wire'
    <3>1. a # m BY <1>2, <2>4 DEF W!Receive
    <3>2. QED BY <1>2, <2>4, <3>1 DEF W!Receive, W!TypeOK
  <2>5. CASE W!LoadFails \/ W!Connect \/ W!Drop \/ W!toggleChat \/ W!setAdminTyping \/ W!adminTypingTimeout
    BY <1>2, <2>5 DEF W!LoadFails, W!Connect, W!Drop, W!toggleChat, W!setAdminTyping, W!adminTypingTimeout
  <2>6. QED BY <1>3, <2>1, <2>2, <2>3, <2>4, <2>5 DEF PageStep
<1>4. ASSUME NEW n \in Inbound, PostStep(n) PROVE shown'[m] = 0 /\ m \notin answer' /\ m \notin wire'
  <2>1. shown'[m] = 0
    <3>1. CASE W!Answered(n)
      <4>1. n # m BY <1>1, <3>1 DEF W!Answered
      <4>2. QED BY <1>2, <3>1, <4>1 DEF W!Answered, W!TypeOK
    <3>2. CASE ~W!Answered(n)
      BY <1>2, <1>4, <3>2 DEF PostStep, W!sendMessage, W!sendImageWithCaption, W!Uploaded, W!RequestLost, W!Refused
    <3>3. QED BY <3>1, <3>2
  <2>2. QED BY <1>2, <1>4, <2>1, PostRests
<1>5. ASSUME NEW n \in W!Messages, W!Handle(n) PROVE shown'[m] = 0 /\ m \notin answer' /\ m \notin wire'
  <2>1. m \notin wire'
    <3>1. CASE W!Emit(n)
      <4>1. n # m BY <1>1, <3>1 DEF W!Emit
      <4>2. QED BY <1>2, <3>1, <4>1 DEF W!Emit
    <3>2. CASE ~W!Emit(n)
      BY <1>2, <1>5, <3>2 DEF W!Handle, W!Find, W!Create, W!LoadThread, W!Save, W!Look, W!Count
    <3>3. QED BY <3>1, <3>2
  <2>2. QED BY <1>2, <1>5, <2>1, HandleRests
<1>6. CASE AgentStep BY <1>2, <1>6, AgentRests
<1>7. CASE GatewayStep BY <1>2, <1>7, GatewayRests
<1>8. CASE OtherStep BY <1>2, <1>8 DEF OtherStep, W!markMessagesAsRead, W!Crash, W!Enrich, W!AnsweredWithError
<1>9. QED BY StepIs, <1>3, <1>4, <1>5, <1>6, <1>7, <1>8

-----------------------------------------------------------------------------
\* Nothing is overlooked.
Noticed(m) == status[m] = "read" \/ m \in seen \/ phase[m] \in {"look", "count"}

LEMMA OverlookedSays ==
    W!NoneOverlooked <=> \A c \in convs : (unread[c] = 0 /\ marking.on # c /\ ~crashed)
                             => \A m \in Inbound : where[m] = c => Noticed(m)
  BY DEF W!NoneOverlooked, Noticed

\* A step that touches neither counters nor marks.
LEMMA OverlookedRests ==
    ASSUME W!NoneOverlooked, UNCHANGED <<unread, marking, crashed>>, convs' \subseteq convs,
           \A m \in Inbound : (where'[m] \in convs' => where'[m] = where[m]) /\ (Noticed(m) => Noticed(m)')
    PROVE  W!NoneOverlooked'
<1> SUFFICES ASSUME NEW c \in convs', unread'[c] = 0, marking'.on # c, ~crashed', NEW m \in Inbound, where'[m] = c
             PROVE  Noticed(m)'
  BY DEF W!NoneOverlooked, Noticed
<1>1. c \in convs /\ unread[c] = 0 /\ marking.on # c /\ ~crashed /\ where[m] = c OBVIOUS
<1>2. Noticed(m) BY <1>1, OverlookedSays
<1>3. QED BY <1>2

LEMMA OverlookedByHandlers ==
    ASSUME W!TypeOK, Placed, W!NoneOverlooked, NEW n \in W!Messages, W!Handle(n)
    PROVE  W!NoneOverlooked'
<1>0. \A m \in Inbound : m \in W!Messages BY DEF W!Messages
<1>1. CASE W!Find(n) \/ W!LoadThread(n) \/ W!Emit(n)
  <2>1. UNCHANGED <<convs, unread, marking, crashed, where, status, seen>>
    BY <1>1 DEF W!Find, W!LoadThread, W!Emit
  <2>2. phase[n] \notin {"look", "count"} BY <1>1 DEF W!Find, W!LoadThread, W!Emit
  <2>3. \A m \in Inbound : Noticed(m) => Noticed(m)' BY <1>0, <2>1, <2>2, HandleMoves DEF Noticed
  <2>4. QED BY <2>1, <2>3, OverlookedRests
<1>2. CASE W!Create(n)
  <2>1. PICK d \in Threads \ convs : /\ \A m \in W!Messages : at[m] # d
                                     /\ convs' = convs \cup {d} /\ unread' = [unread EXCEPT ![d] = 0]
    BY <1>2 DEF W!Create
  <2>2. UNCHANGED <<marking, crashed, where, status, seen>> /\ phase[n] = "create" BY <1>2 DEF W!Create
  <2> SUFFICES ASSUME NEW c \in convs', unread'[c] = 0, marking'.on # c, ~crashed', NEW m \in Inbound, where'[m] = c
               PROVE  Noticed(m)'
    BY DEF W!NoneOverlooked, Noticed
  <2>3. at[m] = c
    <3>1. where[m] = c /\ c \in Threads BY <2>1, <2>2 DEF W!TypeOK
    <3>2. QED BY <1>0, <3>1, WidgetFacts DEF Placed
  <2>4. c \in convs /\ c # d BY <1>0, <2>1, <2>3
  <2>5. unread[c] = 0 BY <2>1, <2>4 DEF W!TypeOK
  <2>6. Noticed(m) BY <2>2, <2>4, <2>5, OverlookedSays
  <2>7. QED BY <1>0, <2>2, <2>6, HandleMoves DEF Noticed
<1>3. CASE W!Save(n)
  <2>1. UNCHANGED <<convs, unread, marking, crashed, seen>> BY <1>3 DEF W!Save
  <2>2. /\ \A m \in W!Messages : m # n => where'[m] = where[m] /\ status'[m] = status[m] /\ phase'[m] = phase[m]
        /\ n \in Inbound => phase'[n] = "look"
    BY <1>3 DEF W!Save, W!TypeOK
  <2> SUFFICES ASSUME NEW c \in convs', unread'[c] = 0, marking'.on # c, ~crashed', NEW m \in Inbound, where'[m] = c
               PROVE  Noticed(m)'
    BY DEF W!NoneOverlooked, Noticed
  <2>3. CASE m = n BY <2>2, <2>3 DEF Noticed
  <2>4. CASE m # n
    <3>1. Noticed(m) BY <1>0, <2>1, <2>2, <2>4, OverlookedSays
    <3>2. QED BY <1>0, <2>1, <2>2, <2>4, <3>1 DEF Noticed
  <2>5. QED BY <2>3, <2>4
<1>4. CASE W!Look(n)
  <2>1. UNCHANGED <<convs, unread, marking, crashed, where, status>> BY <1>4 DEF W!Look
  <2>2. /\ \A m \in seen : m \in seen'
        /\ n \in seen' \/ phase'[n] = "count"
        /\ \A m \in W!Messages : m # n => phase'[m] = phase[m]
    BY <1>4 DEF W!Look, W!TypeOK
  <2>3. \A m \in Inbound : Noticed(m) => Noticed(m)' BY <1>0, <2>1, <2>2 DEF Noticed
  <2>4. QED BY <2>1, <2>3, OverlookedRests
<1>5. CASE W!Count(n)
  <2>1. UNCHANGED <<convs, marking, crashed, where, status, seen, at>> /\ phase[n] = "count" BY <1>5 DEF W!Count
  <2>2. /\ at[n] \in convs => unread'[at[n]] # 0
        /\ \A c \in Threads : c # at[n] => unread'[c] = unread[c]
    <3>1. CASE at[n] \in convs
      <4>1. at[n] \in Threads /\ unread[at[n]] \in Nat /\ unread' = [unread EXCEPT ![at[n]] = @ + 1]
        BY <1>5, <3>1 DEF W!Count, W!TypeOK
      <4>2. QED BY <4>1 DEF W!TypeOK
    <3>2. CASE at[n] \notin convs BY <1>5, <3>2 DEF W!Count
    <3>3. QED BY <3>1, <3>2
  <2> SUFFICES ASSUME NEW c \in convs', unread'[c] = 0, marking'.on # c, ~crashed', NEW m \in Inbound, where'[m] = c
               PROVE  Noticed(m)'
    BY DEF W!NoneOverlooked, Noticed
  <2>3. c \in Threads /\ c \in convs BY <2>1 DEF W!TypeOK
  <2>4. c # at[n] BY <2>2, <2>3
  <2>5. Noticed(m) BY <2>1, <2>2, <2>3, <2>4, OverlookedSays
  <2>6. m # n
    <3>1. at[m] = c BY <1>0, <2>1, <2>3, WidgetFacts DEF Placed
    <3>2. QED BY <2>4, <3>1
  <2>7. QED BY <1>0, <2>1, <2>5, <2>6, HandleMoves DEF Noticed
<1>6. QED BY <1>1, <1>2, <1>3, <1>4, <1>5 DEF W!Handle

LEMMA OverlookedByAgents ==
    ASSUME W!TypeOK, W!NoneOverlooked, AgentStep
    PROVE  W!NoneOverlooked'
<1>0. \A m \in Inbound : m \in W!Messages BY DEF W!Messages
<1>1. ASSUME NEW a \in Answers, NEW d \in Threads, W!Reply(a, d) PROVE W!NoneOverlooked'
  <2>1. UNCHANGED <<convs, unread, marking, crashed, where, status, seen>> BY <1>1 DEF W!Reply
  <2>2. \A m \in W!Messages : phase[m] \in {"look", "count"} => phase'[m] = phase[m]
    <3>1. a \in W!Messages /\ phase[a] = "idle" /\ W!GoTo(a, "load") BY <1>1 DEF W!Reply, W!Messages
    <3>2. QED BY <3>1, PhaseMoves
  <2>3. \A m \in Inbound : Noticed(m) => Noticed(m)' BY <1>0, <2>1, <2>2 DEF Noticed
  <2>4. QED BY <2>1, <2>3, OverlookedRests
<1>2. ASSUME NEW d \in Threads, W!markAsRead(d) PROVE W!NoneOverlooked'
  <2>1. UNCHANGED <<convs, unread, crashed, where, status, seen, phase>> /\ marking.on = W!None /\ marking'.on = d
    BY <1>2 DEF W!markAsRead, W!Resting
  <2> SUFFICES ASSUME NEW c \in convs', unread'[c] = 0, marking'.on # c, ~crashed', NEW m \in Inbound, where'[m] = c
               PROVE  Noticed(m)'
    BY DEF W!NoneOverlooked, Noticed
  <2>2. c \in convs /\ marking.on # c BY <2>1, WidgetFacts DEF W!TypeOK
  <2>3. Noticed(m) BY <2>1, <2>2, OverlookedSays
  <2>4. QED BY <2>1, <2>3 DEF Noticed
<1>3. CASE W!MarkStep
  <2>1. UNCHANGED <<convs, crashed, where, seen, phase>> BY <1>3 DEF W!MarkStep
  <2> SUFFICES ASSUME NEW c \in convs', unread'[c] = 0, marking'.on # c, ~crashed', NEW m \in Inbound, where'[m] = c
               PROVE  Noticed(m)'
    BY DEF W!NoneOverlooked, Noticed
  <2>2. CASE marking.step = "reset"
    <3>1. marking'.on = marking.on /\ status' = status /\ (marking.on # c => unread'[c] = unread[c])
      BY <1>3, <2>2 DEF W!MarkStep, W!MarkEffect, W!ResetCounter, W!TypeOK
    <3>2. Noticed(m) BY <2>1, <3>1, OverlookedSays
    <3>3. QED BY <2>1, <3>1, <3>2 DEF Noticed
  <2>3. CASE marking.step # "reset"
    <3>1. unread' = unread /\ W!MarkMessages(marking.on) BY <1>3, <2>3 DEF W!MarkStep, W!MarkEffect
    <3>2. status'[m] = IF where[m] = marking.on THEN "read" ELSE status[m] BY <1>0, <3>1 DEF W!MarkMessages
    <3>3. CASE marking.on = c BY <2>1, <3>2, <3>3 DEF Noticed
    <3>4. CASE marking.on # c
      <4>1. Noticed(m) BY <2>1, <3>1, <3>4, OverlookedSays
      <4>2. QED BY <2>1, <3>2, <4>1 DEF Noticed
    <3>5. QED BY <3>3, <3>4
  <2>4. QED BY <2>2, <2>3
<1>4. CASE W!RemoveMessages
  <2>1. UNCHANGED <<convs, unread, marking, crashed, seen, phase>> BY <1>4 DEF W!RemoveMessages
  <2>2. \A m \in W!Messages : /\ where'[m] = where[m] /\ status'[m] = status[m]
                              \/ where'[m] = W!None
    BY <1>4 DEF W!RemoveMessages
  <2> SUFFICES ASSUME NEW c \in convs', unread'[c] = 0, marking'.on # c, ~crashed', NEW m \in Inbound, where'[m] = c
               PROVE  Noticed(m)'
    BY DEF W!NoneOverlooked, Noticed
  <2>3. c \in Threads BY <2>1 DEF W!TypeOK
  <2>4. where[m] = c /\ status'[m] = status[m] BY <1>0, <2>2, <2>3, WidgetFacts
  <2>5. Noticed(m) BY <2>1, <2>4, OverlookedSays
  <2>6. QED BY <2>1, <2>4, <2>5 DEF Noticed
<1>5. CASE W!RemoveThreads \/ \E c \in Threads : W!remove(c)
  <2>1. UNCHANGED <<unread, marking, crashed, where, status, seen, phase>> /\ convs' \subseteq convs
    BY <1>5 DEF W!RemoveThreads, W!remove
  <2>2. \A m \in Inbound : Noticed(m) => Noticed(m)' BY <2>1 DEF Noticed
  <2>3. QED BY <2>1, <2>2, OverlookedRests
<1>6. QED BY <1>1, <1>2, <1>3, <1>4, <1>5 DEF AgentStep

LEMMA OverlookedKept ==
    ASSUME W!TypeOK, Placed, W!NoneOverlooked, [W!Next]_(W!vars)
    PROVE  W!NoneOverlooked'
<1>0. \A m \in Inbound : m \in W!Messages BY DEF W!Messages
<1>1. CASE PageStep
  <2>1. UNCHANGED <<convs, unread, marking, crashed, where, status, seen, phase>> BY <1>1, PageRests
  <2>2. QED BY <2>1, OverlookedRests DEF Noticed
<1>2. ASSUME NEW n \in Inbound, PostStep(n) PROVE W!NoneOverlooked'
  <2>1. UNCHANGED <<convs, unread, marking, crashed, where, status, seen>> BY <1>2, PostRests
  <2>2. \A m \in Inbound : Noticed(m) => Noticed(m)' BY <1>0, <1>2, <2>1, PostMoves DEF Noticed
  <2>3. QED BY <2>1, <2>2, OverlookedRests
<1>3. ASSUME NEW n \in W!Messages, W!Handle(n) PROVE W!NoneOverlooked' BY <1>3, OverlookedByHandlers
<1>4. CASE AgentStep BY <1>4, OverlookedByAgents
<1>5. CASE GatewayStep
  <2>1. UNCHANGED <<convs, unread, marking, crashed, where, status, seen, phase>> BY <1>5, GatewayRests
  <2>2. QED BY <2>1, OverlookedRests DEF Noticed
<1>6. CASE OtherStep
  <2>1. CASE W!Crash BY <2>1 DEF W!Crash, W!NoneOverlooked
  <2>2. CASE ~W!Crash
    <3>1. UNCHANGED <<convs, unread, marking, crashed, where, seen>>
      BY <1>6, <2>2 DEF OtherStep, W!markMessagesAsRead, W!Enrich, W!AnsweredWithError
    <3>2. \A m \in Inbound : status'[m] = status[m] \/ status'[m] = "read"
      BY <1>0, <1>6, <2>2 DEF OtherStep, W!markMessagesAsRead, W!Enrich, W!AnsweredWithError
    <3>3. \A m \in Inbound : phase[m] \in {"look", "count"} => phase'[m] = phase[m]
      <4>1. ASSUME NEW k \in W!Messages, W!AnsweredWithError(k)
            PROVE  \A m \in Inbound : phase[m] \in {"look", "count"} => phase'[m] = phase[m]
        BY <1>0, <4>1, PhaseMoves DEF W!AnsweredWithError
      <4>2. QED BY <1>6, <2>2, <4>1 DEF OtherStep, W!markMessagesAsRead, W!Enrich
    <3>4. \A m \in Inbound : Noticed(m) => Noticed(m)' BY <3>1, <3>2, <3>3 DEF Noticed
    <3>5. QED BY <3>1, <3>4, OverlookedRests
  <2>3. QED BY <2>1, <2>2
<1>7. QED BY StepIs, <1>1, <1>2, <1>3, <1>4, <1>5, <1>6

-----------------------------------------------------------------------------
\* A conversation disappears only by a removal, which knows what is on its way there.
LEMMA ThreadsStay ==
    ASSUME W!TypeOK, [W!Next]_(W!vars), ~W!RemoveThreads
    PROVE  convs \subseteq convs' /\ doomed' = doomed
<1>1. CASE PageStep BY <1>1, PageRests
<1>2. ASSUME NEW n \in Inbound, PostStep(n) PROVE convs \subseteq convs' /\ doomed' = doomed BY <1>2, PostRests
<1>3. ASSUME NEW n \in W!Messages, W!Handle(n) PROVE convs \subseteq convs' /\ doomed' = doomed
  <2>1. convs \subseteq convs'
    BY <1>3 DEF W!Handle, W!Find, W!Create, W!LoadThread, W!Save, W!Look, W!Count, W!Emit
  <2>2. QED BY <1>3, <2>1, HandleRests
<1>4. CASE AgentStep BY <1>4 DEF AgentStep, W!Reply, W!markAsRead, W!remove, W!MarkStep, W!RemoveMessages
<1>5. CASE GatewayStep BY <1>5, GatewayRests
<1>6. CASE OtherStep BY <1>6 DEF OtherStep, W!markMessagesAsRead, W!Crash, W!Enrich, W!AnsweredWithError
<1>7. QED BY StepIs, <1>1, <1>2, <1>3, <1>4, <1>5, <1>6

\* Who stores next has been let through by what it read, or was on its way before.
LEMMA StoresNext ==
    ASSUME W!TypeOK, [W!Next]_(W!vars), NEW m \in W!Messages, phase'[m] = "save"
    PROVE  at'[m] = at[m] /\ (phase[m] = "save" \/ at[m] \in convs)
<1>1. CASE PageStep BY <1>1, PageRests
<1>2. ASSUME NEW n \in Inbound, PostStep(n) PROVE at'[m] = at[m] /\ (phase[m] = "save" \/ at[m] \in convs)
  BY <1>2, PostRests, PostMoves
<1>3. ASSUME NEW n \in W!Messages, W!Handle(n) PROVE at'[m] = at[m] /\ (phase[m] = "save" \/ at[m] \in convs)
  <2>1. CASE W!Find(n) \/ W!Create(n)
    <3>1. n # m BY <2>1, PhaseMoves DEF W!Find, W!Create
    <3>2. at'[m] = at[m] BY <2>1, <3>1 DEF W!Find, W!Create, W!TypeOK
    <3>3. QED BY <1>3, <3>1, <3>2, HandleMoves
  <2>2. CASE W!LoadThread(n)
    <3>1. at' = at /\ (n = m => at[m] \in convs) BY <2>2, PhaseMoves DEF W!LoadThread
    <3>2. QED BY <1>3, <3>1, HandleMoves
  <2>3. CASE W!Save(n) \/ W!Look(n) \/ W!Count(n) \/ W!Emit(n)
    <3>1. at' = at /\ phase[n] \in {"save", "look", "count", "emit"} BY <2>3 DEF W!Save, W!Look, W!Count, W!Emit
    <3>2. QED BY <1>3, <3>1, HandleMoves
  <2>4. QED BY <1>3, <2>1, <2>2, <2>3 DEF W!Handle
<1>4. CASE AgentStep
  <2>1. ASSUME NEW a \in Answers, NEW c \in Threads, W!Reply(a, c)
        PROVE  at'[m] = at[m] /\ (phase[m] = "save" \/ at[m] \in convs)
    <3>1. a \in W!Messages /\ W!GoTo(a, "load") BY <2>1 DEF W!Reply, W!Messages
    <3>2. phase'[a] = "load" /\ \A n \in W!Messages : n # a => phase'[n] = phase[n] BY <3>1, PhaseMoves
    <3>3. a # m BY <3>2
    <3>4. phase[m] = "save" BY <3>2, <3>3
    <3>5. QED BY <2>1, <3>3, <3>4 DEF W!Reply, W!TypeOK
  <2>2. QED BY <1>4, <2>1 DEF AgentStep, W!markAsRead, W!remove, W!MarkStep, W!RemoveThreads, W!RemoveMessages
<1>5. CASE GatewayStep BY <1>5, GatewayRests
<1>6. CASE OtherStep
  <2>1. at' = at BY <1>6 DEF OtherStep, W!markMessagesAsRead, W!Crash, W!Enrich, W!AnsweredWithError
  <2>2. QED BY <1>6, <2>1, OtherMoves
<1>7. QED BY StepIs, <1>1, <1>2, <1>3, <1>4, <1>5, <1>6

LEMMA BoundKept == ASSUME W!TypeOK, Bound, [W!Next]_(W!vars) PROVE Bound'
<1> SUFFICES ASSUME NEW m \in W!Messages, phase'[m] = "save" PROVE at'[m] \in convs' \/ m \in doomed' BY DEF Bound
<1>1. at'[m] = at[m] /\ (phase[m] = "save" \/ at[m] \in convs) BY StoresNext
<1>2. at[m] \in convs \/ m \in doomed BY <1>1 DEF Bound
<1>3. CASE W!RemoveThreads
  <2>1. phase[m] = "save" /\ convs' = convs \ removal.ids
        /\ doomed' = doomed \cup {n \in W!Messages : phase[n] = "save" /\ at[n] \in removal.ids}
    BY <1>3 DEF W!RemoveThreads
  <2>2. QED BY <1>1, <1>2, <2>1
<1>4. CASE ~W!RemoveThreads BY <1>1, <1>2, <1>4, ThreadsStay
<1>5. QED BY <1>3, <1>4

\* Where messages are: only a request stores, only a removal deletes.
LEMMA StoredWhere ==
    ASSUME W!TypeOK, [W!Next]_(W!vars), NEW m \in W!Messages
    PROVE  \/ where'[m] = where[m] \/ W!RemoveMessages
           \/ where'[m] = at[m] /\ phase[m] = "save" /\ ~W!RemoveThreads
<1>1. CASE PageStep BY <1>1, PageRests
<1>2. ASSUME NEW n \in Inbound, PostStep(n) PROVE where'[m] = where[m] BY <1>2, PostRests
<1>3. ASSUME NEW n \in W!Messages, W!Handle(n)
      PROVE  where'[m] = where[m] \/ (where'[m] = at[m] /\ phase[m] = "save" /\ ~W!RemoveThreads)
  <2>1. CASE W!Save(n)
    <3>1. phase[n] = "save" /\ where' = [where EXCEPT ![n] = at[n]] BY <2>1 DEF W!Save
    <3>2. removal' = removal BY <1>3, HandleRests
    <3>3. ~W!RemoveThreads
      <4>1. ASSUME W!RemoveThreads PROVE FALSE
        <5>1. where' = where /\ phase' = phase BY <4>1 DEF W!RemoveThreads
        <5>2. phase'[n] # "save" BY <1>3, <3>1, HandleMoves
        <5>3. QED BY <3>1, <5>1, <5>2
      <4>2. QED BY <4>1
    <3>4. QED BY <3>1, <3>3 DEF W!TypeOK
  <2>2. CASE ~W!Save(n)
    BY <1>3, <2>2 DEF W!Handle, W!Find, W!Create, W!LoadThread, W!Look, W!Count, W!Emit
  <2>3. QED BY <2>1, <2>2
<1>4. CASE AgentStep
  <2>1. W!RemoveMessages \/ where' = where
    BY <1>4 DEF AgentStep, W!Reply, W!markAsRead, W!remove, W!MarkStep, W!RemoveThreads
  <2>2. QED BY <2>1
<1>5. CASE GatewayStep BY <1>5, GatewayRests
<1>6. CASE OtherStep BY <1>6 DEF OtherStep, W!markMessagesAsRead, W!Crash, W!Enrich, W!AnsweredWithError
<1>7. QED BY StepIs, <1>1, <1>2, <1>3, <1>4, <1>5, <1>6

\* A removal goes on as it began.
LEMMA RemovalGoesOn ==
    ASSUME W!TypeOK, [W!Next]_(W!vars), removal.step = "messages", ~crashed', ~W!RemoveMessages
    PROVE  removal' = removal
<1>1. CASE PageStep BY <1>1, PageRests
<1>2. ASSUME NEW n \in Inbound, PostStep(n) PROVE removal' = removal BY <1>2, PostRests
<1>3. ASSUME NEW n \in W!Messages, W!Handle(n) PROVE removal' = removal BY <1>3, HandleRests
<1>4. CASE AgentStep
  <2>1. ~W!RemoveThreads BY DEF W!RemoveThreads
  <2>2. ASSUME NEW c \in Threads, W!remove(c) PROVE FALSE BY <2>2 DEF W!remove, W!Resting
  <2>3. ASSUME NEW a \in Answers, NEW c \in Threads, W!Reply(a, c) PROVE removal' = removal BY <2>3 DEF W!Reply
  <2>4. ASSUME NEW c \in Threads, W!markAsRead(c) PROVE removal' = removal BY <2>4 DEF W!markAsRead
  <2>5. CASE W!MarkStep BY <2>5 DEF W!MarkStep
  <2>6. QED BY <1>4, <2>1, <2>2, <2>3, <2>4, <2>5 DEF AgentStep
<1>5. CASE GatewayStep BY <1>5, GatewayRests
<1>6. CASE OtherStep BY <1>6 DEF OtherStep, W!markMessagesAsRead, W!Crash, W!Enrich, W!AnsweredWithError
<1>7. QED BY StepIs, <1>1, <1>2, <1>3, <1>4, <1>5, <1>6

LEMMA CrashedStays == ASSUME [W!Next]_(W!vars), crashed PROVE crashed'
<1>1. CASE PageStep BY <1>1, PageRests
<1>2. ASSUME NEW n \in Inbound, PostStep(n) PROVE crashed' BY <1>2, PostRests
<1>3. ASSUME NEW n \in W!Messages, W!Handle(n) PROVE crashed' BY <1>3, HandleRests
<1>4. CASE AgentStep BY <1>4, AgentRests
<1>5. CASE GatewayStep BY <1>5, GatewayRests
<1>6. CASE OtherStep BY <1>6 DEF OtherStep, W!markMessagesAsRead, W!Crash, W!Enrich, W!AnsweredWithError
<1>7. QED BY StepIs, <1>1, <1>2, <1>3, <1>4, <1>5, <1>6

LEMMA OrphansKept == ASSUME W!TypeOK, Bound, W!NoOrphans, [W!Next]_(W!vars) PROVE W!NoOrphans'
<1> SUFFICES ASSUME NEW m \in W!Messages, where'[m] # W!None, where'[m] \notin convs', ~crashed'
             PROVE  m \in doomed' \/ (removal'.step = "messages" /\ where'[m] \in removal'.ids)
  BY DEF W!NoOrphans
<1>0. ~crashed BY CrashedStays
<1>1. CASE W!RemoveThreads
  <2>1. /\ where' = where /\ convs' = convs \ removal.ids /\ doomed \subseteq doomed'
        /\ removal.step = "threads" /\ removal' = [removal EXCEPT !.step = "messages"]
    BY <1>1 DEF W!RemoveThreads
  <2>2. removal'.step = "messages" /\ removal'.ids = removal.ids BY <2>1 DEF W!TypeOK
  <2>3. CASE where[m] \in convs BY <2>1, <2>2, <2>3
  <2>4. CASE where[m] \notin convs BY <1>0, <2>1, <2>4 DEF W!NoOrphans
  <2>5. QED BY <2>3, <2>4
<1>2. CASE W!RemoveMessages
  <2>1. /\ convs' = convs /\ doomed' = doomed
        /\ where' = [n \in W!Messages |-> IF where[n] \in removal.ids THEN W!None ELSE where[n]]
    BY <1>2 DEF W!RemoveMessages, W!Deleted
  <2>2. where'[m] = where[m] /\ where[m] \notin removal.ids BY <2>1
  <2>3. QED BY <1>0, <2>1, <2>2 DEF W!NoOrphans
<1>3. CASE ~W!RemoveThreads /\ ~W!RemoveMessages
  <2>1. convs \subseteq convs' /\ doomed' = doomed BY <1>3, ThreadsStay
  <2>2. CASE where'[m] = where[m]
    <3>1. m \in doomed \/ (removal.step = "messages" /\ where[m] \in removal.ids)
      BY <1>0, <2>1, <2>2 DEF W!NoOrphans
    <3>2. QED BY <1>3, <2>1, <2>2, <3>1, RemovalGoesOn
  <2>3. CASE where'[m] = at[m] /\ phase[m] = "save" BY <2>1, <2>3 DEF Bound
  <2>4. QED BY <1>3, <2>2, <2>3, StoredWhere
<1>4. QED BY <1>1, <1>2, <1>3

-----------------------------------------------------------------------------
\* While requests do not overlap: what is at work.
AtWork(m) == m \in enriching \/ phase[m] \notin {"idle", "answer", "refused", "done"}

LEMMA RunningIs ==
    ASSUME W!TypeOK
    PROVE  W!Running = {m \in Inbound : AtWork(m)} /\ W!Running \subseteq W!Messages
  BY DEF W!Running, AtWork, W!TypeOK, W!Messages

LEMMA RunningNext ==
    ASSUME W!TypeOK'
    PROVE  W!Running' = {m \in Inbound : AtWork(m)'}
  BY DEF W!Running, AtWork, W!TypeOK

\* A step that starts no request and makes no thread.
LEMMA OneRests ==
    ASSUME W!TypeOK, W!TypeOK', OneAtWork, convs' \subseteq convs, overlap' = overlap,
           \A m \in Inbound : AtWork(m)' => AtWork(m),
           \A m \in W!Messages : phase'[m] = "create" => phase[m] = "create"
    PROVE  OneAtWork'
<1>1. W!Running = {m \in Inbound : AtWork(m)} BY RunningIs
<1>2. W!Running' = {m \in Inbound : AtWork(m)'} BY RunningNext
<1>3. W!Running' \subseteq W!Running BY <1>1, <1>2
<1>4. QED BY <1>3 DEF OneAtWork

LEMMA OneByPosts ==
    ASSUME W!TypeOK, W!TypeOK', OneAtWork, NEW m \in Inbound, PostStep(m)
    PROVE  OneAtWork'
<1>0. m \in W!Messages BY DEF W!Messages
<1>1. UNCHANGED <<convs, enriching>> BY PostRests
<1>2. CASE phase[m] = "idle" /\ phase'[m] \in {"upload", "find"} /\ (overlap' <=> overlap \/ W!Running # {})
  <2> SUFFICES ASSUME ~overlap' PROVE OneAtWork' BY DEF OneAtWork
  <2>1. ~overlap /\ W!Running = {} BY <1>2
  <2>2. \A n \in Inbound : ~AtWork(n) BY <2>1, RunningIs
  <2>3. \A n \in Inbound : AtWork(n)' => n = m BY <1>0, <1>1, <2>2, PostMoves DEF AtWork, W!Messages
  <2>4. W!Running' = {n \in Inbound : AtWork(n)'} BY RunningNext
  <2>5. \A n \in W!Messages : phase'[n] = "create" => phase[n] = "create" BY <1>2, PostMoves
  <2>6. QED BY <1>1, <2>1, <2>3, <2>4, <2>5 DEF OneAtWork
<1>3. CASE overlap' = overlap /\ (phase[m] = "idle" => phase'[m] = "idle")
  <2>1. \A n \in Inbound : AtWork(n)' => AtWork(n) BY <1>0, <1>1, <1>3, PostMoves DEF AtWork, W!Messages
  <2>2. \A n \in W!Messages : phase'[n] = "create" => phase[n] = "create" BY <1>3, PostMoves
  <2>3. QED BY <1>1, <1>3, <2>1, <2>2, OneRests
<1>4. QED BY <1>2, <1>3, PostMoves

LEMMA OneByHandlers ==
    ASSUME W!TypeOK, W!TypeOK', Roles, OneAtWork, NEW m \in W!Messages, W!Handle(m)
    PROVE  OneAtWork'
<1>1. overlap' = overlap BY HandleRests
<1>2. \A n \in Inbound : AtWork(n)' => AtWork(n)
  <2>1. enriching' \subseteq enriching \cup {m} /\ (enriching' # enriching => phase[m] \in {"look", "count"})
    BY DEF W!Handle, W!Find, W!Create, W!LoadThread, W!Save, W!Look, W!Count, W!Emit
  <2>2. \A n \in Inbound : n \in W!Messages BY DEF W!Messages
  <2>3. phase[m] \notin {"idle", "answer", "refused", "done"} BY HandleMoves
  <2>4. QED BY <2>1, <2>2, <2>3, HandleMoves DEF AtWork
<1>3. CASE W!Find(m)
  <2>1. convs' = convs /\ (phase'[m] = "create" => convs \ Foreign = {})
    BY <1>3, PhaseMoves DEF W!Find, W!findByWidgetVisitor
  <2>2. W!Running' = {n \in Inbound : AtWork(n)'} BY RunningNext
  <2>3. W!Running' \subseteq W!Running BY <1>2, <2>2, RunningIs
  <2>4. \A n \in W!Messages : phase'[n] = "create" => phase[n] = "create" \/ n = m BY HandleMoves
  <2>5. QED BY <1>1, <2>1, <2>3, <2>4 DEF OneAtWork
<1>4. CASE W!Create(m)
  <2>1. PICK d \in Threads : convs' = convs \cup {d} BY <1>4 DEF W!Create
  <2>2. phase[m] = "create" /\ phase'[m] = "load" BY <1>4, PhaseMoves DEF W!Create
  <2> SUFFICES ASSUME ~overlap' PROVE OneAtWork' BY DEF OneAtWork
  <2>3. convs \ Foreign = {} /\ (\A n, k \in W!Running : n = k) BY <1>1, <2>2 DEF OneAtWork
  <2>4. \A c, e \in convs' \ Foreign : c = e BY <2>1, <2>3
  <2>5. W!Running' = {n \in Inbound : AtWork(n)'} BY RunningNext
  <2>6. W!Running' \subseteq W!Running BY <1>2, <2>5, RunningIs
  <2>7. \A n \in W!Messages : phase'[n] # "create"
    <3> SUFFICES ASSUME NEW n \in W!Messages, phase'[n] = "create" PROVE FALSE OBVIOUS
    <3>1. n # m BY <2>2
    <3>2. phase[n] = "create" BY <3>1, HandleMoves
    <3>3. n \in W!Running /\ m \in W!Running BY <2>2, <3>2, RunningIs DEF Roles, AtWork
    <3>4. QED BY <2>3, <3>1, <3>3
  <2>8. QED BY <2>3, <2>4, <2>6, <2>7 DEF OneAtWork
<1>5. CASE ~W!Find(m) /\ ~W!Create(m)
  <2>1. convs' = convs BY <1>5 DEF W!Handle, W!LoadThread, W!Save, W!Look, W!Count, W!Emit
  <2>2. phase[m] # "find"
    BY <1>5, HandleMoves DEF W!Handle, W!LoadThread, W!Save, W!Look, W!Count, W!Emit
  <2>3. \A n \in W!Messages : phase'[n] = "create" => phase[n] = "create" BY <2>2, HandleMoves
  <2>4. QED BY <1>1, <1>2, <2>1, <2>3, OneRests
<1>6. QED BY <1>3, <1>4, <1>5

LEMMA OneKept ==
    ASSUME W!TypeOK, Roles, OneAtWork, [W!Next]_(W!vars)
    PROVE  OneAtWork'
<1>0. W!TypeOK' /\ (\A m \in Inbound : m \in W!Messages) BY ChatTyped DEF W!Messages
<1>1. CASE PageStep
  <2>1. UNCHANGED <<convs, overlap, enriching, phase>> BY <1>1, PageRests
  <2>2. QED BY <1>0, <2>1, OneRests DEF AtWork
<1>2. ASSUME NEW n \in Inbound, PostStep(n) PROVE OneAtWork' BY <1>0, <1>2, OneByPosts
<1>3. ASSUME NEW n \in W!Messages, W!Handle(n) PROVE OneAtWork' BY <1>0, <1>3, OneByHandlers
<1>4. CASE AgentStep
  <2>1. UNCHANGED <<overlap, enriching>> BY <1>4, AgentRests
  <2>2. convs' \subseteq convs
    BY <1>4 DEF AgentStep, W!Reply, W!markAsRead, W!remove, W!MarkStep, W!RemoveThreads, W!RemoveMessages
  <2>3. \A m \in Inbound : phase'[m] = phase[m] BY <1>0, <1>4, AgentMoves, WidgetFacts
  <2>4. \A m \in W!Messages : phase'[m] = "create" => phase[m] = "create" BY <1>4, AgentMoves
  <2>5. QED BY <1>0, <2>1, <2>2, <2>3, <2>4, OneRests DEF AtWork
<1>5. CASE GatewayStep
  <2>1. UNCHANGED <<convs, overlap, enriching, phase>> BY <1>5, GatewayRests
  <2>2. QED BY <1>0, <2>1, OneRests DEF AtWork
<1>6. CASE OtherStep
  <2>1. convs' = convs /\ overlap' = overlap /\ enriching' \subseteq enriching
    BY <1>6 DEF OtherStep, W!markMessagesAsRead, W!Crash, W!Enrich, W!AnsweredWithError
  <2>2. \A m \in Inbound : AtWork(m)' => AtWork(m) BY <1>0, <1>6, <2>1, OtherMoves DEF AtWork
  <2>3. \A m \in W!Messages : phase'[m] = "create" => phase[m] = "create" BY <1>6, OtherMoves
  <2>4. QED BY <1>0, <2>1, <2>2, <2>3, OneRests
<1>7. QED BY StepIs, <1>1, <1>2, <1>3, <1>4, <1>5, <1>6

LEMMA FewCounted ==
    ASSUME NEW S, \A x, y \in S : x = y
    PROVE  W!Cardinality(S) <= 1
<1>1. W!Cardinality(S) = Cardinality(S) BY DEF W!Cardinality, Cardinality
<1>2. CASE S = {} BY <1>1, <1>2, FS_EmptySet
<1>3. CASE S # {}
  <2>1. PICK x \in S : TRUE BY <1>3
  <2>2. S = {x} BY <2>1
  <2>3. Cardinality({x}) = 1 BY FS_Singleton
  <2>4. Cardinality(S) = 1 BY <2>2, <2>3
  <2>5. QED BY <1>1, <2>4
<1>4. QED BY <1>2, <1>3

-----------------------------------------------------------------------------
\* What the page has sent and is not in its list yet.
LEMMA ShownByPage ==
    ASSUME W!TypeOK, NotYetShown, PageStep
    PROVE  NotYetShown'
<1>0. /\ UNCHANGED <<phase, raced>>
      /\ mine \subseteq W!Messages
      /\ \A m \in W!Messages : shown[m] \in Nat
  BY PageRests DEF W!TypeOK, W!Messages
<1>1. CASE W!LoadPage
  <2>1. mine' = {} /\ \A m \in W!Messages : shown'[m] = 0 BY <1>1 DEF W!LoadPage
  <2>2. QED BY <2>1 DEF NotYetShown
<1>2. CASE W!AnswerLoad \/ W!LoadFails \/ W!Connect \/ W!Drop \/ W!toggleChat \/ W!setAdminTyping \/ W!adminTypingTimeout
  <2>1. UNCHANGED <<shown, mine>>
    BY <1>2 DEF W!AnswerLoad, W!LoadFails, W!Connect, W!Drop, W!toggleChat, W!setAdminTyping, W!adminTypingTimeout
  <2>2. page.get = "done" => page'.get = "done"
    BY <1>2 DEF W!AnswerLoad, W!LoadFails, W!Connect, W!Drop, W!toggleChat, W!setAdminTyping, W!adminTypingTimeout,
                W!TypeOK
  <2>3. QED BY <1>0, <2>1, <2>2 DEF NotYetShown
<1>3. CASE W!loadMessages
  <2>1. /\ page.get = "answered" /\ mine' = mine /\ page' = [page EXCEPT !.get = "done"]
        /\ shown' = [m \in W!Messages |-> IF m \in answer THEN 1 ELSE 0]
    BY <1>3 DEF W!loadMessages
  <2>2. mine \ raced = {} BY <2>1 DEF NotYetShown
  <2>3. \A m \in W!Messages : shown'[m] <= 1 BY <2>1
  <2>4. QED BY <1>0, <2>1, <2>2, <2>3 DEF NotYetShown
<1>4. ASSUME NEW a \in Answers, W!Receive(a) PROVE NotYetShown'
  <2>1. /\ UNCHANGED <<page, mine>> /\ a \in W!Messages
        /\ shown'[a] = (IF shown[a] = 0 THEN 1 ELSE shown[a])
        /\ \A m \in W!Messages : m # a => shown'[m] = shown[m]
    BY <1>4 DEF W!Receive, W!ReceivedAs, W!TypeOK, W!Messages
  <2>2. a \notin mine BY WidgetFacts DEF W!TypeOK
  <2>3. QED BY <1>0, <2>1, <2>2 DEF NotYetShown
<1>5. QED BY <1>1, <1>2, <1>3, <1>4 DEF PageStep

LEMMA ShownByPosts ==
    ASSUME W!TypeOK, Begun, NotYetShown, NEW m \in Inbound, PostStep(m)
    PROVE  NotYetShown'
<1>0. /\ m \in W!Messages /\ page' = page /\ mine \subseteq W!Messages
      /\ \A n \in W!Messages : shown[n] \in Nat /\ (n # m => phase'[n] = phase[n])
  BY PostRests, PostMoves DEF W!TypeOK, W!Messages
<1>1. CASE W!sendMessage(m) \/ W!sendImageWithCaption(m)
  <2>1. /\ phase[m] = "idle" /\ shown' = shown /\ mine' = mine \cup {m}
        /\ raced' = IF page.get = "done" THEN raced ELSE raced \cup {m}
    BY <1>1 DEF W!sendMessage, W!sendImageWithCaption
  <2>2. shown[m] = 0 BY <1>0, <2>1 DEF Begun
  <2>3. QED BY <1>0, <2>1, <2>2 DEF NotYetShown
<1>2. CASE W!Uploaded(m) \/ W!Refused(m)
  <2>1. UNCHANGED <<shown, mine, raced>> /\ phase[m] # "done"
    BY <1>2 DEF W!Uploaded, W!Refused
  <2>2. QED BY <1>0, <2>1 DEF NotYetShown
<1>3. CASE W!RequestLost(m)
  <2>1. UNCHANGED <<shown, raced>> /\ mine' = mine \ {m} BY <1>3 DEF W!RequestLost
  <2>2. QED BY <1>0, <2>1 DEF NotYetShown
<1>4. CASE W!Answered(m)
  <2>1. UNCHANGED <<mine, raced>> /\ phase[m] = "answer" /\ phase'[m] = "done"
    BY <1>0, <1>4, PhaseMoves DEF W!Answered
  <2>2. /\ m \in mine => shown'[m] = shown[m] + 1
        /\ m \notin mine => shown'[m] = shown[m]
        /\ \A n \in W!Messages : n # m => shown'[n] = shown[n]
    BY <1>0, <1>4 DEF W!Answered, W!TypeOK
  <2>3. m \in mine \ raced => shown[m] = 0 BY <2>1 DEF NotYetShown
  <2>4. QED BY <1>0, <2>1, <2>2, <2>3 DEF NotYetShown
<1>5. QED BY <1>1, <1>2, <1>3, <1>4 DEF PostStep

LEMMA ShownKept ==
    ASSUME W!TypeOK, Begun, NotYetShown, [W!Next]_(W!vars)
    PROVE  NotYetShown'
<1>0. \A m \in mine : m \in W!Messages BY DEF W!TypeOK, W!Messages
<1>1. CASE PageStep BY <1>1, ShownByPage
<1>2. ASSUME NEW n \in Inbound, PostStep(n) PROVE NotYetShown' BY <1>2, ShownByPosts
<1>3. ASSUME NEW n \in W!Messages, W!Handle(n) PROVE NotYetShown'
  <2>1. UNCHANGED <<page, shown, mine, raced>> BY <1>3, HandleRests
  <2>2. \A m \in W!Messages : phase[m] = "done" => phase'[m] = "done" BY <1>3, HandleMoves
  <2>3. QED BY <1>0, <2>1, <2>2 DEF NotYetShown
<1>4. CASE AgentStep
  <2>1. UNCHANGED <<page, shown, mine, raced>> BY <1>4, AgentRests
  <2>2. \A m \in W!Messages : phase[m] = "done" => phase'[m] = "done" BY <1>4, AgentMoves
  <2>3. QED BY <1>0, <2>1, <2>2 DEF NotYetShown
<1>5. CASE GatewayStep BY <1>5, GatewayRests DEF NotYetShown
<1>6. CASE OtherStep
  <2>1. UNCHANGED <<shown, raced>> /\ (mine' = {} \/ UNCHANGED <<mine, page>>)
    BY <1>6 DEF OtherStep, W!markMessagesAsRead, W!Crash, W!Enrich, W!AnsweredWithError
  <2>2. \A m \in W!Messages : phase[m] = "done" => phase'[m] = "done" BY <1>6, OtherMoves
  <2>3. QED BY <1>0, <2>1, <2>2 DEF NotYetShown
<1>7. QED BY StepIs, <1>1, <1>2, <1>3, <1>4, <1>5, <1>6

-----------------------------------------------------------------------------
LEMMA WatchedKept == ASSUME W!TypeOK, Watched, [W!Next]_(W!vars) PROVE Watched'
<1>1. CASE PageStep BY <1>1, PageRests DEF Watched
<1>2. ASSUME NEW n \in Inbound, PostStep(n) PROVE Watched' BY <1>2, PostRests DEF Watched
<1>3. ASSUME NEW n \in W!Messages, W!Handle(n) PROVE Watched'
  <2>1. UNCHANGED <<connected, joining, viewers, late>> BY <1>3, HandleRests
  <2>2. QED BY <2>1 DEF Watched
<1>4. CASE AgentStep BY <1>4, AgentRests DEF Watched
<1>5. CASE GatewayStep
  <2>1. ASSUME NEW s \in Sockets, NEW c \in Threads, W!JoinAsked(s, c) PROVE Watched'
    <3>1. <<s, c>>[1] = s OBVIOUS
    <3>2. QED BY <2>1, <3>1 DEF W!JoinAsked, Watched
  <2>2. ASSUME NEW s \in Sockets, NEW c \in Threads, W!handleAdminJoinWidget(s, c) PROVE Watched'
    BY <2>2 DEF W!handleAdminJoinWidget, Watched
  <2>3. ASSUME NEW s \in Sockets, NEW c \in Threads, W!handleAdminLeaveWidget(s, c) PROVE Watched'
    BY <2>3 DEF W!handleAdminLeaveWidget, Watched
  <2>4. ASSUME NEW s \in Sockets, W!handleDisconnect(s) PROVE Watched'
    BY <2>4 DEF W!handleDisconnect, W!ViewedBy, Watched
  <2>5. QED BY <1>5, <2>1, <2>2, <2>3, <2>4 DEF GatewayStep
<1>6. CASE OtherStep
  <2>1. late' = late /\ (joining' \cup viewers' = {} \/ UNCHANGED <<connected, joining, viewers>>)
    BY <1>6 DEF OtherStep, W!markMessagesAsRead, W!Crash, W!Enrich, W!AnsweredWithError
  <2>2. QED BY <2>1 DEF Watched
<1>7. QED BY StepIs, <1>1, <1>2, <1>3, <1>4, <1>5, <1>6

-----------------------------------------------------------------------------
LEMMA ChatGoesOn == ASSUME ChatInv, [W!Next]_(W!vars) PROVE ChatInv'
  BY ChatTyped, RolesKept, PlacedKept, BegunKept, OverlookedKept, BoundKept, OrphansKept, OneKept, ShownKept, WatchedKept
  DEF ChatInv

LEMMA ChatOfSpec == MCSpec => []ChatInv
<1>1. MCInit => ChatInv BY ChatBegins
<1>2. ChatInv /\ [MCNext]_<<vars, chatVars, part>> => ChatInv'
  <2> SUFFICES ASSUME ChatInv, [MCNext]_<<vars, chatVars, part>> PROVE ChatInv' OBVIOUS
  <2>1. [W!Next]_(W!vars) BY DEF MCNext, Answering, Chatting, chatVars
  <2>2. QED BY <2>1, ChatGoesOn
<1>3. QED BY <1>1, <1>2, PTL DEF MCSpec

\* However many messages, threads and agents there are, whatever is lost and restarts:
\* a counter that is 0 leaves nothing unread behind, and no message stays in the
\* database without its conversation, but for what was on its way when it was deleted
\* (addMessage, markAsRead, remove).
THEOREM NothingIsLost == MCSpec => []NothingLost
<1>1. ChatInv => NothingLost BY DEF ChatInv, NothingLost, W!NothingLost
<1>2. QED BY <1>1, ChatOfSpec, PTL

\* A visitor whose requests do not overlap has one thread, and nothing is listed
\* twice in his page but what he sent before his first listing had come
\* (handleWidgetMessage, widget.js).
THEOREM NothingIsTwice == MCSpec => []NothingTwice
<1>1. ChatInv => NothingTwice
  <2> SUFFICES ASSUME ChatInv PROVE W!OneThread /\ W!ShownOnce BY DEF NothingTwice, W!NothingTwice
  <2>1. W!ShownOnce BY DEF ChatInv, NotYetShown, W!ShownOnce
  <2>2. ASSUME ~overlap PROVE W!Cardinality(W!findByWidgetVisitor) <= 1
    <3>1. \A c, d \in convs \ Foreign : c = d BY <2>2 DEF ChatInv, OneAtWork
    <3>2. QED BY <3>1, FewCounted DEF W!findByWidgetVisitor
  <2>3. QED BY <2>1, <2>2 DEF W!OneThread
<1>2. QED BY <1>1, ChatOfSpec, PTL

\* Who is said to look at a conversation is connected, or left before his joining was
\* over (handleDisconnect, isConversationBeingViewed).
THEOREM ViewersKept == MCSpec => []ViewersAreThere
<1>1. ChatInv => ViewersAreThere BY DEF ChatInv, Watched, ViewersAreThere, W!ViewersAreThere
<1>2. QED BY <1>1, ChatOfSpec, PTL
=============================================================================
