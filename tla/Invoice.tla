------------------------------ MODULE Invoice ------------------------------
(***************************************************************************)
(* The life of one invoice: InvoicingService's update, remove, setStatus,  *)
(* send, addPayment and removePayment.  Each request loads the document,   *)
(* decides on what it loaded, and saves what it changed: a field is        *)
(* written only if the request modified it, a payment is appended with     *)
(* $push, and a list that was assigned is written on condition that the    *)
(* version (__v) is still the loaded one.  Requests interleave between     *)
(* load, mail, save and what follows the save.                             *)
(*                                                                         *)
(* Dates, notes, lines and taxes are left out: of an invoice's amounts     *)
(* only the total counts here.                                             *)
(***************************************************************************)
EXTENDS Integers, FiniteSets

CONSTANTS
    Payments,     \* payments a request may register, each with its own _id
    Amount,       \* [Payments -> cents]
    Sum,          \* [SUBSET Payments -> what they add up to]
    Totals,       \* totals an invoice may have
    Workers,      \* requests in progress at the same time
    MaxRequests   \* bound of the requests made

ASSUME InvoiceAssumption ==
    /\ Amount \in [Payments -> Nat \ {0}]
    /\ Totals \subseteq Nat
    /\ MaxRequests \in Nat

\* What adding up means: payments.reduce((sum, p) => sum + p.amountCents, 0).
ASSUME SumAssumption ==
    /\ Sum \in [SUBSET Payments -> Nat]
    /\ Sum[{}] = 0
    /\ \A list \in SUBSET Payments : \A p \in Payments \ list :
           Sum[list \cup {p}] = Sum[list] + Amount[p]

VARIABLES
    doc,       \* the stored document
    exists,    \* it has not been deleted
    loaded,    \* [Workers -> the document as the request loaded it]
    edited,    \* [Workers -> the document as the request left it in memory]
    pc,        \* [Workers -> the request's next await]
    registered,\* payments that were ever registered
    shown,     \* totals that were mailed to the customer
    deal,      \* stage of the deal the invoice belongs to
    notified,  \* INVOICE_PAID events emitted
    requests,  \* requests made so far
    crossed    \* history: a request wrote on what another had written meanwhile

vars == <<doc, exists, loaded, edited, pc, registered, shown, deal, notified, requests, crossed>>

Statuses == {"draft", "sent", "partial", "paid", "void"}

Docs == [status : Statuses, total : Totals, paid : Nat, payments : SUBSET Payments,
         version : Nat]

Init ==
    /\ doc \in [status : {"draft"}, total : Totals, paid : {0}, payments : {{}}, version : {0}]
    /\ exists = TRUE
    /\ loaded = [w \in Workers |-> doc]
    /\ edited = [w \in Workers |-> doc]
    /\ pc = [w \in Workers |-> "idle"]
    /\ registered = {}
    /\ shown = {}
    /\ deal \in {"open", "lost"}
    /\ notified = 0
    /\ requests = 0
    /\ crossed = FALSE

-----------------------------------------------------------------------------
(* Loading and saving. *)

\* A request loads the document, leaves `changed` in memory, and awaits `step`.
Load(w, changed, step) ==
    /\ pc[w] = "idle" /\ exists
    /\ requests < MaxRequests
    /\ requests' = requests + 1
    /\ loaded' = [loaded EXCEPT ![w] = doc]
    /\ edited' = [edited EXCEPT ![w] = changed]
    /\ pc' = [pc EXCEPT ![w] = step]
    /\ UNCHANGED <<doc, exists, shown, deal, notified, crossed>>

\* The fields the request modified, in today's document.
Merged(w) ==
    [doc EXCEPT !.status = IF edited[w].status # loaded[w].status THEN edited[w].status ELSE @,
                !.paid   = IF edited[w].paid # loaded[w].paid THEN edited[w].paid ELSE @,
                !.total  = IF edited[w].total # loaded[w].total THEN edited[w].total ELSE @]

\* Nobody wrote a list since the request loaded the document.
Current(w) == doc.version = loaded[w].version

\* The document is not what the request loaded, or another request is about to announce
\* that it is paid.
Outdated(w)   == doc # loaded[w]
Announcing(w) == \E v \in Workers \ {w} : pc[v] \in {"close", "emit"}

Save(w, step, changed, next) ==
    /\ pc[w] = step
    /\ exists
    /\ doc' = changed
    /\ crossed' = (crossed \/ Outdated(w) \/ Announcing(w))
    /\ pc' = [pc EXCEPT ![w] = next]
    /\ UNCHANGED <<exists, loaded, edited, registered, shown, deal, notified, requests>>

-----------------------------------------------------------------------------
(* Payments. *)

\* settle: the paid amount and the status follow from the list of payments.
Settle(d) ==
    LET paid == Sum[d.payments]
    IN  [d EXCEPT !.paid = paid,
                  !.status = IF paid >= d.total /\ d.total > 0 THEN "paid"
                             ELSE IF paid > 0 THEN "partial"
                             ELSE IF @ \in {"paid", "partial"} THEN "sent"
                             ELSE @]

WithPayment(d, p) ==
    Settle([d EXCEPT !.status = IF @ = "draft" THEN "sent" ELSE @,
                     !.payments = @ \cup {p}])

AddPaymentToVoid(w, p) ==
    /\ Amount[p] <= doc.total - doc.paid
    /\ p \notin registered
    /\ registered' = registered \cup {p}
    /\ Load(w, WithPayment(doc, p), "pay")

\* addPayment
AddPayment(w, p) ==
    /\ doc.status \notin {"void", "paid"}
    /\ Amount[p] <= doc.total - doc.paid
    /\ p \notin registered
    /\ registered' = registered \cup {p}
    /\ Load(w, WithPayment(doc, p), "pay")

SavePayment(w) ==
    Save(w, "pay",
         [Merged(w) EXCEPT !.payments = @ \cup (edited[w].payments \ loaded[w].payments),
                           !.version = @ + 1],
         IF edited[w].status = "paid" THEN "close" ELSE "idle")

\* onPaid: the deal is won unless it is closed already.
CloseDeal(w) ==
    /\ pc[w] = "close"
    /\ deal' = IF deal = "open" THEN "won" ELSE deal
    /\ pc' = [pc EXCEPT ![w] = "emit"]
    /\ UNCHANGED <<doc, exists, loaded, edited, registered, shown, notified, requests, crossed>>

EmitPaid(w) ==
    /\ pc[w] = "emit"
    /\ notified' = notified + 1
    /\ pc' = [pc EXCEPT ![w] = "idle"]
    /\ UNCHANGED <<doc, exists, loaded, edited, registered, shown, deal, requests, crossed>>

\* Mutant of RemovePayment: the amount is not recomputed.
RemovePaymentUnsettled(w, p) ==
    /\ p \in doc.payments
    /\ Load(w, [doc EXCEPT !.payments = @ \ {p}], "unpay")
    /\ UNCHANGED registered

\* removePayment
RemovePayment(w, p) ==
    /\ p \in doc.payments
    /\ Load(w, Settle([doc EXCEPT !.payments = @ \ {p}]), "unpay")
    /\ UNCHANGED registered

\* Mutant of SaveRemoval: the list is written whatever the version.
SaveRemovalBlindly(w) ==
    Save(w, "unpay",
         [Merged(w) EXCEPT !.payments = edited[w].payments, !.version = @ + 1], "idle")

SaveRemoval(w) ==
    /\ Current(w)
    /\ Save(w, "unpay",
            [Merged(w) EXCEPT !.payments = edited[w].payments, !.version = @ + 1], "idle")

-----------------------------------------------------------------------------
(* The document. *)

\* update, as far as it changes the total.
Update(w, total) ==
    /\ doc.status = "draft"
    /\ Load(w, [doc EXCEPT !.total = total], "update")
    /\ UNCHANGED registered

\* The lines are part of the update: they are a list.
SaveLines(w) ==
    /\ Current(w)
    /\ Save(w, "update", [Merged(w) EXCEPT !.version = @ + 1], "idle")

\* Only the discount or the tax changed, the lines are the stored ones.
SaveTotal(w) == Save(w, "update", Merged(w), "idle")

\* setStatus: markSent and voidInvoice.
SetStatus(w, status) ==
    /\ \/ status = "sent" /\ doc.status = "draft"
       \/ status = "void" /\ doc.paid = 0
    /\ Load(w, [doc EXCEPT !.status = status], "status")
    /\ UNCHANGED registered

SaveStatus(w) == Save(w, "status", Merged(w), "idle")

\* send: the mail goes out before the document is saved.
Send(w) ==
    /\ doc.status # "void"
    /\ Load(w, [doc EXCEPT !.status = IF @ = "draft" THEN "sent" ELSE @], "mail")
    /\ UNCHANGED registered

Mail(w) ==
    /\ pc[w] = "mail"
    /\ shown' = shown \cup {loaded[w].total}
    /\ pc' = [pc EXCEPT ![w] = "mailed"]
    /\ UNCHANGED <<doc, exists, loaded, edited, registered, deal, notified, requests, crossed>>

SaveSent(w) == Save(w, "mailed", Merged(w), "idle")

\* remove
Remove(w) ==
    /\ doc.status = "draft"
    /\ Load(w, doc, "delete")
    /\ UNCHANGED registered

Delete(w) ==
    /\ pc[w] = "delete"
    /\ exists' = FALSE
    /\ crossed' = (crossed \/ Outdated(w))
    /\ pc' = [pc EXCEPT ![w] = "idle"]
    /\ UNCHANGED <<doc, loaded, edited, registered, shown, deal, notified, requests>>

\* A call throws, the list was written meanwhile or the document is gone.
Fail(w) ==
    /\ pc[w] # "idle"
    /\ pc' = [pc EXCEPT ![w] = "idle"]
    /\ UNCHANGED <<doc, exists, loaded, edited, registered, shown, deal, notified, requests, crossed>>

-----------------------------------------------------------------------------
Step(w) ==
    \/ \E p \in Payments : AddPayment(w, p) \/ RemovePayment(w, p)
    \/ SavePayment(w) \/ CloseDeal(w) \/ EmitPaid(w) \/ SaveRemoval(w)
    \/ \E total \in Totals : Update(w, total)
    \/ SaveLines(w) \/ SaveTotal(w)
    \/ \E status \in {"sent", "void"} : SetStatus(w, status)
    \/ SaveStatus(w)
    \/ Send(w) \/ Mail(w) \/ SaveSent(w)
    \/ Remove(w) \/ Delete(w)
    \/ Fail(w)

Next == \E w \in Workers : Step(w)

Spec == Init /\ [][Next]_vars

-----------------------------------------------------------------------------
(* Properties. *)

PCs == {"idle", "pay", "close", "emit", "unpay", "update", "status", "mail", "mailed", "delete"}

\* Every variable has its type.
TypeOK ==
    /\ doc \in Docs /\ exists \in BOOLEAN
    /\ loaded \in [Workers -> Docs] /\ edited \in [Workers -> Docs]
    /\ pc \in [Workers -> PCs]
    /\ registered \subseteq Payments
    /\ shown \subseteq Totals
    /\ deal \in {"open", "won", "lost"}
    /\ notified \in Nat /\ requests \in Nat /\ crossed \in BOOLEAN

\* Requests may interleave as they like: a payment that is in the list leaves
\* it only when a request that was asked to remove it saves, and a save never
\* takes away or adds more than the one payment its request is about.
NoPaymentLost ==
    [][\E w \in Workers : \/ doc'.payments = doc.payments
                          \/ \E p \in registered : /\ pc[w] = "pay"
                                                   /\ doc'.payments = doc.payments \cup {p}
                          \/ \E p \in doc.payments : /\ pc[w] = "unpay"
                                                     /\ p \notin edited[w].payments
                                                     /\ doc'.payments = doc.payments \ {p}]_vars

\* "Recomputes paid amount and status from the payment list: the list is the
\* source of truth" (invoicing.service.ts:270).
ListIsTheTruth == doc.paid = Sum[doc.payments]

\* The status says what the payments say.
StatusFollowsPayments ==
    /\ doc.status = "paid" <=> (doc.paid >= doc.total /\ doc.total > 0)
    /\ doc.status = "partial" <=> (doc.paid > 0 /\ doc.paid < doc.total)

\* addPayment refuses a payment that exceeds the balance: the payments of an
\* invoice never add up to more than its total.
NeverOverpaid == Sum[doc.payments] <= doc.total

\* "Once sent, the amounts are frozen (they were already shown to the
\* customer)" (invoicing.service.ts:190).
FrozenOnceSent == [][doc.status # "draft" => doc'.total = doc.total]_vars

\* What was mailed to the customer is what the invoice says.
CustomerSawTheTotal == shown \subseteq {doc.total}

\* Only a draft can be deleted (invoicing.service.ts:234).
OnlyDraftsRemoved == [][exists /\ ~exists' => doc.status = "draft"]_vars

\* A voided document is not edited any more (invoicing.service.ts:188).
VoidIsFinal == [][doc.status = "void" => doc'.status = "void"]_vars

\* A voided invoice holds no payments (invoicing.service.ts:264).
VoidHoldsNoPayments == doc.status = "void" => doc.payments = {}

\* "The list is the source of truth": as long as no request wrote on a document that
\* another had written since it was loaded, amounts, status and payments of an invoice
\* agree, however requests interleave and whatever fails on the way.
BooksBalance ==
    ~crossed => ListIsTheTruth /\ StatusFollowsPayments /\ NeverOverpaid /\ VoidHoldsNoPayments

\* What was issued stays, with the same exception: its total is frozen
\* (invoicing.service.ts:190), it is not deleted (:234), a void one stays void (:188), and
\* INVOICE_PAID tells of a paid one, where nobody wrote before it was told.
RuleStep ==
    ~crossed' =>
        /\ doc.status # "draft" => doc'.total = doc.total
        /\ exists /\ ~exists' => doc.status = "draft"
        /\ doc.status = "void" => doc'.status = "void"
        /\ notified' # notified => doc.status = "paid"

\* Amount and status are those of the list.
Settled ==
    /\ ListIsTheTruth
    /\ doc.status = "paid" <=> (doc.paid >= doc.total /\ doc.total > 0)
    /\ doc.paid > 0 <=> doc.status \in {"paid", "partial"}

\* And without exception: whatever requests did to one another before, registering or
\* removing a payment on the document as it is puts amount and status right again, for
\* settle starts from the list.
MendStep ==
    \A w \in Workers :
        pc[w] \in {"pay", "unpay"} /\ pc'[w] # pc[w] /\ doc' # doc /\ ~Outdated(w) => Settled'

IssuedStays == [][RuleStep /\ MendStep]_vars
=============================================================================
