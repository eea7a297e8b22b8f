------------------------------- MODULE Quotes -------------------------------
(***************************************************************************)
(* Numbering of invoices and the conversion of a quote into an invoice:    *)
(* InvoicingService.nextNumber, create, convertQuote, and setStatus of a   *)
(* quote.  An invoice is its number (sequence); a request loads the quote, *)
(* draws a number, inserts the invoice, links it to the quote and saves    *)
(* the quote, with other requests between any two of these.                *)
(***************************************************************************)
EXTENDS Naturals, FiniteSets

CONSTANTS
    Workers,    \* requests in progress at the same time
    MaxNumber,  \* bound of the numbers drawn
    MaxChanges, \* bound of the status changes requested
    Faults      \* TRUE: a database call may fail, the server may stop

ASSUME QuotesAssumption ==
    /\ MaxNumber \in Nat /\ MaxChanges \in Nat
    /\ Faults \in BOOLEAN

VARIABLES
    quote,     \* the stored quote: its status and the invoice it became (0: none)
    seq,       \* DocCounter.seq of the invoices
    invoices,  \* numbers of the stored invoices
    issued,    \* numbers of the invoices ever stored
    born,      \* numbers of the invoices ever made from the quote
    pc,        \* [Workers -> next await]
    loaded,    \* [Workers -> the quote as the request loaded it]
    target,    \* [Workers -> the status the request sets]
    number,    \* [Workers -> the number it drew]
    changes    \* status changes requested so far

vars == <<quote, seq, invoices, issued, born, pc, loaded, target, number, changes>>

QuoteStatuses == {"draft", "sent", "accepted", "rejected", "void"}

\* QUOTE_TRANSITIONS
Transitions ==
    {<<"draft", "sent">>, <<"draft", "void">>, <<"sent", "accepted">>, <<"sent", "rejected">>,
     <<"sent", "void">>, <<"accepted", "void">>, <<"rejected", "sent">>}

Init ==
    /\ quote = [status |-> "draft", convertedTo |-> 0]
    /\ seq = 0
    /\ invoices = {} /\ issued = {} /\ born = {}
    /\ pc = [w \in Workers |-> "idle"]
    /\ loaded = [w \in Workers |-> quote]
    /\ target = [w \in Workers |-> "draft"]
    /\ number = [w \in Workers |-> 0]
    /\ changes = 0

GoTo(w, step) == pc' = [pc EXCEPT ![w] = step]

\* create: an invoice of its own.
Create(w) ==
    /\ pc[w] = "idle"
    /\ GoTo(w, "number")
    /\ UNCHANGED <<quote, seq, invoices, issued, born, loaded, target, number, changes>>

\* Mutant of Convert: whether the quote was converted is not looked at.
ConvertAgain(w) ==
    /\ pc[w] = "idle"
    /\ quote.status \notin {"void", "rejected"}
    /\ loaded' = [loaded EXCEPT ![w] = quote]
    /\ GoTo(w, "numberFor")
    /\ UNCHANGED <<quote, seq, invoices, issued, born, target, number, changes>>

\* convertQuote
Convert(w) ==
    /\ pc[w] = "idle"
    /\ quote.convertedTo = 0
    /\ quote.status \notin {"void", "rejected"}
    /\ loaded' = [loaded EXCEPT ![w] = quote]
    /\ GoTo(w, "numberFor")
    /\ UNCHANGED <<quote, seq, invoices, issued, born, target, number, changes>>

\* Mutant of nextNumber: the documents are counted.
nextNumberCounts(w) ==
    /\ pc[w] \in {"number", "numberFor"}
    /\ seq < MaxNumber
    /\ seq' = seq + 1
    /\ number' = [number EXCEPT ![w] = Cardinality(invoices) + 1]
    /\ GoTo(w, IF pc[w] = "number" THEN "insert" ELSE "insertFor")
    /\ UNCHANGED <<quote, invoices, issued, born, loaded, target, changes>>

\* nextNumber: findOneAndUpdate with $inc.
nextNumber(w) ==
    /\ pc[w] \in {"number", "numberFor"}
    /\ seq < MaxNumber
    /\ seq' = seq + 1
    /\ number' = [number EXCEPT ![w] = seq + 1]
    /\ GoTo(w, IF pc[w] = "number" THEN "insert" ELSE "insertFor")
    /\ UNCHANGED <<quote, invoices, issued, born, loaded, target, changes>>

\* docModel.create, under the unique index on the number.  create draws again
\* (three times) on a duplicate key; NumbersAreFresh says it never meets one.
Insert(w) ==
    /\ pc[w] \in {"insert", "insertFor"}
    /\ number[w] \notin invoices
    /\ invoices' = invoices \cup {number[w]}
    /\ issued' = issued \cup {number[w]}
    /\ born' = IF pc[w] = "insertFor" THEN born \cup {number[w]} ELSE born
    /\ GoTo(w, IF pc[w] = "insert" THEN "idle" ELSE "link")
    /\ UNCHANGED <<quote, seq, loaded, target, number, changes>>

\* The invoice learns which quote it comes from; an invoice deleted meanwhile
\* is not found and nothing is said.
Link(w) ==
    /\ pc[w] = "link"
    /\ GoTo(w, "saveQuote")
    /\ UNCHANGED <<quote, seq, invoices, issued, born, loaded, target, number, changes>>

SaveQuote(w) ==
    /\ pc[w] = "saveQuote"
    /\ quote' = [convertedTo |-> number[w],
                 status |-> IF loaded[w].status # "accepted" THEN "accepted" ELSE quote.status]
    /\ GoTo(w, "idle")
    /\ UNCHANGED <<seq, invoices, issued, born, loaded, target, number, changes>>

\* setStatus of a quote
SetStatus(w, status) ==
    /\ pc[w] = "idle"
    /\ changes < MaxChanges
    /\ <<quote.status, status>> \in Transitions
    /\ changes' = changes + 1
    /\ loaded' = [loaded EXCEPT ![w] = quote]
    /\ target' = [target EXCEPT ![w] = status]
    /\ GoTo(w, "setStatus")
    /\ UNCHANGED <<quote, seq, invoices, issued, born, number>>

SaveStatus(w) ==
    /\ pc[w] = "setStatus"
    /\ quote' = [quote EXCEPT !.status = target[w]]
    /\ GoTo(w, "idle")
    /\ UNCHANGED <<seq, invoices, issued, born, loaded, target, number, changes>>

\* A draft invoice is deleted (Invoice has the whole operation).
RemoveInvoice(n) ==
    /\ n \in invoices
    /\ invoices' = invoices \ {n}
    /\ UNCHANGED <<quote, seq, issued, born, pc, loaded, target, number, changes>>

Fail(w) ==
    /\ Faults
    /\ pc[w] # "idle"
    /\ GoTo(w, "idle")
    /\ UNCHANGED <<quote, seq, invoices, issued, born, loaded, target, number, changes>>

Step(w) ==
    \/ Create(w) \/ Convert(w) \/ nextNumber(w) \/ Insert(w) \/ Link(w) \/ SaveQuote(w)
    \/ \E status \in QuoteStatuses : SetStatus(w, status)
    \/ SaveStatus(w) \/ Fail(w)

Next == \/ \E w \in Workers : Step(w)
        \/ \E n \in 1..MaxNumber : RemoveInvoice(n)

Spec == Init /\ [][Next]_vars

-----------------------------------------------------------------------------
(* Properties. *)

Quote == [status : QuoteStatuses, convertedTo : Nat]
PCs == {"idle", "number", "numberFor", "insert", "insertFor", "link", "saveQuote", "setStatus"}

\* Every variable has its type.
TypeOK ==
    /\ quote \in Quote
    /\ seq \in Nat
    /\ invoices \subseteq 1..seq /\ issued \subseteq 1..seq /\ born \subseteq issued
    /\ pc \in [Workers -> PCs]
    /\ loaded \in [Workers -> Quote]
    /\ target \in [Workers -> QuoteStatuses]
    /\ number \in [Workers -> 0..seq]
    /\ changes \in Nat

\* "numbering is atomic, but the unique index is the last line of defence"
\* (invoicing.service.ts:143): a drawn number is nobody else's, and no invoice,
\* deleted ones included, ever had it.
NumbersAreFresh ==
    \A w \in Workers : pc[w] \in {"insert", "insertFor"} =>
        /\ number[w] \notin issued
        /\ \A v \in Workers \ {w} : pc[v] \in {"insert", "insertFor"} => number[v] # number[w]

\* A quote becomes one invoice: convertQuote refuses a second conversion
\* (invoicing.service.ts:347).
ConvertedOnce == Cardinality(born) <= 1

\* The quote points at the invoice made from it, and was accepted by that.
LinkIsTrue == quote.convertedTo # 0 => /\ quote.convertedTo \in born
                                       /\ quote.status \in {"accepted", "void"}

\* A void quote stays void.
VoidIsFinal == [][quote.status = "void" => quote'.status = "void"]_vars

\* A rejected quote is sent again before anything else is done with it.
RejectedIsSentAgain ==
    [][quote.status = "rejected" => quote'.status \in {"rejected", "sent"}]_vars

\* "Atomic, gap-free per workspace and document type" (invoicing.service.ts:78):
\* while no request is about to store a number, every number drawn is in use.
GapFree == (\A w \in Workers : pc[w] \notin {"insert", "insertFor"}) => invoices = 1..seq
=============================================================================
