------------------------------ MODULE MCQuotes ------------------------------
(* A small instance of Quotes: two requests at a time and calls that may fail, *)
(* with what has happened to the quote so far: crossed, two requests of the    *)
(* quote were at work at once; lost, the invoices whose conversion was cut off *)
(* after the insert and before the quote was saved.                            *)
EXTENDS Quotes

CONSTANTS w1, w2

VARIABLES crossed, lost

\* A request that has the quote in its hands.
OnQuote == {"numberFor", "insertFor", "link", "saveQuote", "setStatus"}

\* Conversions that fail with their invoice stored.
Cut == {w \in Workers : pc[w] \in {"link", "saveQuote"} /\ Fail(w)}

TracedInit == Init /\ crossed = FALSE /\ lost = {}

TracedNext ==
    /\ Next
    /\ crossed' = (crossed \/ Cardinality({w \in Workers : pc'[w] \in OnQuote}) > 1)
    /\ lost' = lost \cup {number[w] : w \in Cut}

TracedSpec == TracedInit /\ [][TracedNext]_<<vars, crossed, lost>>

\* convertQuote refuses a second conversion of a quote
\* (invoicing.service.ts:347).  Of the invoices made from a quote all but one are
\* those whose conversion was cut off between the insert and the save of the quote;
\* the quote points at the other one and was accepted by it.  Two requests of the
\* quote at once break it; requests for other invoices, deletions and calls that
\* fail anywhere else do not.
OneInvoiceEach ==
    ~crossed => /\ Cardinality(born \ lost) <= 1
                /\ LinkIsTrue
                /\ quote.convertedTo \notin lost
=============================================================================
