----------------------------- MODULE MCInvoice -----------------------------
(* Small instances of Invoice: two payments of 1 and one of 2 against an    *)
(* invoice of 0, 2 or 3, and two requests at a time.                        *)
EXTENDS Invoice, FiniteSetsExt

CONSTANTS p1, p2, p3, w1, w2

Cents == [p \in Payments |-> IF p = p3 THEN 2 ELSE 1]
SumOf == [list \in SUBSET Payments |-> MapThenSumSet(LAMBDA p : Cents[p], list)]
=============================================================================
