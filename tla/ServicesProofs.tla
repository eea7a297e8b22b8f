--------------------------- MODULE ServicesProofs ---------------------------
(***************************************************************************)
(* Numbers are drawn once, whatever the number of requests, the failures   *)
(* between drawing and storing, and the invoices deleted in between.       *)
(*                                                                         *)
(* A quote becomes one invoice, apart from those whose conversion was cut  *)
(* off, as long as one request at a time holds the quote: that request     *)
(* then knows the quote as it is stored.                                   *)
(*                                                                         *)
(* Mailboxes are in order for any mailboxes, workspaces and requests: a    *)
(* worker that met nobody works alone on its workspace, so what it read    *)
(* of the mailboxes there is still so when it writes.                      *)
(*                                                                         *)
(* Rules act once, hear of every stage and end, for any rules, events and  *)
(* requests: a handler or user who looked alone was right, and what a plan *)
(* runs is bounded by how many older rules each rule has.                  *)
(***************************************************************************)
EXTENDS MCServices, Integers, FiniteSetTheorems, WellFoundedInduction, TLAPS

USE QuotesAssumption

\* With the types, a number that is about to be stored was really drawn.
Drawn == \A w \in Workers : pc[w] \in {"insert", "insertFor"} => number[w] \in 1..seq

IInv == TypeOK /\ Drawn /\ NumbersAreFresh

LEMMA InitNumbers == Init => IInv
  BY DEF Init, IInv, TypeOK, Drawn, NumbersAreFresh, Quote, QuoteStatuses, PCs

LEMMA GoToType ==
    ASSUME TypeOK, NEW w \in Workers, NEW step \in PCs, GoTo(w, step)
    PROVE  /\ pc' \in [Workers -> PCs]
           /\ pc'[w] = step
           /\ \A v \in Workers \ {w} : pc'[v] = pc[v]
  BY DEF GoTo, TypeOK

\* A step that draws and stores no number.
LEMMA Quiet ==
    ASSUME IInv, NEW w \in Workers, NEW step \in PCs \ {"insert", "insertFor"}, GoTo(w, step),
           UNCHANGED <<seq, issued, number>>
    PROVE  Drawn' /\ NumbersAreFresh'
<1>1. /\ pc'[w] = step
      /\ \A v \in Workers \ {w} : pc'[v] = pc[v]
      BY GoToType DEF IInv
<1>2. QED BY <1>1 DEF IInv, Drawn, NumbersAreFresh

LEMMA DrawStep ==
    ASSUME IInv, NEW w \in Workers, nextNumber(w)
    PROVE  IInv'
<1> DEFINE step == IF pc[w] = "number" THEN "insert" ELSE "insertFor"
<1>0. step \in PCs /\ step \in {"insert", "insertFor"} BY DEF PCs
<1>1. /\ pc' \in [Workers -> PCs] /\ pc'[w] = step
      /\ \A v \in Workers \ {w} : pc'[v] = pc[v]
      BY <1>0, GoToType DEF nextNumber, IInv
<1> HIDE DEF step
<1>2. /\ seq \in Nat /\ seq' = seq + 1 /\ issued \subseteq 1..seq /\ issued' = issued
      /\ number \in [Workers -> 0..seq] /\ number' = [number EXCEPT ![w] = seq + 1]
      BY DEF nextNumber, IInv, TypeOK
<1>3. number'[w] = seq + 1 /\ \A v \in Workers \ {w} : number'[v] = number[v] BY <1>2
<1>4. TypeOK'
  <2>1. number' \in [Workers -> 0..seq'] BY <1>2
  <2>2. invoices' \subseteq 1..seq' /\ issued' \subseteq 1..seq'
        BY <1>2 DEF nextNumber, IInv, TypeOK
  <2>3. QED BY <1>1, <1>2, <2>1, <2>2 DEF nextNumber, IInv, TypeOK
<1>5. Drawn' BY <1>0, <1>1, <1>2, <1>3 DEF IInv, Drawn
<1>6. NumbersAreFresh'
  <2>1. number'[w] \notin issued' BY <1>2, <1>3
  <2>2. ASSUME NEW v \in Workers \ {w}, pc'[v] \in {"insert", "insertFor"}
        PROVE  number'[v] \notin issued' /\ number'[v] \in 1..seq
        BY <1>1, <1>2, <1>3, <2>2 DEF IInv, Drawn, NumbersAreFresh
  <2>3. ASSUME NEW v \in Workers, NEW u \in Workers \ {v},
               pc'[v] \in {"insert", "insertFor"}, pc'[u] \in {"insert", "insertFor"}
        PROVE  number'[u] # number'[v]
    <3>1. CASE v = w BY <1>2, <1>3, <2>2, <2>3, <3>1
    <3>2. CASE u = w BY <1>2, <1>3, <2>2, <2>3, <3>2
    <3>3. CASE v # w /\ u # w BY <1>1, <1>3, <2>3, <3>3 DEF IInv, NumbersAreFresh
    <3>4. QED BY <3>1, <3>2, <3>3
  <2>4. QED BY <2>1, <2>2, <2>3 DEF NumbersAreFresh
<1>7. QED BY <1>4, <1>5, <1>6 DEF IInv

LEMMA InsertStep ==
    ASSUME IInv, NEW w \in Workers, Insert(w)
    PROVE  IInv'
<1> DEFINE step == IF pc[w] = "insert" THEN "idle" ELSE "link"
<1>0. step \in PCs /\ step \notin {"insert", "insertFor"} BY DEF PCs
<1>1. /\ pc' \in [Workers -> PCs] /\ pc'[w] = step
      /\ \A v \in Workers \ {w} : pc'[v] = pc[v]
      BY <1>0, GoToType DEF Insert, IInv
<1> HIDE DEF step
<1>2. number[w] \in 1..seq BY DEF Insert, IInv, Drawn
<1>3. TypeOK' BY <1>1, <1>2 DEF Insert, IInv, TypeOK
<1>4. Drawn' BY <1>0, <1>1 DEF Insert, IInv, Drawn
<1>5. NumbersAreFresh'
  <2>1. issued' = issued \cup {number[w]} /\ number' = number BY DEF Insert
  <2>2. pc[w] \in {"insert", "insertFor"} BY DEF Insert
  <2>3. QED BY <1>0, <1>1, <2>1, <2>2 DEF IInv, NumbersAreFresh
<1>6. QED BY <1>3, <1>4, <1>5 DEF IInv

LEMMA NextNumbers ==
    ASSUME IInv, [Next]_vars
    PROVE  IInv'
<1> USE DEF PCs
<1>1. CASE UNCHANGED vars
      BY <1>1 DEF vars, IInv, TypeOK, Drawn, NumbersAreFresh
<1>2. ASSUME NEW n \in 1..MaxNumber, RemoveInvoice(n) PROVE IInv'
      BY <1>2 DEF RemoveInvoice, IInv, TypeOK, Drawn, NumbersAreFresh
<1>3. ASSUME NEW w \in Workers, Step(w) PROVE IInv'
  <2>0. TypeOK BY DEF IInv
  <2>1. CASE Create(w)
    <3>1. TypeOK' BY <2>0, <2>1, GoToType DEF Create, TypeOK
    <3>2. Drawn' /\ NumbersAreFresh'
      <4>1. \A v \in Workers \ {w} : pc'[v] = pc[v] BY <2>0, <2>1, GoToType DEF Create
      <4>2. pc'[w] = "number" BY <2>0, <2>1, GoToType DEF Create
      <4>3. QED BY <2>1, <4>1, <4>2 DEF Create, IInv, Drawn, NumbersAreFresh
    <3>3. QED BY <3>1, <3>2 DEF IInv
  <2>2. CASE Convert(w)
    <3>1. TypeOK' BY <2>0, <2>2, GoToType DEF Convert, TypeOK
    <3>2. QED BY <2>2, <3>1, Quiet DEF Convert, IInv
  <2>3. CASE nextNumber(w) BY <2>3, DrawStep
  <2>4. CASE Insert(w) BY <2>4, InsertStep
  <2>5. CASE Link(w)
    <3>1. TypeOK' BY <2>0, <2>5, GoToType DEF Link, TypeOK
    <3>2. QED BY <2>5, <3>1, Quiet DEF Link, IInv
  <2>6. CASE SaveQuote(w)
    <3>1. quote' \in Quote
          BY <2>0, <2>6 DEF SaveQuote, TypeOK, Quote, QuoteStatuses
    <3>2. TypeOK' BY <2>0, <2>6, <3>1, GoToType DEF SaveQuote, TypeOK
    <3>3. QED BY <2>6, <3>2, Quiet DEF SaveQuote, IInv
  <2>7. ASSUME NEW status \in QuoteStatuses, SetStatus(w, status) PROVE IInv'
    <3>1. TypeOK' BY <2>0, <2>7, GoToType DEF SetStatus, TypeOK
    <3>2. QED BY <2>7, <3>1, Quiet DEF SetStatus, IInv
  <2>8. CASE SaveStatus(w)
    <3>1. quote' \in Quote BY <2>0, <2>8 DEF SaveStatus, TypeOK, Quote
    <3>2. TypeOK' BY <2>0, <2>8, <3>1, GoToType DEF SaveStatus, TypeOK
    <3>3. QED BY <2>8, <3>2, Quiet DEF SaveStatus, IInv
  <2>9. CASE Fail(w)
    <3>1. TypeOK' BY <2>0, <2>9, GoToType DEF Fail, TypeOK
    <3>2. QED BY <2>9, <3>1, Quiet DEF Fail, IInv
  <2>10. QED BY <1>3, <2>1, <2>2, <2>3, <2>4, <2>5, <2>6, <2>7, <2>8, <2>9 DEF Step
<1>4. QED BY <1>1, <1>2, <1>3 DEF Next

\* A number that is about to be stored is nobody else's, and no invoice, deleted
\* ones included, ever had it: the retry on a duplicate number is never needed.
THEOREM NumbersNeverCollide == Spec => [](TypeOK /\ NumbersAreFresh)
<1>1. IInv => TypeOK /\ NumbersAreFresh BY DEF IInv
<1>2. QED BY <1>1, InitNumbers, NextNumbers, PTL DEF Spec

-----------------------------------------------------------------------------
(* The conversion of a quote. *)

Holding    == {w \in Workers : pc[w] \in OnQuote}
Converting == {"numberFor", "insertFor", "link", "saveQuote"}

OneHolds == \A v, w \in Holding : v = w

\* What the request that holds the quote is right about.
Known ==
    \A w \in Holding :
        /\ pc[w] \in Converting =>
              /\ loaded[w] = quote
              /\ quote.convertedTo = 0 /\ quote.status \notin {"void", "rejected"}
              /\ born = IF pc[w] \in {"link", "saveQuote"} THEN lost \cup {number[w]} ELSE lost
        /\ pc[w] \in {"link", "saveQuote"} => number[w] \in 1..seq /\ number[w] \notin lost
        /\ pc[w] = "setStatus" => <<quote.status, target[w]>> \in Transitions

\* What was made of the quote once nobody is converting it.
Made ==
    (\A w \in Workers : pc[w] \notin Converting) =>
        IF quote.convertedTo = 0 THEN born = lost
        ELSE born = lost \cup {quote.convertedTo} /\ quote.status \in {"accepted", "void"}

QuoteInv == OneHolds /\ Known /\ Made /\ quote.convertedTo \notin lost

\* While no two requests have held the quote, the one that holds it is the only one.
LEMMA OnlyOne ==
    ASSUME IsFiniteSet(Workers), ~crossed', TracedNext
    PROVE  ~crossed /\ OneHolds'
<1>1. ~crossed /\ ~(Cardinality(Holding') > 1)
  BY DEF TracedNext, Holding
<1>2. IsFiniteSet(Holding')
  BY FS_Subset DEF Holding
<1>3. ASSUME NEW v \in Holding', NEW w \in Holding', v # w PROVE FALSE
  <2>1. {v, w} \subseteq Holding'
    BY <1>3
  <2>2. Cardinality({v, w}) <= Cardinality(Holding') /\ IsFiniteSet({v, w})
    BY <2>1, <1>2, FS_Subset
  <2>3. Cardinality({v, w}) = 2
    <3>1. {v, w} = {v} \cup {w} /\ w \notin {v}
      BY <1>3
    <3>2. IsFiniteSet({v}) /\ Cardinality({v}) = 1
      BY FS_Singleton
    <3>3. Cardinality({v} \cup {w}) = Cardinality({v}) + 1
      BY <3>1, <3>2, FS_AddElement
    <3>4. Cardinality({v} \cup {w}) = 2
      BY <3>2, <3>3
    <3> QED BY <3>1, <3>4
  <2>4. Cardinality(Holding') \in Nat
    BY <1>2, FS_CardinalityType
  <2> QED BY <1>1, <2>2, <2>3, <2>4
<1> QED BY <1>1, <1>3 DEF OneHolds

\* A step that cuts no conversion off loses nothing.
LEMMA NothingLost ==
    ASSUME TracedNext, \A v \in Workers : ~(pc[v] \in {"link", "saveQuote"} /\ Fail(v))
    PROVE  lost' = lost
  BY DEF TracedNext, Cut

LEMMA StepQuote ==
    ASSUME IInv, IInv', QuoteInv, OneHolds', TracedNext, NEW w \in Workers, Step(w)
    PROVE  QuoteInv'
<1>0. /\ pc \in [Workers -> PCs] /\ loaded \in [Workers -> Quote] /\ quote \in Quote
      /\ target \in [Workers -> QuoteStatuses] /\ number \in [Workers -> 0..seq] /\ seq \in Nat
  BY DEF IInv, TypeOK
<1>1. \A v \in Workers : v # w => pc'[v] = pc[v]
  BY <1>0 DEF Step, Create, Convert, nextNumber, Insert, Link, SaveQuote, SetStatus, SaveStatus, Fail, GoTo
\* Nobody else holds the quote, before the step or after it.
<1>2. \A v \in Workers : v # w /\ pc'[w] \in OnQuote => pc[v] \notin OnQuote
  BY <1>1 DEF OneHolds, Holding
<1>3. pc[w] \in OnQuote => \A v \in Workers : v # w => pc[v] \notin OnQuote
  BY DEF QuoteInv, OneHolds, Holding
\* A step that is not a failure of w's own is nobody's.
<1>4. \A v \in Workers : Fail(v) => v = w
  <2> SUFFICES ASSUME NEW v \in Workers, Fail(v), v # w PROVE FALSE
    OBVIOUS
  <2>1. pc[v] # "idle" /\ pc'[v] = "idle"
    BY <1>0 DEF Fail, GoTo
  <2> QED BY <1>1, <2>1
<1> USE DEF QuoteInv, Known, Made, Holding, OnQuote, Converting, GoTo
<1>5. CASE Create(w)
  <2>1. pc'[w] = "number" /\ pc[w] = "idle"
    BY <1>0, <1>5 DEF Create
  <2>2. lost' = lost
    BY <1>4, <2>1, NothingLost
  <2> QED BY <1>1, <1>5, <2>1, <2>2 DEF Create
<1>6. CASE Convert(w)
  <2>1. pc'[w] = "numberFor" /\ loaded'[w] = quote /\ pc[w] = "idle"
    BY <1>0, <1>6 DEF Convert
  <2>2. lost' = lost
    BY <1>4, <2>1, NothingLost
  <2>3. \A v \in Workers : pc[v] \notin OnQuote
    BY <1>2, <2>1
  <2> QED BY <1>1, <1>6, <2>1, <2>2, <2>3 DEF Convert
<1>7. CASE nextNumber(w)
  <2>1. /\ pc[w] \in {"number", "numberFor"} /\ number'[w] = seq + 1 /\ seq' = seq + 1
        /\ pc'[w] = IF pc[w] = "number" THEN "insert" ELSE "insertFor"
        /\ \A v \in Workers : v # w => number'[v] = number[v]
    BY <1>0, <1>7 DEF nextNumber
  <2>2. lost' = lost
    BY <1>4, <2>1, NothingLost
  <2>3. CASE pc[w] = "number"
    BY <1>0, <1>1, <1>7, <2>1, <2>2, <2>3 DEF nextNumber
  <2>4. CASE pc[w] = "numberFor"
    BY <1>0, <1>1, <1>3, <1>7, <2>1, <2>2, <2>4 DEF nextNumber
  <2> QED BY <2>1, <2>3, <2>4
<1>8. CASE Insert(w)
  <2>1. /\ pc[w] \in {"insert", "insertFor"}
        /\ pc'[w] = IF pc[w] = "insert" THEN "idle" ELSE "link"
    BY <1>0, <1>8 DEF Insert
  <2>2. lost' = lost
    BY <1>4, <2>1, NothingLost
  <2>3. CASE pc[w] = "insert"
    BY <1>1, <1>8, <2>1, <2>2, <2>3 DEF Insert
  <2>4. CASE pc[w] = "insertFor"
    <3>1. number[w] \in 1..seq /\ number[w] \notin issued /\ born \subseteq issued
      BY <2>4 DEF IInv, Drawn, NumbersAreFresh, TypeOK
    <3>2. born = lost /\ number[w] \notin lost
      BY <2>4, <3>1
    <3>3. \A v \in Workers : v # w => pc'[v] \notin OnQuote
      BY <1>1, <1>3, <2>4
    <3> QED BY <1>1, <1>8, <2>1, <2>2, <2>4, <3>1, <3>2, <3>3 DEF Insert
  <2> QED BY <2>1, <2>3, <2>4
<1>9. CASE Link(w)
  <2>1. pc[w] = "link" /\ pc'[w] = "saveQuote"
    BY <1>0, <1>9 DEF Link
  <2>2. ~Fail(w)
    BY <1>0, <2>1 DEF Fail
  <2>3. lost' = lost
    BY <1>4, <2>2, NothingLost
  <2> QED BY <1>1, <1>3, <1>9, <2>1, <2>3 DEF Link
<1>10. CASE SaveQuote(w)
  <2>1. /\ pc[w] = "saveQuote" /\ pc'[w] = "idle" /\ quote.convertedTo = 0 /\ quote.status \notin {"void", "rejected"}
        /\ number[w] \in 1..seq /\ born = lost \cup {number[w]} /\ loaded[w] = quote /\ number[w] \notin lost
    BY <1>0, <1>10 DEF SaveQuote
  <2>2. quote'.convertedTo = number[w] /\ quote'.status = "accepted" /\ number[w] # 0
    BY <1>10, <2>1, <1>0 DEF SaveQuote
  <2>3. ~Fail(w)
    BY <2>1, <2>2 DEF Fail
  <2>4. lost' = lost
    BY <1>4, <2>3, NothingLost
  <2>5. \A v \in Workers : pc'[v] \notin OnQuote
    BY <1>1, <1>3, <2>1
  <2> QED BY <1>10, <2>1, <2>2, <2>4, <2>5 DEF SaveQuote
<1>11. ASSUME NEW status \in QuoteStatuses, SetStatus(w, status) PROVE QuoteInv'
  <2>1. /\ pc[w] = "idle" /\ pc'[w] = "setStatus" /\ target'[w] = status
        /\ <<quote.status, status>> \in Transitions
    BY <1>0, <1>11 DEF SetStatus
  <2>2. lost' = lost
    BY <1>4, <2>1, NothingLost
  <2>3. \A v \in Workers : v # w => pc[v] \notin OnQuote /\ pc'[v] \notin OnQuote
    BY <1>1, <1>2, <2>1
  <2> QED BY <1>11, <2>1, <2>2, <2>3 DEF SetStatus
<1>12. CASE SaveStatus(w)
  <2>1. /\ pc[w] = "setStatus" /\ pc'[w] = "idle" /\ <<quote.status, target[w]>> \in Transitions
        /\ quote'.status = target[w] /\ quote'.convertedTo = quote.convertedTo
    BY <1>0, <1>12 DEF SaveStatus, Quote
  <2>2. lost' = lost
    BY <1>4, <2>1, NothingLost
  <2>3. \A v \in Workers : pc'[v] \notin OnQuote /\ (v # w => pc[v] \notin OnQuote)
    BY <1>1, <1>3, <2>1
  <2>4. quote.status \in {"accepted", "void"} => quote'.status = "void"
    BY <2>1 DEF Transitions
  <2> QED BY <1>12, <2>1, <2>2, <2>3, <2>4 DEF SaveStatus
<1>13. CASE Fail(w)
  <2>1. pc'[w] = "idle" /\ UNCHANGED <<quote, seq, born, loaded, target, number>>
    BY <1>0, <1>13 DEF Fail
  <2>2. lost' = IF pc[w] \in {"link", "saveQuote"} THEN lost \cup {number[w]} ELSE lost
    <3>1. CASE pc[w] \in {"link", "saveQuote"}
      <4>1. Cut = {w}
        BY <1>4, <1>13, <3>1 DEF Cut
      <4> QED BY <3>1, <4>1 DEF TracedNext
    <3>2. CASE pc[w] \notin {"link", "saveQuote"}
      BY <1>4, <3>2, NothingLost
    <3> QED BY <3>1, <3>2
  <2>3. CASE pc[w] \in OnQuote
    <3>1. \A v \in Workers : pc'[v] \notin OnQuote
      BY <1>1, <1>3, <2>1, <2>3
    <3>2. CASE pc[w] \in Converting
      <4>1. /\ quote.convertedTo = 0
            /\ born = IF pc[w] \in {"link", "saveQuote"} THEN lost \cup {number[w]} ELSE lost
            /\ pc[w] \in {"link", "saveQuote"} => number[w] \in 1..seq
        BY <3>2
      <4>2. born' = lost' /\ quote'.convertedTo = 0
        BY <2>1, <2>2, <4>1
      <4>3. quote'.convertedTo \notin lost'
        BY <1>0, <2>1, <2>2, <4>1
      <4> QED BY <3>1, <4>2, <4>3
    <3>3. CASE pc[w] = "setStatus"
      <4>1. lost' = lost
        BY <2>2, <3>3
      <4>2. \A v \in Workers : pc[v] \notin Converting
        BY <1>3, <2>3, <3>3
      <4> QED BY <2>1, <3>1, <4>1, <4>2
    <3> QED BY <2>3, <3>2, <3>3
  <2>4. CASE pc[w] \notin OnQuote
    <3>1. lost' = lost
      BY <2>2, <2>4
    <3> QED BY <1>1, <2>1, <2>4, <3>1
  <2> QED BY <2>3, <2>4
<1> QED BY <1>5, <1>6, <1>7, <1>8, <1>9, <1>10, <1>11, <1>12, <1>13 DEF Step

LEMMA NextQuote ==
    ASSUME IsFiniteSet(Workers), IInv, IInv', ~crossed => QuoteInv, [TracedNext]_<<vars, crossed, lost>>
    PROVE  ~crossed' => QuoteInv'
<1> SUFFICES ASSUME ~crossed' PROVE QuoteInv'
  OBVIOUS
<1>1. CASE UNCHANGED <<vars, crossed, lost>>
  BY <1>1 DEF vars, QuoteInv, OneHolds, Known, Made, Holding
<1>2. CASE TracedNext
  <2>1. QuoteInv /\ OneHolds'
    BY <1>2, OnlyOne
  <2>2. ASSUME NEW n \in 1..MaxNumber, RemoveInvoice(n) PROVE QuoteInv'
    <3>1. \A v \in Workers : ~Fail(v)
      BY <2>2 DEF RemoveInvoice, Fail, GoTo, IInv, TypeOK
    <3>2. lost' = lost
      BY <1>2, <3>1, NothingLost
    <3> QED BY <2>1, <2>2, <3>2 DEF RemoveInvoice, QuoteInv, OneHolds, Known, Made, Holding
  <2> QED BY <1>2, <2>1, <2>2, StepQuote DEF TracedNext, Next
<1> QED BY <1>1, <1>2

\* A quote becomes one invoice (convertQuote, invoicing.service.ts:347): however many
\* requests are at work, whatever fails and whatever invoices are deleted, all but one of
\* the invoices made from the quote are those whose conversion was cut off between its
\* insert and its save, and the quote points at the other one and was accepted by it,
\* until two requests hold the quote at once.
THEOREM QuoteBecomesOneInvoice ==
    ASSUME IsFiniteSet(Workers)
    PROVE  TracedSpec => []OneInvoiceEach
<1>1. TracedInit => IInv /\ (~crossed => QuoteInv)
  BY InitNumbers DEF TracedInit, Init, QuoteInv, OneHolds, Known, Made, Holding, Converting, OnQuote
<1>2. IInv /\ (~crossed => QuoteInv) /\ [TracedNext]_<<vars, crossed, lost>> => (IInv /\ (~crossed => QuoteInv))'
  <2> SUFFICES ASSUME IInv, ~crossed => QuoteInv, [TracedNext]_<<vars, crossed, lost>>
               PROVE  IInv' /\ (~crossed' => QuoteInv')
    OBVIOUS
  <2>1. IInv'
    BY NextNumbers DEF TracedNext, vars
  <2> QED BY <2>1, NextQuote
<1>3. IInv /\ (~crossed => QuoteInv) => OneInvoiceEach
  <2> SUFFICES ASSUME IInv, QuoteInv
               PROVE  Cardinality(born \ lost) <= 1 /\ LinkIsTrue /\ quote.convertedTo \notin lost
    BY DEF OneInvoiceEach
  <2>1. born \ lost = {} \/ \E n : born \ lost = {n}
    <3>1. CASE \E w \in Workers : pc[w] \in Converting
      <4>1. PICK w \in Workers : pc[w] \in Converting
        BY <3>1
      <4>2. born = lost \/ (born = lost \cup {number[w]} /\ number[w] \notin lost)
        BY <4>1 DEF QuoteInv, Known, Holding, Converting, OnQuote
      <4>3. born \ lost = {} \/ born \ lost = {number[w]}
        BY <4>2
      <4> QED BY <4>3
    <3>2. CASE \A w \in Workers : pc[w] \notin Converting
      <4>1. born \ lost = {} \/ born \ lost = {quote.convertedTo}
        BY <3>2 DEF QuoteInv, Made
      <4> QED BY <4>1
    <3> QED BY <3>1, <3>2
  <2>2. Cardinality(born \ lost) <= 1
    <3>1. Cardinality({}) = 0 /\ \A n : Cardinality({n}) = 1
      BY FS_EmptySet, FS_Singleton
    <3>2. Cardinality(born \ lost) = 0 \/ Cardinality(born \ lost) = 1
      BY <2>1, <3>1
    <3> QED BY <3>2
  <2>3. LinkIsTrue
    BY DEF LinkIsTrue, QuoteInv, Known, Made, Holding, Converting, OnQuote
  <2> QED BY <2>2, <2>3 DEF QuoteInv
<1> QED BY <1>1, <1>2, <1>3, PTL DEF TracedSpec

-----------------------------------------------------------------------------
(* Mailboxes: the invariant. *)

BoxRecords  == [status : {"unborn", "connected", "disconnected", "gone"}, main : BOOLEAN, place : Places, address : Addresses]
CallRecords == [kind : {"none", "connect", "default", "disconnect", "remove", "boot"},
                step : {"rest", "test", "close", "stop", "mails", "delete", "look", "clear", "mark", "start", "scopes", "scope"},
                box : Nat, place : Places, address : Addresses,
                status : {"none", "unborn", "connected", "disconnected", "gone"}, main : BOOLEAN, keep : Nat,
                left : SUBSET Places]

BoxesTyped ==
    /\ boxes \in [Boxes -> BoxRecords] /\ loops \subseteq Boxes /\ mails \subseteq Boxes
    /\ reading \in [Boxes -> {"rest", "reading", "ending"}]
    /\ call \in [M!Actors -> CallRecords]
    /\ overlapped \subseteq Places /\ unsettled \subseteq Places /\ doubled \in BOOLEAN /\ missed \subseteq Boxes /\ late \subseteq Boxes

\* Mailboxes come one after the other.
InTurn == \E n \in 0..MaxBoxes : \A b \in Boxes : boxes[b].status # "unborn" <=> b <= n

\* What a request does, and the mailbox it is about; the start-up is about none.
Born(b, p) == b \in Boxes /\ boxes[b].place = p /\ boxes[b].status # "unborn"

ShapedCall(w) ==
    LET c == call[w] IN
    /\ \/ c = M!Free
       \/ w = M!Boot /\ c.kind = "boot" /\ c.step \in {"scopes", "scope", "look", "clear", "mark"}
       \/ w # M!Boot /\ c.kind = "connect" /\ c.step \in {"test", "look", "clear", "mark", "start"}
       \/ w # M!Boot /\ c.kind = "default" /\ c.step \in {"clear", "mark"}
       \/ w # M!Boot /\ c.kind = "disconnect" /\ c.step \in {"close", "stop", "look", "clear", "mark"}
       \/ w # M!Boot /\ c.kind = "remove" /\ c.step \in {"mails", "delete", "look", "clear", "mark"}
    /\ c.kind \in {"connect", "default", "disconnect", "remove"} => Born(c.box, c.place) \/ (c.step = "test" /\ c.box = 0)
    /\ c.step \in {"clear", "mark"} => Born(c.keep, c.place)
    /\ c.kind = "default" => c.keep = c.box

CallsShaped == \A w \in M!Actors : ShapedCall(w)

\* While no two connect, the one that does found the address free and has room.
AddressesKept ==
    ~doubled => /\ \A b, c \in Boxes : b # c /\ M!Exists(b) /\ M!Exists(c) => boxes[b].address # boxes[c].address
                /\ \A v, w \in Calls : call[v].kind = "connect" /\ call[w].kind = "connect" => v = w
                /\ \A w \in Calls : call[w].step = "test" => ~M!Taken(call[w].address, call[w].box)

ConnectedBoxes == {b \in Boxes : M!Connected(b)}
RoomKept ==
    ~doubled => /\ Cardinality(ConnectedBoxes) <= Limit
                /\ \A w \in Calls : call[w].step = "test" =>
                      (call[w].box # 0 /\ call[w].status = "connected") \/ Cardinality(ConnectedBoxes) < Limit

\* Where nothing overlapped, one worker at most is at work on a place, and either there is
\* one default or it is on its way to see to that.
Choosing(w, p) ==
    LET c == call[w] IN
    c.place = p /\ c.step \in {"clear", "mark"} =>
        /\ M!Connected(c.keep)
        /\ c.step = "mark" => \A b \in M!In(p) : boxes[b].main => b = c.keep
        /\ c.kind = "default" /\ c.main => boxes[c.keep].main

\* A call that has not touched the default of its place yet, or has seen to it.
Untouched(c) == c.step \in {"test", "start", "close", "mails", "delete"} \/ (c.step = "clear" /\ c.kind = "default")

Sound(p) == M!Settled(p) \/ p \in unsettled

DefaultOf(p) ==
    p \notin overlapped =>
        /\ \A v, w \in M!Working(p) : v = w
        /\ M!Working(p) = {} => Sound(p)
        /\ \A w \in Calls : call[w].place = p /\ Untouched(call[w]) => Sound(p)
        /\ \A w \in M!Actors : Choosing(w, p)
        /\ LET c == call[M!Boot] IN
           c.step \in {"scope", "look", "clear", "mark"} =>
               p \in c.left \/ (p = c.place /\ c.step # "scope") \/ Sound(p)

DefaultsKept == \A p \in Places : DefaultOf(p)

\* A connected mailbox has a loop that goes on, or somebody is about to start or to end it.
LoopOf(b) ==
    boxes[b].place \notin overlapped =>
        /\ call[M!Boot] # M!Free => b \notin loops /\ reading[b] # "ending"
        /\ M!Connected(b) /\ b \notin missed /\ call[M!Boot] = M!Free =>
               \/ \E w \in Calls : call[w].box = b /\ call[w].kind = "connect" /\ call[w].step # "test"
               \/ /\ b \in loops \/ \E w \in Calls : call[w].box = b /\ call[w].step \in {"mails", "delete"}
                  /\ reading[b] # "ending"
        /\ \A w \in Calls : call[w].box = b => /\ call[w].step = "stop" => ~M!Connected(b)
                                               /\ call[w].step = "close" => call[w].status = boxes[b].status

LoopsKept == \A b \in Boxes : LoopOf(b)

\* Who removes a mailbox leaves none of its mails, and no sync of it is at work.
MailsOf(b) ==
    b \notin late =>
        /\ boxes[b].status = "gone" => b \notin mails /\ reading[b] # "reading"
        /\ \A w \in Calls : call[w].box = b => /\ call[w].step \in {"mails", "delete"} => reading[b] # "reading"
                                               /\ call[w].step = "delete" => b \notin mails

MailsKept == \A b \in Boxes : MailsOf(b)

MailInv == BoxesTyped /\ InTurn /\ CallsShaped /\ AddressesKept /\ RoomKept /\ DefaultsKept /\ LoopsKept /\ MailsKept

-----------------------------------------------------------------------------
(* Mailboxes: it holds. *)

LEMMA MailCounted == \A T : M!Cardinality(T) = Cardinality(T)
BY DEF M!Cardinality, Cardinality

LEMMA WhoActs == M!Boot \in M!Actors /\ Calls \subseteq M!Actors /\ \A w \in M!Actors : w = M!Boot <=> w \notin Calls
BY MailAssumption DEF M!Actors

LEMMA FreeCall == M!Free \in CallRecords /\ M!Free.step = "rest" /\ M!Free.kind = "none" /\ M!Free.box = 0
<1>1. (CHOOSE p \in Places : TRUE) \in Places /\ (CHOOSE a \in Addresses : TRUE) \in Addresses BY MailAssumption
<1>2. QED BY <1>1 DEF M!Free, CallRecords

LEMMA PutOne ==
    ASSUME BoxesTyped, NEW w \in M!Actors, NEW record \in CallRecords, M!Put(w, record)
    PROVE  call' \in [M!Actors -> CallRecords] /\ call'[w] = record /\ \A v \in M!Actors \ {w} : call'[v] = call[v]
BY DEF BoxesTyped, M!Put

\* A step taken.
LEMMA GoOne ==
    ASSUME BoxesTyped, NEW w \in M!Actors, NEW step, M!Go(w, step),
           step \in {"rest", "test", "close", "stop", "mails", "delete", "look", "clear", "mark", "start", "scopes", "scope"}
    PROVE  /\ call' \in [M!Actors -> CallRecords] /\ \A v \in M!Actors \ {w} : call'[v] = call[v]
           /\ call'[w] = [call[w] EXCEPT !.step = step] /\ call'[w].step = step
           /\ call'[w].kind = call[w].kind /\ call'[w].box = call[w].box /\ call'[w].place = call[w].place
           /\ call'[w].keep = call[w].keep /\ call'[w].main = call[w].main /\ call'[w].status = call[w].status
           /\ call'[w].left = call[w].left /\ call'[w].address = call[w].address
<1>1. call[w] \in CallRecords BY DEF BoxesTyped
<1> DEFINE record == [call[w] EXCEPT !.step = step]
<1>2. /\ record \in CallRecords /\ record.step = step
      /\ record.kind = call[w].kind /\ record.box = call[w].box /\ record.place = call[w].place
      /\ record.keep = call[w].keep /\ record.main = call[w].main /\ record.status = call[w].status
      /\ record.left = call[w].left /\ record.address = call[w].address
  BY <1>1 DEF CallRecords
<1>3. M!Put(w, record) BY DEF M!Go
<1> HIDE DEF record
<1>4. call' \in [M!Actors -> CallRecords] /\ call'[w] = record /\ \A v \in M!Actors \ {w} : call'[v] = call[v]
  BY <1>2, <1>3, PutOne
<1>5. QED BY <1>2, <1>4 DEF record

LEMMA WhoseStep ==
    ASSUME BoxesTyped, CallsShaped, NEW w \in M!Actors
    PROVE  /\ call[w] = M!Free <=> call[w].step = "rest"
           /\ call[w].kind = "none" <=> call[w] = M!Free
           /\ call[w].kind = "boot" <=> w = M!Boot /\ call[w] # M!Free
           /\ call[w].step = "test" => w \in Calls /\ call[w].kind = "connect"
           /\ call[w].step \in {"close", "stop"} => w \in Calls /\ call[w].kind = "disconnect"
           /\ call[w].step \in {"mails", "delete"} => w \in Calls /\ call[w].kind = "remove"
           /\ call[w].step = "start" => w \in Calls /\ call[w].kind = "connect"
           /\ call[w].step \in {"scope", "scopes"} => w = M!Boot
           /\ w \in Calls /\ call[w] # M!Free /\ call[w].step # "test" => Born(call[w].box, call[w].place)
           /\ call[w].place \in Places
<1>1. ShapedCall(w) BY DEF CallsShaped
<1>2. call[w].place \in Places BY DEF BoxesTyped, CallRecords
<1>3. QED BY <1>1, <1>2, FreeCall, WhoActs DEF ShapedCall

-----------------------------------------------------------------------------
\* What most steps leave alone.
LEMMA InTurnStays ==
    ASSUME InTurn, \A b \in Boxes : boxes'[b].status = "unborn" <=> boxes[b].status = "unborn"
    PROVE  InTurn'
BY DEF InTurn, Boxes

LEMMA ShapesStay ==
    ASSUME CallsShaped, \A b \in Boxes : boxes[b].status # "unborn" => boxes'[b].status # "unborn" /\ boxes'[b].place = boxes[b].place,
           NEW w \in M!Actors, \A v \in M!Actors \ {w} : call'[v] = call[v], ShapedCall(w)'
    PROVE  CallsShaped'
<1>1. \A b, p : Born(b, p) => Born(b, p)' BY DEF Born, Boxes
<1>2. \A v \in M!Actors \ {w} : ShapedCall(v)' BY <1>1 DEF CallsShaped, ShapedCall
<1>3. QED BY <1>2 DEF CallsShaped

LEMMA AddressesStay ==
    ASSUME AddressesKept, doubled => doubled',
           \A b \in Boxes : M!Exists(b)' => M!Exists(b) /\ boxes'[b].address = boxes[b].address,
           \A w \in Calls : call'[w].kind = "connect" => call[w].kind = "connect",
           \A w \in Calls : call'[w].step = "test" => call[w].step = "test" /\ call'[w].box = call[w].box /\ call'[w].address = call[w].address
    PROVE  AddressesKept'
<1>1. SUFFICES ASSUME ~doubled' PROVE AddressesKept' BY DEF AddressesKept
<1>2. ~doubled BY <1>1
<1>3. ASSUME NEW w \in Calls, call'[w].step = "test", NEW c \in Boxes \ {call'[w].box}, M!Exists(c)'
      PROVE  boxes'[c].address # call'[w].address
  BY <1>2, <1>3 DEF AddressesKept, M!Taken
<1>4. \A b, c \in Boxes : b # c /\ M!Exists(b)' /\ M!Exists(c)' => boxes'[b].address # boxes'[c].address BY <1>2 DEF AddressesKept
<1>5. \A w \in Calls : (call[w].step = "test" => ~M!Taken(call[w].address, call[w].box))' BY <1>3 DEF M!Taken, Boxes
<1>6. \A v, w \in Calls : call'[v].kind = "connect" /\ call'[w].kind = "connect" => v = w BY <1>2 DEF AddressesKept
<1>7. QED BY <1>4, <1>5, <1>6 DEF AddressesKept, Boxes

LEMMA BoxesFinite ==
    ASSUME NEW T, T \subseteq Boxes
    PROVE  IsFiniteSet(T) /\ Cardinality(T) \in Nat
<1>1. IsFiniteSet(Boxes) BY MailAssumption, FS_Interval DEF Boxes
<1>2. QED BY <1>1, FS_Subset, FS_CardinalityType

LEMMA RoomStays ==
    ASSUME RoomKept, doubled => doubled', \A b \in Boxes : boxes'[b].status = "connected" => boxes[b].status = "connected",
           \A w \in Calls : call'[w].step = "test" => call[w].step = "test" /\ call'[w].box = call[w].box /\ call'[w].status = call[w].status
    PROVE  RoomKept'
<1>1. ConnectedBoxes' \subseteq ConnectedBoxes BY DEF ConnectedBoxes, M!Connected, Boxes
<1>2. ConnectedBoxes \subseteq Boxes BY DEF ConnectedBoxes
<1>3. /\ Cardinality(ConnectedBoxes) \in Nat /\ Cardinality(ConnectedBoxes') \in Nat
      /\ Cardinality(ConnectedBoxes') <= Cardinality(ConnectedBoxes)
  BY <1>1, <1>2, BoxesFinite, FS_Subset
<1>4. QED BY <1>3, MailAssumption DEF RoomKept

LEMMA LoopsStay ==
    ASSUME LoopsKept, UNCHANGED <<loops, missed>>, overlapped \subseteq overlapped',
           \A b \in Boxes : /\ boxes'[b].status = boxes[b].status /\ boxes'[b].place = boxes[b].place
                            /\ reading'[b] = "ending" => reading[b] = "ending",
           call'[M!Boot] = M!Free <=> call[M!Boot] = M!Free,
           \A w \in Calls :
             /\ call[w].kind = "connect" /\ call[w].step \notin {"test", "start"} =>
                    call'[w].kind = "connect" /\ call'[w].step # "test" /\ call'[w].box = call[w].box
             /\ call[w].step = "start" => call'[w] = call[w]
             /\ call[w].step \in {"mails", "delete"} => call'[w].step \in {"mails", "delete"} /\ call'[w].box = call[w].box
             /\ call'[w].step = "stop" => call[w].step = "stop" /\ call'[w].box = call[w].box
             /\ call'[w].step = "close" => call[w].step = "close" /\ call'[w].box = call[w].box /\ call'[w].status = call[w].status
    PROVE  LoopsKept'
<1> SUFFICES ASSUME NEW b \in Boxes, boxes'[b].place \notin overlapped' PROVE LoopOf(b)' BY DEF LoopsKept, LoopOf, Boxes
<1>1. LoopOf(b) /\ boxes[b].place \notin overlapped BY DEF LoopsKept
<1>2. call'[M!Boot] # M!Free => b \notin loops' /\ reading'[b] # "ending" BY <1>1 DEF LoopOf
<1>3. ASSUME M!Connected(b)', b \notin missed', call'[M!Boot] = M!Free
      PROVE  \/ \E w \in Calls : call'[w].box = b /\ call'[w].kind = "connect" /\ call'[w].step # "test"
             \/ /\ b \in loops' \/ \E w \in Calls : call'[w].box = b /\ call'[w].step \in {"mails", "delete"}
                /\ reading'[b] # "ending"
  <2>1. M!Connected(b) /\ b \notin missed /\ call[M!Boot] = M!Free BY <1>3 DEF M!Connected
  <2>2. CASE \E w \in Calls : call[w].box = b /\ call[w].kind = "connect" /\ call[w].step # "test" BY <2>2
  <2>3. CASE /\ b \in loops \/ \E w \in Calls : call[w].box = b /\ call[w].step \in {"mails", "delete"}
             /\ reading[b] # "ending"
    BY <2>3
  <2>4. QED BY <1>1, <2>1, <2>2, <2>3 DEF LoopOf
<1>4. \A w \in Calls : call'[w].box = b => /\ call'[w].step = "stop" => ~M!Connected(b)'
                                           /\ call'[w].step = "close" => call'[w].status = boxes'[b].status
  BY <1>1 DEF LoopOf, M!Connected
<1>5. QED BY <1>2, <1>3, <1>4 DEF LoopOf

LEMMA MailsStay ==
    ASSUME MailsKept, mails' \subseteq mails, late \subseteq late',
           \A b \in Boxes : /\ boxes'[b].status = "gone" => boxes[b].status = "gone"
                            /\ reading'[b] = "reading" => reading[b] = "reading",
           \A w \in Calls : call'[w].step \in {"mails", "delete"} => call'[w].step = call[w].step /\ call'[w].box = call[w].box
    PROVE  MailsKept'
<1> SUFFICES ASSUME NEW b \in Boxes, b \notin late' PROVE MailsOf(b)' BY DEF MailsKept, MailsOf, Boxes
<1>1. MailsOf(b) /\ b \notin late BY DEF MailsKept
<1>2. QED BY <1>1 DEF MailsOf

\* The defaults of other places.
LEMMA SettledStays ==
    ASSUME NEW p, \A b \in Boxes : \/ boxes'[b] = boxes[b]
                                   \/ (boxes[b].place # p \/ ~M!Exists(b)) /\ (boxes'[b].place # p \/ ~M!Exists(b)')
    PROVE  /\ M!In(p)' = M!In(p) /\ M!Open(p)' = M!Open(p) /\ M!Mains(p)' = M!Mains(p) /\ M!Settled(p)' = M!Settled(p)
           /\ \A b \in M!In(p) : boxes'[b] = boxes[b]
<1>1. M!In(p)' = M!In(p) /\ \A b \in M!In(p) : boxes'[b] = boxes[b] BY DEF M!In, M!Exists, Boxes
<1>2. M!Open(p)' = M!Open(p) BY <1>1 DEF M!Open, M!Connected
<1>3. M!Mains(p)' = M!Mains(p)
  <2>1. M!Open(p) \subseteq M!In(p) BY DEF M!Open
  <2>2. QED BY <1>1, <1>2, <2>1 DEF M!Mains
<1>4. QED BY <1>1, <1>2, <1>3 DEF M!Settled

LEMMA ConnectedCount == M!Cardinality({c \in Boxes : M!Connected(c)}) = Cardinality(ConnectedBoxes)
BY MailCounted DEF ConnectedBoxes

\* Steps that leave the mailboxes and the calls alone.
LEMMA DefaultsStay ==
    ASSUME DefaultsKept, UNCHANGED <<boxes, call, overlapped, unsettled>>
    PROVE  DefaultsKept'
<1> SUFFICES ASSUME NEW p \in Places PROVE DefaultOf(p)' BY DEF DefaultsKept
<1>1. M!In(p)' = M!In(p) /\ M!Open(p)' = M!Open(p) /\ M!Mains(p)' = M!Mains(p) /\ M!Settled(p)' = M!Settled(p)
  BY SettledStays
<1>2. M!Working(p)' = M!Working(p) BY DEF M!Working
<1>3. DefaultOf(p) BY DEF DefaultsKept
<1>4. QED BY <1>1, <1>2, <1>3 DEF DefaultOf, Choosing, Sound, Untouched, M!Connected

\* A request on a place where nobody is at work begins with one default.
LEMMA DefaultsBegin ==
    ASSUME BoxesTyped, DefaultsKept, boxes' = boxes, unsettled' = unsettled, NEW w \in Calls, call[w] = M!Free,
           \A v \in M!Actors \ {w} : call'[v] = call[v],
           NEW q \in Places, call'[w].place = q, M!Meet(q), call'[w].step \in {"test", "close", "mails", "clear"},
           call'[w].step = "clear" => /\ M!Connected(call'[w].keep) /\ call'[w].kind = "default"
                                      /\ call'[w].main => boxes[call'[w].keep].main
    PROVE  DefaultsKept'
<1> SUFFICES ASSUME NEW p \in Places, p \notin overlapped' PROVE DefaultOf(p)' BY DEF DefaultsKept, DefaultOf
<1>0. w \in M!Actors /\ w # M!Boot /\ call'[M!Boot] = call[M!Boot] BY WhoActs
<1>1. M!In(p)' = M!In(p) /\ M!Open(p)' = M!Open(p) /\ M!Mains(p)' = M!Mains(p) /\ M!Settled(p)' = M!Settled(p)
  BY SettledStays
<1>2. p \notin overlapped /\ (p = q => M!Working(p) = {}) BY DEF M!Meet
<1>3. DefaultOf(p) /\ Sound(p)' = Sound(p)
  <2>1. DefaultOf(p) BY DEF DefaultsKept
  <2>2. Sound(p)' = Sound(p) BY <1>1 DEF Sound
  <2>3. QED BY <2>1, <2>2
<1>4. CASE p # q
  <2>1. M!Working(p)' = M!Working(p) BY <1>0, <1>4 DEF M!Working
  <2>2. \A v \in M!Actors : call'[v].place = p /\ call'[v].step # "rest" => call'[v] = call[v] BY <1>0, <1>4
  <2>3. ASSUME NEW v \in M!Actors, call'[v].place = p, call'[v].step \in {"clear", "mark"} PROVE Choosing(v, p)'
    <3>1. call'[v] = call[v] BY <2>2, <2>3
    <3>2. Choosing(v, p) BY <1>2, <1>3 DEF DefaultOf
    <3>3. QED BY <1>1, <2>3, <3>1, <3>2 DEF Choosing, M!Connected
  <2>4. \A v \in Calls : call'[v].place = p /\ Untouched(call[v])' => Sound(p)'
    BY <1>0, <1>1, <1>2, <1>3, <2>2, WhoActs DEF DefaultOf, Untouched
  <2>5. QED BY <1>0, <1>1, <1>2, <1>3, <2>1, <2>3, <2>4 DEF DefaultOf, Choosing
<1>5. CASE p = q
  <2>1. M!Working(p) = {} /\ Sound(p)' BY <1>1, <1>2, <1>3, <1>5 DEF DefaultOf
  <2>2. \A v \in M!Actors \ {w} : call[v] = M!Free \/ (v # M!Boot /\ call[v].place # p) BY <2>1 DEF M!Working
  <2>3. \A v \in M!Working(p)' : v = w BY <2>2 DEF M!Working
  <2>4. w \in M!Working(p)'
    BY <1>0, <1>5, FreeCall DEF M!Working
  <2>5. \A v \in M!Actors : Choosing(v, p)' BY <2>2, FreeCall DEF Choosing, M!Connected
  <2>6. QED BY <1>1, <2>1, <2>3, <2>4, <2>5 DEF DefaultOf
<1>6. QED BY <1>4, <1>5

\* Where nothing overlapped, who works on a place works alone.
LEMMA Alone ==
    ASSUME DefaultsKept, NEW w \in M!Actors, call[w] # M!Free, NEW p \in Places, p \notin overlapped,
           w = M!Boot \/ call[w].place = p
    PROVE  \A v \in M!Actors \ {w} : call[v] = M!Free \/ (v # M!Boot /\ call[v].place # p)
BY DEF DefaultsKept, DefaultOf, M!Working

\* A worker goes on: the defaults of other places stay, and it sees to those of its own.
LEMMA DefaultsGoOn ==
    ASSUME BoxesTyped, CallsShaped, DefaultsKept, overlapped' = overlapped,
           NEW w \in M!Actors, call[w] # M!Free, \A v \in M!Actors \ {w} : call'[v] = call[v],
           \/ call'[w] = M!Free /\ w # M!Boot
           \/ /\ call'[w] # M!Free /\ call'[w].place = call[w].place /\ call'[w].left = call[w].left
              /\ w = M!Boot => call[w].step \in {"look", "clear", "mark"} /\ call'[w].step \in {"clear", "mark", "scope"},
           NEW q \in Places, q = call[w].place, \A p \in Places \ {q} : p \in unsettled' <=> p \in unsettled,
           \A b \in Boxes : \/ boxes'[b] = boxes[b]
                            \/ /\ boxes[b].place = q \/ ~M!Exists(b)
                               /\ boxes'[b].place = q \/ ~M!Exists(b)',
           q \notin overlapped =>
               /\ call'[w] = M!Free \/ Untouched(call'[w]) \/ call'[w].step = "scope" => Sound(q)'
               /\ call'[w].step \in {"clear", "mark"} => Choosing(w, q)'
    PROVE  DefaultsKept'
<1> SUFFICES ASSUME NEW p \in Places, p \notin overlapped' PROVE DefaultOf(p)' BY DEF DefaultsKept, DefaultOf
<1>1. p \notin overlapped /\ DefaultOf(p) BY DEF DefaultsKept
<1>2. CASE p # q
  <2>1. /\ M!In(p)' = M!In(p) /\ M!Open(p)' = M!Open(p) /\ M!Mains(p)' = M!Mains(p) /\ M!Settled(p)' = M!Settled(p)
        /\ \A b \in M!In(p) : boxes'[b] = boxes[b]
    <3>1. \A b \in Boxes : \/ boxes'[b] = boxes[b]
                           \/ (boxes[b].place # p \/ ~M!Exists(b)) /\ (boxes'[b].place # p \/ ~M!Exists(b)')
      BY <1>2
    <3>2. QED BY <3>1, SettledStays
  <2>10. Sound(p)' = Sound(p) BY <1>2, <2>1 DEF Sound
  <2>2. M!Working(p)' = M!Working(p)
    <3>1. \A v \in M!Actors : v \in M!Working(p)' <=> v \in M!Working(p) BY <1>2, FreeCall DEF M!Working
    <3>2. QED BY <3>1 DEF M!Working
  <2>3. \A v \in M!Actors : call'[v].place = p /\ call'[v].step # "rest" /\ v # w => call'[v] = call[v] OBVIOUS
  <2>4. call'[w].place = p => call'[w] = M!Free BY <1>2
  <2>5. ASSUME NEW v \in M!Actors, call'[v].place = p, call'[v].step \in {"clear", "mark"} PROVE Choosing(v, p)'
    <3>1. v # w /\ call'[v] = call[v] BY <2>4, <2>5, FreeCall
    <3>2. Choosing(v, p) /\ Born(call[v].keep, p)
      BY <1>1, <2>5, <3>1 DEF DefaultOf, CallsShaped, ShapedCall
    <3>3. M!Connected(call[v].keep) BY <2>5, <3>1, <3>2 DEF Choosing
    <3>4. call[v].keep \in M!In(p) BY <3>2, <3>3 DEF M!In, Born, M!Exists, M!Connected
    <3>5. boxes'[call[v].keep] = boxes[call[v].keep] BY <2>1, <3>4
    <3>6. boxes'[call'[v].keep].status = "connected" BY <3>1, <3>3, <3>5 DEF M!Connected
    <3>7. QED BY <2>1, <3>1, <3>2, <3>5, <3>6 DEF Choosing, M!Connected
  <2>6. \A v \in M!Actors : Choosing(v, p)' BY <2>5 DEF Choosing
  <2>7. \A v \in Calls : call'[v].place = p /\ Untouched(call[v])' => Sound(p)'
    BY <1>1, <2>10, <2>3, <2>4, FreeCall, WhoActs DEF DefaultOf, Untouched
  <2>8. (LET c == call[M!Boot] IN
         c.step \in {"scope", "look", "clear", "mark"} =>
             p \in c.left \/ (p = c.place /\ c.step # "scope") \/ Sound(p))'
    <3>1. CASE w # M!Boot
      <4>1. call'[M!Boot] = call[M!Boot] BY <3>1, WhoActs
      <4>2. QED BY <1>1, <2>10, <4>1 DEF DefaultOf
    <3>2. CASE w = M!Boot BY <1>1, <1>2, <2>10, <3>2 DEF DefaultOf
    <3>3. QED BY <3>1, <3>2
  <2>9. QED BY <1>1, <2>10, <2>2, <2>6, <2>7, <2>8 DEF DefaultOf
<1>3. CASE p = q
  <2>1. \A v \in M!Actors \ {w} : call'[v] = M!Free \/ (v # M!Boot /\ call'[v].place # p) BY <1>1, <1>3, Alone
  <2>2. \A v \in M!Working(p)' : v = w BY <2>1 DEF M!Working
  <2>3. call'[w] # M!Free => w \in M!Working(p)' BY <1>3 DEF M!Working
  <2>4. \A v \in M!Actors \ {w} : call'[v].place = p => call'[v].step = "rest" BY <2>1, FreeCall
  <2>5. \A v \in M!Actors : Choosing(v, p)' BY <1>1, <1>3, <2>4 DEF Choosing
  <2>6. \A v \in Calls : call'[v].place = p /\ Untouched(call[v])' => Sound(p)'
    BY <1>1, <1>3, <2>4, WhoActs DEF Untouched
  <2>7. M!Working(p)' = {} => Sound(p)' BY <1>1, <1>3, <2>3
  <2>8. (LET c == call[M!Boot] IN
         c.step \in {"scope", "look", "clear", "mark"} =>
             p \in c.left \/ (p = c.place /\ c.step # "scope") \/ Sound(p))'
    <3>1. CASE w # M!Boot BY <2>1, <3>1, WhoActs, FreeCall
    <3>2. CASE w = M!Boot BY <1>1, <1>3, <3>2
    <3>3. QED BY <3>1, <3>2
  <2>9. QED BY <2>2, <2>5, <2>6, <2>7, <2>8 DEF DefaultOf
<1>4. QED BY <1>2, <1>3

-----------------------------------------------------------------------------
(* The requests begin. *)

LEMMA MeetGrows ==
    ASSUME BoxesTyped, NEW q \in Places, M!Meet(q)
    PROVE  overlapped \subseteq overlapped' /\ overlapped' \subseteq Places
BY DEF BoxesTyped, M!Meet

\* A record of a call that begins.
LEMMA Begun ==
    ASSUME BoxesTyped, NEW w \in M!Actors, NEW b \in Boxes, M!Exists(b),
           NEW kind \in {"default", "disconnect", "remove"}, NEW step \in {"clear", "close", "mails"}, M!Begin(w, kind, step, b)
    PROVE  /\ call' \in [M!Actors -> CallRecords] /\ \A v \in M!Actors \ {w} : call'[v] = call[v]
           /\ call'[w].kind = kind /\ call'[w].step = step /\ call'[w].box = b /\ call'[w].keep = b
           /\ call'[w].place = boxes[b].place /\ call'[w].status = boxes[b].status /\ call'[w].main = boxes[b].main
           /\ M!Meet(boxes[b].place)
<1> DEFINE record == [M!Free EXCEPT !.kind = kind, !.step = step, !.box = b, !.place = boxes[b].place, !.keep = b,
                                    !.address = boxes[b].address, !.status = boxes[b].status, !.main = boxes[b].main]
<1>1. /\ boxes[b].place \in Places /\ boxes[b].address \in Addresses /\ boxes[b].main \in BOOLEAN
      /\ boxes[b].status \in {"unborn", "connected", "disconnected", "gone"} /\ b \in Nat
  BY MailAssumption DEF BoxesTyped, BoxRecords, Boxes
<1>2. /\ record \in CallRecords /\ record.kind = kind /\ record.step = step /\ record.box = b /\ record.keep = b
      /\ record.place = boxes[b].place /\ record.status = boxes[b].status /\ record.main = boxes[b].main
  BY <1>1, FreeCall DEF CallRecords
<1>3. M!Put(w, record) /\ M!Meet(boxes[b].place) BY DEF M!Begin
<1> HIDE DEF record
<1>4. QED BY <1>2, <1>3, PutOne

\* What beginning leaves as it is.
LEMMA BeginsInTurn ==
    ASSUME MailInv, NEW w \in Calls, call[w] = M!Free, NEW b \in Boxes, M!Exists(b), boxes' = boxes,
           NEW kind \in {"default", "disconnect", "remove"}, NEW step \in {"clear", "close", "mails"}, M!Begin(w, kind, step, b),
           kind = "default" => step = "clear" /\ M!Connected(b), kind = "disconnect" => step = "close", kind = "remove" => step = "mails",
           doubled' = doubled, unsettled' = unsettled
    PROVE  InTurn' /\ CallsShaped' /\ AddressesKept' /\ RoomKept' /\ DefaultsKept'
<1>0. w \in M!Actors /\ w # M!Boot BY WhoActs
<1>1. /\ call' \in [M!Actors -> CallRecords] /\ \A v \in M!Actors \ {w} : call'[v] = call[v]
      /\ call'[w].kind = kind /\ call'[w].step = step /\ call'[w].box = b /\ call'[w].keep = b
      /\ call'[w].place = boxes[b].place /\ call'[w].status = boxes[b].status /\ call'[w].main = boxes[b].main
      /\ M!Meet(boxes[b].place)
  BY <1>0, Begun DEF MailInv
<1>2. boxes[b].place \in Places /\ boxes[b].status # "unborn" BY DEF MailInv, BoxesTyped, BoxRecords, M!Exists
<1>3. InTurn' BY InTurnStays DEF MailInv
<1>4. ShapedCall(w)' BY <1>0, <1>1, <1>2 DEF ShapedCall, Born, Boxes
<1>5. CallsShaped' BY <1>0, <1>1, <1>4, ShapesStay DEF MailInv
<1>6. \A v \in Calls : v \in M!Actors /\ (call'[v] = call[v] \/ (v = w /\ call'[v].kind = kind /\ call'[v].step = step))
  BY <1>1, WhoActs
<1>7. \A v \in Calls : call'[v].step = "test" => call'[v] = call[v] BY <1>6
<1>8. \A v \in Calls : call'[v].kind = "connect" => call[v].kind = "connect" BY <1>6
<1>9. AddressesKept' BY <1>7, <1>8, AddressesStay DEF MailInv, M!Exists
<1>10. RoomKept' BY <1>7, RoomStays DEF MailInv
<1>11. DefaultsKept'
  <2>1. step = "clear" => M!Connected(call'[w].keep) /\ kind = "default" /\ (call'[w].main => boxes[call'[w].keep].main)
    BY <1>1
  <2>2. QED BY <1>1, <1>2, <2>1, DefaultsBegin DEF MailInv
<1>12. QED BY <1>3, <1>5, <1>9, <1>10, <1>11

LEMMA SetDefaultHolds ==
    ASSUME MailInv, NEW w \in Calls, NEW b \in Boxes, M!setDefault(w, b)
    PROVE  MailInv'
<1>1. /\ call[w] = M!Free /\ M!Connected(b) /\ M!Exists(b) /\ M!Begin(w, "default", "clear", b)
      /\ UNCHANGED <<boxes, loops, reading, mails, doubled, missed, late, unsettled>>
  BY DEF M!setDefault, M!records, M!Connected, M!Exists
<1>2. InTurn' /\ CallsShaped' /\ AddressesKept' /\ RoomKept' /\ DefaultsKept' BY <1>1, BeginsInTurn
<1>3. /\ w \in M!Actors /\ w # M!Boot /\ call' \in [M!Actors -> CallRecords] /\ \A v \in M!Actors \ {w} : call'[v] = call[v]
      /\ call'[w].step = "clear" /\ M!Meet(boxes[b].place) /\ boxes[b].place \in Places
  BY <1>1, WhoActs, Begun DEF MailInv, BoxesTyped, BoxRecords
<1>4. overlapped \subseteq overlapped' /\ overlapped' \subseteq Places BY <1>3, MeetGrows DEF MailInv
<1>5. BoxesTyped' BY <1>1, <1>3, <1>4 DEF MailInv, BoxesTyped
<1>6. \A v \in Calls : v \in M!Actors /\ (call'[v] = call[v] \/ (v = w /\ call'[v].step = "clear")) BY <1>3, WhoActs
<1>7. LoopsKept'
  <2>1. call'[M!Boot] = call[M!Boot] BY <1>3, WhoActs
  <2>2. \A v \in Calls : call'[v] = call[v] \/ (call[v].step = "rest" /\ call[v].kind = "none" /\ call'[v].step = "clear")
    BY <1>1, <1>6, FreeCall
  <2>3. QED BY <1>1, <1>4, <2>1, <2>2, LoopsStay DEF MailInv
<1>8. MailsKept' BY <1>1, <1>6, MailsStay DEF MailInv
<1>9. QED BY <1>2, <1>5, <1>7, <1>8 DEF MailInv

\* A loop is as it was where nothing touches it.
LEMMA LoopStays ==
    ASSUME LoopsKept, NEW b \in Boxes, overlapped \subseteq overlapped', boxes'[b].status = boxes[b].status,
           boxes'[b].place = boxes[b].place, reading'[b] = reading[b], b \in loops' <=> b \in loops, b \in missed' <=> b \in missed,
           call'[M!Boot] = M!Free <=> call[M!Boot] = M!Free,
           \A w \in Calls : call'[w] = call[w] \/ (call[w].box # b /\ call'[w].box # b)
    PROVE  LoopOf(b)'
<1> SUFFICES ASSUME boxes'[b].place \notin overlapped' PROVE LoopOf(b)' BY DEF LoopOf
<1>1. LoopOf(b) /\ boxes[b].place \notin overlapped BY DEF LoopsKept
<1>2. call'[M!Boot] # M!Free => b \notin loops' /\ reading'[b] # "ending" BY <1>1 DEF LoopOf
<1>3. ASSUME M!Connected(b)', b \notin missed', call'[M!Boot] = M!Free
      PROVE  \/ \E w \in Calls : call'[w].box = b /\ call'[w].kind = "connect" /\ call'[w].step # "test"
             \/ /\ b \in loops' \/ \E w \in Calls : call'[w].box = b /\ call'[w].step \in {"mails", "delete"}
                /\ reading'[b] # "ending"
  <2>1. M!Connected(b) /\ b \notin missed /\ call[M!Boot] = M!Free BY <1>3 DEF M!Connected
  <2>2. CASE \E w \in Calls : call[w].box = b /\ call[w].kind = "connect" /\ call[w].step # "test" BY <2>2
  <2>3. CASE /\ b \in loops \/ \E w \in Calls : call[w].box = b /\ call[w].step \in {"mails", "delete"}
             /\ reading[b] # "ending"
    BY <2>3
  <2>4. QED BY <1>1, <2>1, <2>2, <2>3 DEF LoopOf
<1>4. \A w \in Calls : call'[w].box = b => /\ call'[w].step = "stop" => ~M!Connected(b)'
                                           /\ call'[w].step = "close" => call'[w].status = boxes'[b].status
  BY <1>1 DEF LoopOf, M!Connected
<1>5. QED BY <1>2, <1>3, <1>4 DEF LoopOf

LEMMA DisconnectHolds ==
    ASSUME MailInv, NEW w \in Calls, NEW b \in Boxes, M!disconnect(w, b)
    PROVE  MailInv'
<1>1. /\ call[w] = M!Free /\ M!Exists(b) /\ M!Begin(w, "disconnect", "close", b)
      /\ UNCHANGED <<boxes, loops, reading, mails, doubled, missed, late, unsettled>>
  BY DEF M!disconnect, M!records
<1>2. InTurn' /\ CallsShaped' /\ AddressesKept' /\ RoomKept' /\ DefaultsKept' BY <1>1, BeginsInTurn
<1>3. /\ w \in M!Actors /\ w # M!Boot /\ call' \in [M!Actors -> CallRecords] /\ \A v \in M!Actors \ {w} : call'[v] = call[v]
      /\ call'[w].kind = "disconnect" /\ call'[w].step = "close" /\ call'[w].box = b /\ call'[w].status = boxes[b].status
      /\ M!Meet(boxes[b].place) /\ boxes[b].place \in Places
  BY <1>1, WhoActs, Begun DEF MailInv, BoxesTyped, BoxRecords
<1>4. overlapped \subseteq overlapped' /\ overlapped' \subseteq Places BY <1>3, MeetGrows DEF MailInv
<1>5. BoxesTyped' BY <1>1, <1>3, <1>4 DEF MailInv, BoxesTyped
<1>6. \A v \in Calls : v \in M!Actors /\ (call'[v] = call[v] \/ (v = w /\ call'[v].step = "close")) BY <1>3, WhoActs
<1>7. LoopsKept'
  <2> SUFFICES ASSUME NEW c \in Boxes PROVE LoopOf(c)' BY DEF LoopsKept, Boxes
  <2>1. LoopOf(c) BY DEF MailInv, LoopsKept
  <2>2. CASE c # b
    <3>1. \A v \in Calls : call'[v] = call[v] \/ (call[v].box # c /\ call'[v].box # c)
      BY <1>1, <1>3, <1>6, <2>2, FreeCall, MailAssumption DEF Boxes
    <3>2. call'[M!Boot] = call[M!Boot] BY <1>3, WhoActs
    <3>3. QED BY <1>1, <1>4, <3>1, <3>2, LoopStays DEF MailInv
  <2>3. CASE c = b
    <3> SUFFICES ASSUME boxes[c].place \notin overlapped' PROVE LoopOf(c)' BY <1>1 DEF LoopOf
    <3>1. call'[M!Boot] = call[M!Boot] /\ boxes[c].place \notin overlapped BY <1>3, <1>4, WhoActs
    <3>2. \A v \in Calls : call'[v].box = c => /\ call'[v].step = "stop" => ~M!Connected(c)'
                                               /\ call'[v].step = "close" => call'[v].status = boxes'[c].status
      BY <1>1, <1>3, <1>6, <2>1, <2>3, <3>1 DEF LoopOf, M!Connected
    <3>4. \A v \in Calls : /\ call[v].kind = "connect" => call'[v] = call[v]
                           /\ call[v].step \in {"mails", "delete"} => call'[v] = call[v]
      BY <1>1, <1>3, FreeCall, WhoActs
    <3>5. QED BY <1>1, <2>1, <3>1, <3>2, <3>4 DEF LoopOf, M!Connected
  <2>4. QED BY <2>2, <2>3
<1>8. MailsKept' BY <1>1, <1>6, MailsStay DEF MailInv
<1>9. QED BY <1>2, <1>5, <1>7, <1>8 DEF MailInv

LEMMA RemoveHolds ==
    ASSUME MailInv, NEW w \in Calls, NEW b \in Boxes, M!remove(w, b)
    PROVE  MailInv'
<1>1. /\ call[w] = M!Free /\ M!Exists(b) /\ M!Begin(w, "remove", "mails", b)
      /\ loops' = loops \ {b} /\ late' = IF reading[b] = "reading" THEN late \cup {b} ELSE late
      /\ UNCHANGED <<boxes, reading, mails, doubled, missed, unsettled>>
  BY DEF M!remove
<1>2. InTurn' /\ CallsShaped' /\ AddressesKept' /\ RoomKept' /\ DefaultsKept' BY <1>1, BeginsInTurn
<1>3. /\ w \in M!Actors /\ w # M!Boot /\ call' \in [M!Actors -> CallRecords] /\ \A v \in M!Actors \ {w} : call'[v] = call[v]
      /\ call'[w].kind = "remove" /\ call'[w].step = "mails" /\ call'[w].box = b
      /\ M!Meet(boxes[b].place) /\ boxes[b].place \in Places
  BY <1>1, WhoActs, Begun DEF MailInv, BoxesTyped, BoxRecords
<1>4. overlapped \subseteq overlapped' /\ overlapped' \subseteq Places BY <1>3, MeetGrows DEF MailInv
<1>5. BoxesTyped' BY <1>1, <1>3, <1>4 DEF MailInv, BoxesTyped
<1>6. \A v \in Calls : v \in M!Actors /\ (call'[v] = call[v] \/ (v = w /\ call'[v].step = "mails")) BY <1>3, WhoActs
<1>7. LoopsKept'
  <2> SUFFICES ASSUME NEW c \in Boxes PROVE LoopOf(c)' BY DEF LoopsKept, Boxes
  <2>1. LoopOf(c) BY DEF MailInv, LoopsKept
  <2>2. CASE c # b
    <3>1. \A v \in Calls : call'[v] = call[v] \/ (call[v].box # c /\ call'[v].box # c)
      BY <1>1, <1>3, <1>6, <2>2, FreeCall, MailAssumption DEF Boxes
    <3>2. call'[M!Boot] = call[M!Boot] /\ (c \in loops' <=> c \in loops) BY <1>1, <1>3, <2>2, WhoActs
    <3>3. QED BY <1>1, <1>4, <3>1, <3>2, LoopStays DEF MailInv
  <2>3. CASE c = b
    <3> SUFFICES ASSUME boxes[c].place \notin overlapped' PROVE LoopOf(c)' BY <1>1 DEF LoopOf
    <3>1. call'[M!Boot] = call[M!Boot] /\ boxes[c].place \notin overlapped /\ M!Working(boxes[c].place) = {}
      BY <1>3, <1>4, <2>3, WhoActs DEF M!Meet
    <3>2. \A v \in Calls : call[v].box = c => call[v] = M!Free
      <4>1. \A v \in Calls : call[v] # M!Free => call[v].place # boxes[c].place BY <3>1, WhoActs DEF M!Working
      <4>2. \A v \in Calls : call[v] # M!Free /\ call[v].step # "test" => Born(call[v].box, call[v].place)
        BY WhoseStep, WhoActs DEF MailInv
      <4>3. \A v \in Calls : call[v].step = "test" /\ call[v].box \in Boxes => Born(call[v].box, call[v].place)
        <5> SUFFICES ASSUME NEW v \in Calls, call[v].step = "test", call[v].box \in Boxes
                     PROVE  Born(call[v].box, call[v].place)
          OBVIOUS
        <5>1. v \in M!Actors /\ call[v].kind = "connect" BY WhoActs, WhoseStep DEF MailInv
        <5>2. call[v].box # 0 BY MailAssumption DEF Boxes
        <5>3. QED BY <5>1, <5>2 DEF MailInv, CallsShaped, ShapedCall
      <4>4. QED BY <4>1, <4>2, <4>3 DEF Born
    <3>3. \A v \in Calls : call'[v].box = c => call'[v].step \in {"rest", "mails"} BY <1>6, <3>2, FreeCall
    <3>4. M!Connected(c) /\ c \notin missed /\ call[M!Boot] = M!Free => reading[c] # "ending"
      BY <2>1, <3>1, <3>2, FreeCall DEF LoopOf
    <3>5. QED BY <1>1, <1>3, <2>1, <2>3, <3>1, <3>3, <3>4 DEF LoopOf, M!Connected
  <2>4. QED BY <2>2, <2>3
<1>8. MailsKept'
  <2> SUFFICES ASSUME NEW c \in Boxes, c \notin late' PROVE MailsOf(c)' BY DEF MailsKept, MailsOf, Boxes
  <2>1. MailsOf(c) /\ c \notin late /\ (c = b => reading[c] # "reading") BY <1>1 DEF MailInv, MailsKept
  <2>2. \A v \in Calls : call'[v].box = c /\ call'[v].step \in {"mails", "delete"} =>
           reading[c] # "reading" /\ (call'[v].step = "delete" => c \notin mails)
    BY <1>3, <1>6, <2>1 DEF MailsOf
  <2>3. QED BY <1>1, <2>1, <2>2 DEF MailsOf
<1>9. QED BY <1>2, <1>5, <1>7, <1>8 DEF MailInv

LEMMA ConnectHolds ==
    ASSUME MailInv, NEW w \in Calls, NEW b \in Boxes \cup {0}, NEW p \in Places, NEW a \in Addresses, M!connect(w, b, p, a)
    PROVE  MailInv'
<1> DEFINE record == [M!Free EXCEPT !.kind = "connect", !.step = "test", !.box = b, !.place = p, !.address = a,
                                    !.status = IF b = 0 THEN "none" ELSE boxes[b].status,
                                    !.main = b # 0 /\ boxes[b].main]
<1>1. /\ call[w] = M!Free /\ (b # 0 => M!Exists(b) /\ p = boxes[b].place) /\ ~M!Taken(a, b) /\ M!Room(b)
      /\ M!Put(w, record) /\ M!Meet(p) /\ doubled' = (doubled \/ \E v \in Calls : call[v].kind = "connect")
      /\ UNCHANGED <<boxes, loops, reading, mails, missed, late, unsettled>>
  BY DEF M!connect, M!records
<1>2. /\ record \in CallRecords /\ record.kind = "connect" /\ record.step = "test" /\ record.box = b /\ record.place = p
      /\ record.address = a /\ (b # 0 => record.status = boxes[b].status)
  <2>1. b \in Nat /\ 0 \notin Boxes BY MailAssumption DEF Boxes
  <2>2. b # 0 => boxes[b].status \in {"unborn", "connected", "disconnected", "gone"} /\ boxes[b].main \in BOOLEAN
    BY DEF MailInv, BoxesTyped, BoxRecords
  <2>3. (b # 0 /\ boxes[b].main) \in BOOLEAN OBVIOUS
  <2>4. QED BY <2>1, <2>2, <2>3, FreeCall DEF CallRecords
<1>3. w \in M!Actors /\ w # M!Boot BY WhoActs
<1>4. /\ call' \in [M!Actors -> CallRecords] /\ \A v \in M!Actors \ {w} : call'[v] = call[v]
      /\ call'[w] = record
  <2> HIDE DEF record
  <2> QED BY <1>1, <1>2, <1>3, PutOne DEF MailInv
<1>5. /\ call'[w].kind = "connect" /\ call'[w].step = "test" /\ call'[w].box = b /\ call'[w].place = p
      /\ call'[w].address = a /\ (b # 0 => call'[w].status = boxes[b].status)
  BY <1>2, <1>4
<1> HIDE DEF record
<1>6. overlapped \subseteq overlapped' /\ overlapped' \subseteq Places BY <1>1, MeetGrows DEF MailInv
<1>7. BoxesTyped' BY <1>1, <1>4, <1>6 DEF MailInv, BoxesTyped
<1>8. InTurn' BY <1>1, InTurnStays DEF MailInv
<1>9. ShapedCall(w)' BY <1>1, <1>3, <1>5 DEF ShapedCall, Born, Boxes, M!Exists
<1>10. CallsShaped' BY <1>1, <1>3, <1>4, <1>9, ShapesStay DEF MailInv
<1>11. \A v \in Calls : v \in M!Actors /\ (call'[v] = call[v] \/ v = w) BY <1>4, WhoActs
<1>12. \A v \in Calls : call[v].step = "test" => call[v].kind = "connect" BY <1>11, WhoseStep DEF MailInv
<1>13. AddressesKept'
  <2> SUFFICES ASSUME ~doubled' PROVE AddressesKept' BY DEF AddressesKept
  <2>1. ~doubled /\ \A v \in Calls : call[v].kind # "connect" BY <1>1
  <2>2. \A v, u \in Calls : call'[v].kind = "connect" /\ call'[u].kind = "connect" => v = u BY <1>11, <2>1
  <2>3. \A v \in Calls : (call[v].step = "test" => ~M!Taken(call[v].address, call[v].box))'
    <3> SUFFICES ASSUME NEW v \in Calls, call'[v].step = "test", NEW c \in Boxes \ {call'[v].box}, M!Exists(c)
                 PROVE  boxes[c].address # call'[v].address
      BY <1>1 DEF M!Taken, Boxes, M!Exists
    <3>1. v = w BY <1>11, <1>12, <2>1
    <3>2. QED BY <1>1, <1>5, <3>1 DEF M!Taken
  <2>4. \A c, d \in Boxes : c # d /\ M!Exists(c)' /\ M!Exists(d)' => boxes'[c].address # boxes'[d].address
    BY <1>1, <2>1 DEF MailInv, AddressesKept, M!Exists
  <2>5. QED BY <2>2, <2>3, <2>4 DEF AddressesKept, Boxes
<1>14. RoomKept'
  <2> SUFFICES ASSUME ~doubled' PROVE RoomKept' BY DEF RoomKept
  <2>1. ~doubled /\ \A v \in Calls : call[v].kind # "connect" BY <1>1
  <2>2. ConnectedBoxes' = ConnectedBoxes BY <1>1 DEF ConnectedBoxes, M!Connected, Boxes
  <2>3. Cardinality(ConnectedBoxes) <= Limit BY <2>1 DEF MailInv, RoomKept
  <2>4. (b # 0 /\ call'[w].status = "connected") \/ Cardinality(ConnectedBoxes) < Limit
    <3>1. CASE b # 0 /\ boxes[b].status # "disconnected"
      BY <1>1, <1>5, <3>1 DEF MailInv, BoxesTyped, BoxRecords, M!Exists
    <3>2. CASE M!Cardinality({c \in Boxes : M!Connected(c)}) < Limit BY <3>2, ConnectedCount
    <3>3. QED BY <1>1, <3>1, <3>2 DEF M!Room
  <2>5. \A v \in Calls : call'[v].step = "test" => v = w BY <1>11, <1>12, <2>1
  <2>6. QED BY <1>5, <2>2, <2>3, <2>4, <2>5 DEF RoomKept
<1>15. DefaultsKept' BY <1>1, <1>4, <1>5, DefaultsBegin DEF MailInv
<1>16. \A v \in Calls : call'[v] = call[v] \/ (call[v].step = "rest" /\ call[v].kind = "none" /\ call'[v].step = "test")
  BY <1>1, <1>5, <1>11, FreeCall
<1>17. LoopsKept'
  <2>1. call'[M!Boot] = call[M!Boot] BY <1>3, <1>4, WhoActs
  <2>2. QED BY <1>1, <1>6, <1>16, <2>1, LoopsStay DEF MailInv
<1>18. MailsKept' BY <1>1, <1>16, MailsStay DEF MailInv
<1>19. QED BY <1>7, <1>8, <1>10, <1>13, <1>14, <1>15, <1>17, <1>18 DEF MailInv

-----------------------------------------------------------------------------
(* The requests go on. *)

\* A call that ends.
LEMMA Freed ==
    ASSUME BoxesTyped, NEW w \in M!Actors, M!Put(w, M!Free)
    PROVE  call' \in [M!Actors -> CallRecords] /\ call'[w] = M!Free /\ \A v \in M!Actors \ {w} : call'[v] = call[v]
BY FreeCall, PutOne

LEMMA FreeIsShaped == ASSUME NEW w, call'[w] = M!Free PROVE ShapedCall(w)'
BY FreeCall DEF ShapedCall

\* What holds of the calls where one of them ends and nothing else changes.
LEMMA EndsInTurn ==
    ASSUME MailInv, NEW w \in Calls, call[w] # M!Free, M!Put(w, M!Free), UNCHANGED <<boxes, overlapped, doubled>>,
           \A p \in Places \ {call[w].place} : p \in unsettled' <=> p \in unsettled,
           call[w].place \notin overlapped => M!Settled(call[w].place) \/ call[w].place \in unsettled'
    PROVE  /\ InTurn' /\ CallsShaped' /\ AddressesKept' /\ RoomKept' /\ DefaultsKept'
           /\ call' \in [M!Actors -> CallRecords] /\ call'[M!Boot] = call[M!Boot]
           /\ \A v \in Calls : (v # w /\ call'[v] = call[v]) \/ (v = w /\ call'[v].step = "rest" /\ call'[v].kind = "none")
<1>1. w \in M!Actors /\ w # M!Boot BY WhoActs
<1>2. call' \in [M!Actors -> CallRecords] /\ call'[w] = M!Free /\ \A v \in M!Actors \ {w} : call'[v] = call[v]
  BY <1>1, Freed DEF MailInv
<1>3. call'[M!Boot] = call[M!Boot] BY <1>1, <1>2, WhoActs
<1>4. \A v \in Calls : (v # w /\ call'[v] = call[v]) \/ (v = w /\ call'[v].step = "rest" /\ call'[v].kind = "none")
  BY <1>2, WhoActs, FreeCall
<1>5. InTurn' BY InTurnStays DEF MailInv
<1>6. CallsShaped'
  <2>1. ShapedCall(w)' BY <1>2, FreeIsShaped
  <2>2. QED BY <1>1, <1>2, <2>1, ShapesStay DEF MailInv
<1>7. AddressesKept' BY <1>4, AddressesStay DEF MailInv, M!Exists
<1>8. RoomKept' BY <1>4, RoomStays DEF MailInv
<1>9. DefaultsKept'
  <2>1. call[w].place \in Places BY <1>1, WhoseStep DEF MailInv
  <2>2. PICK q \in Places : q = call[w].place BY <2>1
  <2>3. M!Settled(q)' = M!Settled(q) BY SettledStays
  <2>4. call'[w].step = "rest" BY <1>4
  <2>5. q \notin overlapped => Sound(q)' BY <2>2, <2>3 DEF Sound
  <2>6. QED BY <1>1, <1>2, <2>2, <2>4, <2>5, DefaultsGoOn DEF MailInv
<1>10. QED BY <1>2, <1>3, <1>4, <1>5, <1>6, <1>7, <1>8, <1>9

\* A place is in order where a request has not begun to change it, or starts the loop.
LEMMA SettledAt ==
    ASSUME DefaultsKept, NEW w \in Calls, Untouched(call[w]),
           call[w].place \in Places, call[w].place \notin overlapped
    PROVE  Sound(call[w].place)
<1>1. PICK q \in Places : q = call[w].place OBVIOUS
<1>2. DefaultOf(q) BY DEF DefaultsKept
<1>3. QED BY <1>1, <1>2 DEF DefaultOf

\* The places and loops a failed call leaves behind are named.
LEMMA RequestFailsHolds ==
    ASSUME MailInv, NEW w \in Calls, M!CallFails(w)
    PROVE  MailInv'
<1>1. /\ call[w] # M!Free /\ M!Put(w, M!Free)
      /\ unsettled' = unsettled \cup M!Undecided(w) /\ missed' = missed \cup M!Unlooped(w)
      /\ UNCHANGED <<boxes, loops, reading, mails, overlapped, doubled, late>>
  BY DEF M!CallFails, M!records
<1>2. w \in M!Actors /\ w # M!Boot /\ call[w].place \in Places /\ ShapedCall(w)
  BY <1>1, WhoActs, WhoseStep DEF MailInv, CallsShaped
<1>3. /\ M!Undecided(w) \subseteq {call[w].place}
      /\ ~Untouched(call[w]) => call[w].place \in M!Undecided(w)
  BY <1>1, <1>2, FreeCall DEF M!Undecided, Untouched, ShapedCall
<1>4. call[w].place \notin overlapped => M!Settled(call[w].place) \/ call[w].place \in unsettled'
  <2>1. CASE Untouched(call[w]) BY <1>1, <1>2, <2>1, SettledAt DEF MailInv, Sound
  <2>2. CASE ~Untouched(call[w]) BY <1>1, <1>3, <2>2
  <2>3. QED BY <2>1, <2>2
<1>5. \A p \in Places \ {call[w].place} : p \in unsettled' <=> p \in unsettled BY <1>1, <1>3
<1>6. /\ InTurn' /\ CallsShaped' /\ AddressesKept' /\ RoomKept' /\ DefaultsKept'
      /\ call' \in [M!Actors -> CallRecords] /\ call'[M!Boot] = call[M!Boot]
      /\ \A v \in Calls : (v # w /\ call'[v] = call[v]) \/ (v = w /\ call'[v].step = "rest" /\ call'[v].kind = "none")
  BY <1>1, <1>4, <1>5, EndsInTurn
<1>7. M!Unlooped(w) \subseteq {call[w].box} /\ M!Unlooped(w) \subseteq Boxes BY <1>2 DEF M!Unlooped
<1>8. BoxesTyped'
  <2>1. unsettled' \subseteq Places /\ missed' \subseteq Boxes BY <1>1, <1>2, <1>3, <1>7 DEF MailInv, BoxesTyped
  <2>2. QED BY <1>1, <1>6, <2>1 DEF MailInv, BoxesTyped
<1>9. LoopsKept'
  <2> SUFFICES ASSUME NEW b \in Boxes PROVE LoopOf(b)' BY DEF LoopsKept, Boxes
  <2>1. LoopOf(b) BY DEF MailInv, LoopsKept
  <2>2. \A v \in Calls : v # w => call'[v] = call[v] BY <1>6
  <2>3. call'[w].box = 0 /\ b # 0 BY <1>1, <1>2, Freed, FreeCall, MailAssumption DEF MailInv, Boxes
  <2>4. CASE call[w].box # b
    <3>1. \A v \in Calls : call'[v] = call[v] \/ (call[v].box # b /\ call'[v].box # b) BY <2>2, <2>3, <2>4
    <3>2. b \in missed' <=> b \in missed BY <1>1, <1>7, <2>4
    <3>3. QED BY <1>1, <1>6, <3>1, <3>2, LoopStays DEF MailInv
  <2>5. CASE call[w].box = b
    <3> SUFFICES ASSUME boxes[b].place \notin overlapped PROVE LoopOf(b)' BY <1>1 DEF LoopOf
    <3>1. call[w].kind \in {"connect", "remove"} /\ call[w].step # "test" => b \in missed' BY <1>1, <1>2, <2>5 DEF M!Unlooped
    <3>2. call[w].step \in {"mails", "delete"} => call[w].kind = "remove" BY <1>2, WhoseStep DEF MailInv
    <3>4. M!Connected(b)' /\ b \notin missed' /\ call'[M!Boot] = M!Free =>
             \/ \E v \in Calls : call'[v].box = b /\ call'[v].kind = "connect" /\ call'[v].step # "test"
             \/ /\ b \in loops' \/ \E v \in Calls : call'[v].box = b /\ call'[v].step \in {"mails", "delete"}
                /\ reading'[b] # "ending"
      <4> SUFFICES ASSUME M!Connected(b)', b \notin missed', call'[M!Boot] = M!Free
                   PROVE  \/ \E v \in Calls : call'[v].box = b /\ call'[v].kind = "connect" /\ call'[v].step # "test"
                          \/ /\ b \in loops' \/ \E v \in Calls : call'[v].box = b /\ call'[v].step \in {"mails", "delete"}
                             /\ reading'[b] # "ending"
        OBVIOUS
      <4>1. M!Connected(b) /\ b \notin missed /\ call[M!Boot] = M!Free BY <1>1, <1>6 DEF M!Connected
      <4>2. ~(call[w].kind = "connect" /\ call[w].step # "test") /\ call[w].step \notin {"mails", "delete"}
        BY <1>2, <3>1, <3>2, WhoseStep DEF MailInv
      <4>3. CASE \E v \in Calls : call[v].box = b /\ call[v].kind = "connect" /\ call[v].step # "test"
        BY <2>2, <4>2, <4>3
      <4>4. CASE /\ b \in loops \/ \E v \in Calls : call[v].box = b /\ call[v].step \in {"mails", "delete"}
                 /\ reading[b] # "ending"
        BY <1>1, <2>2, <4>2, <4>4
      <4>5. QED BY <2>1, <4>1, <4>3, <4>4 DEF LoopOf
    <3>5. call'[M!Boot] # M!Free => b \notin loops' /\ reading'[b] # "ending" BY <1>1, <1>6, <2>1 DEF LoopOf
    <3>6. \A v \in Calls : call'[v].box = b => /\ call'[v].step = "stop" => ~M!Connected(b)'
                                               /\ call'[v].step = "close" => call'[v].status = boxes'[b].status
      BY <1>1, <2>1, <2>2, <2>3 DEF LoopOf, M!Connected
    <3>7. QED BY <3>4, <3>5, <3>6 DEF LoopOf
  <2>6. QED BY <2>4, <2>5
<1>10. MailsKept' BY <1>1, <1>6, MailsStay DEF MailInv
<1>11. QED BY <1>6, <1>8, <1>9, <1>10 DEF MailInv

\* The next mailbox is the first that is not there yet.
LEMMA NextBox ==
    ASSUME BoxesTyped, InTurn, M!NewBox \in Boxes
    PROVE  \A b \in Boxes : boxes[b].status # "unborn" <=> b < M!NewBox
<1>1. PICK n \in 0..MaxBoxes : \A b \in Boxes : boxes[b].status # "unborn" <=> b <= n BY DEF InTurn
<1>2. {b \in Boxes : boxes[b].status # "unborn"} = 1..n BY <1>1, MailAssumption DEF Boxes
<1>3. Cardinality(1..n) = n BY MailAssumption, FS_Interval
<1>4. M!NewBox = n + 1 BY <1>2, <1>3, MailCounted DEF M!NewBox
<1>5. QED BY <1>1, <1>4, MailAssumption DEF Boxes

LEMMA CreateBoxHolds ==
    ASSUME MailInv, NEW w \in M!Actors, M!CreateBox(w)
    PROVE  MailInv'
<1> DEFINE record == [status |-> "connected", main |-> FALSE, place |-> call[w].place, address |-> call[w].address]
<1> DEFINE next == [call[w] EXCEPT !.step = "look", !.box = M!NewBox]
<1>1. /\ call[w].step = "test" /\ call[w].box = 0 /\ M!NewBox \in Boxes
      /\ boxes' = [boxes EXCEPT ![M!NewBox] = record] /\ M!Put(w, next)
      /\ UNCHANGED <<loops, reading, mails, overlapped, doubled, missed, late, unsettled>>
  BY DEF M!CreateBox, M!past
<1>2. PICK nb \in Boxes : nb = M!NewBox BY <1>1
<1>3. /\ w \in Calls /\ w # M!Boot /\ call[w] # M!Free /\ call[w].place \in Places /\ call[w].kind = "connect"
      /\ call[w] \in CallRecords /\ call[w].address \in Addresses
  BY <1>1, WhoActs, WhoseStep DEF MailInv, BoxesTyped, CallRecords
<1>4. record \in BoxRecords /\ record.status = "connected" BY <1>3 DEF BoxRecords
<1>5. /\ next \in CallRecords /\ next.kind = "connect" /\ next.step = "look" /\ next.box = nb
      /\ next.place = call[w].place /\ next.left = call[w].left
  <2>1. nb \in Nat /\ next = [call[w] EXCEPT !.step = "look", !.box = nb] BY <1>2, MailAssumption DEF Boxes
  <2> HIDE DEF next
  <2>2. QED BY <1>3, <2>1 DEF CallRecords
<1>6. /\ call' \in [M!Actors -> CallRecords] /\ \A v \in M!Actors \ {w} : call'[v] = call[v]
      /\ call'[w] = next
  <2> HIDE DEF next
  <2> QED BY <1>1, <1>5, PutOne DEF MailInv
<1>7. /\ call'[w].kind = "connect" /\ call'[w].step = "look" /\ call'[w].box = nb
      /\ call'[w].place = call[w].place /\ call'[w].left = call[w].left
  BY <1>5, <1>6
<1> HIDE DEF next
<1>8. /\ boxes' \in [Boxes -> BoxRecords] /\ boxes'[nb].status = "connected" /\ boxes'[nb].place = call[w].place
      /\ boxes'[nb].address = call[w].address /\ \A b \in Boxes \ {nb} : boxes'[b] = boxes[b]
  BY <1>1, <1>2, <1>4 DEF MailInv, BoxesTyped
<1>9. \A b \in Boxes : boxes[b].status # "unborn" <=> b < nb BY <1>2, NextBox DEF MailInv
<1>10. boxes[nb].status = "unborn" BY <1>9, MailAssumption DEF Boxes
<1>11. BoxesTyped' BY <1>1, <1>6, <1>8 DEF MailInv, BoxesTyped
<1>12. InTurn'
  <2>1. nb \in 0..MaxBoxes /\ \A b \in Boxes : boxes'[b].status # "unborn" <=> b <= nb
    BY <1>8, <1>9, MailAssumption DEF Boxes
  <2>2. QED BY <2>1 DEF InTurn, Boxes
<1>13. ShapedCall(w)' BY <1>3, <1>7, <1>8 DEF ShapedCall, Born, Boxes
<1>14. \A b \in Boxes : boxes[b].status # "unborn" => boxes'[b].status # "unborn" /\ boxes'[b].place = boxes[b].place
  BY <1>8, <1>10
<1>15. CallsShaped' BY <1>6, <1>13, <1>14, ShapesStay DEF MailInv
<1>16. \A v \in Calls : v \in M!Actors /\ (v # w => call'[v] = call[v]) BY <1>6, WhoActs
<1>17. \A v \in Calls : call'[v].step = "test" => v # w /\ call[v].kind = "connect"
  BY <1>7, <1>16, WhoseStep DEF MailInv
<1>18. ~doubled => \A v \in Calls : call'[v].step # "test"
  BY <1>3, <1>17 DEF MailInv, AddressesKept
<1>19. AddressesKept'
  <2> SUFFICES ASSUME ~doubled PROVE AddressesKept' BY <1>1 DEF AddressesKept
  <2>1. ~M!Taken(call[w].address, 0) BY <1>1, <1>3 DEF MailInv, AddressesKept
  <2>2. \A c \in Boxes : M!Exists(c) => boxes[c].address # call[w].address
    BY <2>1, MailAssumption DEF M!Taken, Boxes
  <2>3. \A c, d \in Boxes : c # d /\ M!Exists(c)' /\ M!Exists(d)' => boxes'[c].address # boxes'[d].address
    BY <1>8, <1>10, <2>2 DEF MailInv, AddressesKept, M!Exists
  <2>4. \A v, u \in Calls : call'[v].kind = "connect" /\ call'[u].kind = "connect" => v = u
    BY <1>3, <1>16 DEF MailInv, AddressesKept
  <2>5. QED BY <1>18, <2>3, <2>4 DEF AddressesKept, Boxes
<1>20. RoomKept'
  <2> SUFFICES ASSUME ~doubled PROVE RoomKept' BY <1>1 DEF RoomKept
  <2>1. Cardinality(ConnectedBoxes) < Limit BY <1>1, <1>3 DEF MailInv, RoomKept
  <2>2. ConnectedBoxes' = ConnectedBoxes \cup {nb} /\ nb \notin ConnectedBoxes
    BY <1>8, <1>10 DEF ConnectedBoxes, M!Connected, Boxes
  <2>3. IsFiniteSet(ConnectedBoxes) /\ Cardinality(ConnectedBoxes) \in Nat BY BoxesFinite DEF ConnectedBoxes
  <2>4. Cardinality(ConnectedBoxes') = Cardinality(ConnectedBoxes) + 1 BY <2>2, <2>3, FS_AddElement
  <2>5. QED BY <1>18, <2>1, <2>3, <2>4, MailAssumption DEF RoomKept
<1>21. DefaultsKept'
  <2>1. PICK q \in Places : q = call[w].place BY <1>3
  <2>2. \A b \in Boxes : \/ boxes'[b] = boxes[b]
                         \/ /\ boxes[b].place = q \/ ~M!Exists(b)
                            /\ boxes'[b].place = q \/ ~M!Exists(b)'
    BY <1>8, <1>10, <2>1 DEF M!Exists
  <2>3. call'[w] # M!Free BY <1>7, FreeCall
  <2>4. ~Untouched(call'[w]) /\ call'[w].step = "look" BY <1>7 DEF Untouched
  <2>5. QED BY <1>1, <1>3, <1>6, <1>7, <2>1, <2>2, <2>3, <2>4, DefaultsGoOn DEF MailInv
<1>22. LoopsKept'
  <2> SUFFICES ASSUME NEW c \in Boxes PROVE LoopOf(c)' BY DEF LoopsKept, Boxes
  <2>0. call'[M!Boot] = call[M!Boot] BY <1>3, <1>6, WhoActs
  <2>1. CASE c # nb
    <3>1. \A v \in Calls : call'[v] = call[v] \/ (call[v].box # c /\ call'[v].box # c)
      BY <1>1, <1>7, <1>16, <2>1, MailAssumption DEF Boxes
    <3>2. QED BY <1>1, <1>8, <2>0, <2>1, <3>1, LoopStays DEF MailInv
  <2>2. CASE c = nb
    <3> SUFFICES ASSUME boxes'[c].place \notin overlapped' PROVE LoopOf(c)' BY DEF LoopOf
    <3>1. call[w].place \notin overlapped BY <1>1, <1>8, <2>2
    <3>2. call[M!Boot] = M!Free BY <1>3, <3>1, Alone, WhoActs DEF MailInv
    <3>3. \A v \in Calls : v # w => call[v].step \notin {"stop", "close"} \/ call[v].box # c
      BY <1>10, <1>16, <2>2, FreeCall, WhoseStep DEF MailInv, Born
    <3>4. QED BY <1>7, <1>16, <2>0, <2>2, <3>2, <3>3, <1>3 DEF LoopOf
  <2>3. QED BY <2>1, <2>2
<1>23. MailsKept'
  <2>1. \A v \in Calls : call'[v].step \in {"mails", "delete"} => call'[v] = call[v] BY <1>7, <1>16
  <2>2. \A b \in Boxes : boxes'[b].status = "gone" => boxes[b].status = "gone" BY <1>8
  <2>3. QED BY <1>1, <2>1, <2>2, MailsStay DEF MailInv
<1>24. QED BY <1>11, <1>12, <1>15, <1>19, <1>20, <1>21, <1>22, <1>23 DEF MailInv

\* A document that was there is gone: the request ends with an error.
LEMMA GoneHolds ==
    ASSUME MailInv, NEW w \in Calls, call[w].step \in {"test", "close"}, call[w].box \in Boxes, ~M!Exists(call[w].box),
           M!Put(w, M!Free), UNCHANGED <<boxes, loops, reading, mails, overlapped, doubled, missed, late, unsettled>>
    PROVE  MailInv'
<1>1. w \in M!Actors /\ call[w] # M!Free /\ call[w].place \in Places BY WhoActs, WhoseStep DEF MailInv
<1>2. call[w].place \notin overlapped => Sound(call[w].place) BY <1>1, SettledAt DEF MailInv, Untouched
<1>3. /\ InTurn' /\ CallsShaped' /\ AddressesKept' /\ RoomKept' /\ DefaultsKept'
      /\ call' \in [M!Actors -> CallRecords] /\ call'[M!Boot] = call[M!Boot]
      /\ \A v \in Calls : (v # w /\ call'[v] = call[v]) \/ (v = w /\ call'[v].step = "rest" /\ call'[v].kind = "none")
  BY <1>1, <1>2, EndsInTurn DEF Sound
<1>4. BoxesTyped' BY <1>3 DEF MailInv, BoxesTyped
<1>5. call[w].step = "test" => call[w].kind = "connect" BY <1>1, WhoseStep DEF MailInv
<1>6. call[w].step = "close" => call[w].kind = "disconnect" BY <1>1, WhoseStep DEF MailInv
<1>7. LoopsKept' BY <1>3, <1>5, <1>6, LoopsStay DEF MailInv
<1>8. MailsKept' BY <1>3, MailsStay DEF MailInv
<1>9. QED BY <1>3, <1>4, <1>7, <1>8 DEF MailInv

LEMMA SaveBoxHolds ==
    ASSUME MailInv, NEW w \in M!Actors, M!SaveBox(w)
    PROVE  MailInv'
<1>1. /\ call[w].step = "test" /\ call[w].box # 0
      /\ UNCHANGED <<loops, reading, mails, overlapped, doubled, missed, late, unsettled>>
  BY DEF M!SaveBox, M!past
<1>2. /\ w \in Calls /\ w # M!Boot /\ call[w] # M!Free /\ call[w].place \in Places /\ call[w].kind = "connect"
      /\ call[w] \in CallRecords /\ call[w].address \in Addresses
  BY <1>1, WhoActs, WhoseStep DEF MailInv, BoxesTyped, CallRecords
<1>3. Born(call[w].box, call[w].place) BY <1>1, <1>2, WhoActs DEF MailInv, CallsShaped, ShapedCall
<1>4. PICK b \in Boxes : b = call[w].box /\ boxes[b].place = call[w].place BY <1>3 DEF Born
<1>5. CASE ~M!Exists(b)
  <2>1. M!Put(w, M!Free) /\ boxes' = boxes BY <1>4, <1>5 DEF M!SaveBox
  <2>2. QED BY <1>1, <1>2, <1>4, <1>5, <2>1, GoneHolds
<1>6. CASE M!Exists(b)
  <2> DEFINE record == [boxes[b] EXCEPT !.address = call[w].address,
                                        !.status = IF call[w].status = "connected" THEN @ ELSE "connected"]
  <2>1. boxes' = [boxes EXCEPT ![b] = record] /\ M!Go(w, "look")
    <3>1. /\ boxes' = [boxes EXCEPT ![b].address = call[w].address,
                                    ![b].status = IF call[w].status = "connected" THEN @ ELSE "connected"]
          /\ M!Go(w, "look")
      BY <1>4, <1>6 DEF M!SaveBox
    <3>2. boxes \in [Boxes -> BoxRecords] /\ boxes[b] \in BoxRecords BY DEF MailInv, BoxesTyped
    <3>3. QED BY <3>1, <3>2 DEF BoxRecords
  <2>2. /\ record \in BoxRecords /\ record.place = call[w].place /\ record.main = boxes[b].main
        /\ record.address = call[w].address
        /\ record.status = IF call[w].status = "connected" THEN boxes[b].status ELSE "connected"
    BY <1>2, <1>4 DEF MailInv, BoxesTyped, BoxRecords
  <2>3. /\ boxes' \in [Boxes -> BoxRecords] /\ boxes'[b] = record /\ \A c \in Boxes \ {b} : boxes'[c] = boxes[c]
    <3> HIDE DEF record
    <3> QED BY <2>1, <2>2 DEF MailInv, BoxesTyped
  <2>4. /\ boxes'[b].place = call[w].place /\ boxes'[b].main = boxes[b].main /\ boxes'[b].address = call[w].address
        /\ boxes'[b].status = IF call[w].status = "connected" THEN boxes[b].status ELSE "connected"
    BY <2>2, <2>3
  <2> HIDE DEF record
  <2>5. boxes[b].status \notin {"unborn", "gone"} /\ boxes'[b].status \notin {"unborn", "gone"}
    BY <1>6, <2>4 DEF M!Exists
  <2>6. /\ call' \in [M!Actors -> CallRecords] /\ \A v \in M!Actors \ {w} : call'[v] = call[v]
        /\ call'[w].step = "look" /\ call'[w].kind = "connect" /\ call'[w].box = b /\ call'[w].place = call[w].place
        /\ call'[w].left = call[w].left
    BY <1>2, <1>4, <2>1, WhoActs, GoOne DEF MailInv
  <2>7. BoxesTyped' BY <1>1, <2>3, <2>6 DEF MailInv, BoxesTyped
  <2>8. InTurn' BY <2>3, <2>5, InTurnStays DEF MailInv
  <2>9. ShapedCall(w)' BY <1>2, <1>4, <2>4, <2>5, <2>6 DEF ShapedCall, Born, Boxes
  <2>10. CallsShaped' BY <1>2, <1>4, <2>3, <2>4, <2>5, <2>6, <2>9, WhoActs, ShapesStay DEF MailInv
  <2>11. \A v \in Calls : v \in M!Actors /\ (v # w => call'[v] = call[v]) BY <2>6, WhoActs
  <2>12. \A v \in Calls : call'[v].step = "test" => v # w /\ call[v].kind = "connect"
    BY <2>6, <2>11, WhoseStep DEF MailInv
  <2>13. ~doubled => \A v \in Calls : call'[v].step # "test" BY <1>2, <2>12 DEF MailInv, AddressesKept
  <2>14. AddressesKept'
    <3> SUFFICES ASSUME ~doubled PROVE AddressesKept' BY <1>1 DEF AddressesKept
    <3>1. ~M!Taken(call[w].address, b) BY <1>1, <1>2, <1>4 DEF MailInv, AddressesKept
    <3>2. \A c \in Boxes : c # b /\ M!Exists(c) => boxes[c].address # call[w].address BY <3>1 DEF M!Taken
    <3>3. \A c, d \in Boxes : c # d /\ M!Exists(c)' /\ M!Exists(d)' => boxes'[c].address # boxes'[d].address
      BY <2>3, <2>4, <3>2 DEF MailInv, AddressesKept, M!Exists
    <3>4. \A v, u \in Calls : call'[v].kind = "connect" /\ call'[u].kind = "connect" => v = u
      BY <1>2, <2>11 DEF MailInv, AddressesKept
    <3>5. QED BY <2>13, <3>3, <3>4 DEF AddressesKept, Boxes
  <2>15. RoomKept'
    <3> SUFFICES ASSUME ~doubled PROVE RoomKept' BY <1>1 DEF RoomKept
    <3>1. IsFiniteSet(ConnectedBoxes) /\ Cardinality(ConnectedBoxes) \in Nat BY BoxesFinite DEF ConnectedBoxes
    <3>2. Cardinality(ConnectedBoxes) <= Limit BY DEF MailInv, RoomKept
    <3>3. CASE call[w].status = "connected"
      <4>1. ConnectedBoxes' = ConnectedBoxes BY <2>3, <2>4, <3>3 DEF ConnectedBoxes, M!Connected, Boxes
      <4>2. QED BY <2>13, <3>2, <4>1 DEF RoomKept
    <3>4. CASE call[w].status # "connected"
      <4>1. Cardinality(ConnectedBoxes) < Limit BY <1>1, <1>2, <3>4 DEF MailInv, RoomKept
      <4>2. ConnectedBoxes' = ConnectedBoxes \cup {b}
        BY <2>3, <2>4, <3>4 DEF ConnectedBoxes, M!Connected, Boxes
      <4>3. Cardinality(ConnectedBoxes') = Cardinality(ConnectedBoxes) \/ Cardinality(ConnectedBoxes') = Cardinality(ConnectedBoxes) + 1
        <5>1. CASE b \in ConnectedBoxes
          <6>1. ConnectedBoxes' = ConnectedBoxes BY <4>2, <5>1
          <6>2. QED BY <6>1
        <5>2. CASE b \notin ConnectedBoxes BY <3>1, <4>2, <5>2, FS_AddElement
        <5>3. QED BY <5>1, <5>2
      <4>4. Cardinality(ConnectedBoxes') <= Limit BY <3>1, <4>1, <4>3, MailAssumption
      <4>5. QED BY <2>13, <4>4 DEF RoomKept
    <3>5. QED BY <3>3, <3>4
  <2>16. DefaultsKept'
    <3>1. PICK q \in Places : q = call[w].place BY <1>2
    <3>2. \A c \in Boxes : \/ boxes'[c] = boxes[c]
                           \/ /\ boxes[c].place = q \/ ~M!Exists(c)
                              /\ boxes'[c].place = q \/ ~M!Exists(c)'
      BY <1>4, <2>3, <2>4, <3>1
    <3>3. call'[w] # M!Free BY <2>6, FreeCall
    <3>4. w \in M!Actors BY <1>2, WhoActs
    <3>5. ~Untouched(call'[w]) /\ call'[w].step = "look" BY <2>6 DEF Untouched
    <3>6. QED BY <1>1, <1>2, <2>6, <3>1, <3>2, <3>3, <3>4, <3>5, DefaultsGoOn DEF MailInv
  <2>17. LoopsKept'
    <3> SUFFICES ASSUME NEW c \in Boxes PROVE LoopOf(c)' BY DEF LoopsKept, Boxes
    <3>0. call'[M!Boot] = call[M!Boot] BY <1>2, <2>6, WhoActs
    <3>1. CASE c # b
      <4>1. \A v \in Calls : call'[v] = call[v] \/ (call[v].box # c /\ call'[v].box # c)
        BY <1>4, <2>6, <2>11, <3>1
      <4>2. QED BY <1>1, <2>3, <3>0, <3>1, <4>1, LoopStays DEF MailInv
    <3>2. CASE c = b
      <4> SUFFICES ASSUME boxes'[c].place \notin overlapped' PROVE LoopOf(c)' BY DEF LoopOf
      <4>1. call[w].place \notin overlapped BY <1>1, <2>4, <3>2
      <4>2. \A v \in M!Actors \ {w} : call[v] = M!Free \/ (v # M!Boot /\ call[v].place # call[w].place)
        BY <1>2, <4>1, Alone, WhoActs DEF MailInv
      <4>3. call[M!Boot] = M!Free BY <1>2, <4>2, WhoActs
      <4>4. \A v \in Calls : v # w => call[v].step \notin {"stop", "close"} \/ call[v].box # c
        BY <1>4, <2>11, <3>2, <4>2, FreeCall, WhoseStep DEF MailInv, Born
      <4>5. QED BY <1>2, <2>6, <2>11, <3>0, <3>2, <4>3, <4>4 DEF LoopOf
    <3>3. QED BY <3>1, <3>2
  <2>18. MailsKept'
    <3>1. \A v \in Calls : call'[v].step \in {"mails", "delete"} => call'[v] = call[v] BY <2>6, <2>11
    <3>2. \A c \in Boxes : boxes'[c].status = "gone" => boxes[c].status = "gone" BY <2>3, <2>5
    <3>3. QED BY <1>1, <3>1, <3>2, MailsStay DEF MailInv
  <2>19. QED BY <2>7, <2>8, <2>10, <2>14, <2>15, <2>16, <2>17, <2>18 DEF MailInv
<1>7. QED BY <1>5, <1>6

\* Where a request of mailbox b is at work and nothing overlapped, no other is at work on b.
LEMMA OwnBox ==
    ASSUME MailInv, NEW w \in Calls, call[w] # M!Free, NEW p \in Places, call[w].place = p, p \notin overlapped,
           NEW b \in Boxes, boxes[b].place = p
    PROVE  /\ call[M!Boot] = M!Free
           /\ \A v \in Calls : v # w => (call[v].step = "rest" /\ call[v].kind = "none") \/ call[v].box # b
<1>1. w \in M!Actors /\ w # M!Boot BY WhoActs
<1>2. \A v \in M!Actors \ {w} : call[v] = M!Free \/ (v # M!Boot /\ call[v].place # p) BY <1>1, Alone DEF MailInv
<1>3. ASSUME NEW v \in Calls, v # w, call[v] # M!Free, call[v].box = b PROVE FALSE
  <2>1. v \in M!Actors /\ call[v].place # p BY <1>2, <1>3, WhoActs
  <2>2. call[v].step # "test" => Born(call[v].box, call[v].place) BY <1>3, <2>1, WhoseStep DEF MailInv
  <2>3. call[v].step = "test" => call[v].kind = "connect" /\ call[v].box # 0
    BY <1>3, <2>1, WhoseStep, MailAssumption DEF MailInv, Boxes
  <2>4. Born(call[v].box, call[v].place) BY <2>1, <2>2, <2>3 DEF MailInv, CallsShaped, ShapedCall
  <2>5. QED BY <1>3, <2>1, <2>4 DEF Born
<1>4. QED BY <1>1, <1>2, <1>3, FreeCall, WhoActs

\* A disconnection or a removal goes on: what it changes of its mailbox takes nothing from the rest.
LEMMA GoesInTurn ==
    ASSUME MailInv, NEW w \in Calls, NEW step \in {"stop", "look", "delete"}, M!Go(w, step),
           call[w].kind \in {"disconnect", "remove"}, step = "stop" => call[w].kind = "disconnect",
           step = "delete" => call[w].step = "mails" /\ call[w].kind = "remove" /\ boxes' = boxes,
           UNCHANGED <<overlapped, doubled, unsettled>>,
           NEW b \in Boxes, b = call[w].box, \A c \in Boxes \ {b} : boxes'[c] = boxes[c],
           boxes'[b].place = boxes[b].place, boxes'[b].address = boxes[b].address, boxes'[b].status # "unborn",
           M!Exists(b)' => M!Exists(b), M!Connected(b)' => M!Connected(b)
    PROVE  /\ InTurn' /\ CallsShaped' /\ AddressesKept' /\ RoomKept' /\ DefaultsKept'
           /\ w \in M!Actors /\ call' \in [M!Actors -> CallRecords] /\ call'[M!Boot] = call[M!Boot]
           /\ call'[w].step = step /\ call'[w].kind = call[w].kind /\ call'[w].box = b
           /\ \A v \in Calls \ {w} : call'[v] = call[v]
<1>1. w \in M!Actors /\ w # M!Boot /\ Calls \subseteq M!Actors BY WhoActs
<1>2. /\ call' \in [M!Actors -> CallRecords] /\ \A v \in M!Actors \ {w} : call'[v] = call[v]
      /\ call'[w].step = step /\ call'[w].kind = call[w].kind /\ call'[w].box = b /\ call'[w].place = call[w].place
      /\ call'[w].left = call[w].left
  BY <1>1, GoOne DEF MailInv
<1>3. call[w] # M!Free /\ call[w].step # "test" /\ Born(b, call[w].place) /\ call[w].place \in Places
  BY <1>1, FreeCall, WhoseStep DEF MailInv
<1>4. boxes[b].place = call[w].place /\ boxes[b].status # "unborn" BY <1>3 DEF Born
<1>5. InTurn' BY <1>4, InTurnStays DEF MailInv
<1>6. ShapedCall(w)' BY <1>1, <1>2, <1>4 DEF ShapedCall, Born, Boxes
<1>7. CallsShaped' BY <1>1, <1>2, <1>6, ShapesStay DEF MailInv
<1>8. \A v \in Calls : call'[v] = call[v] \/ (call'[v].step = step /\ call'[v].kind = call[v].kind) BY <1>1, <1>2
<1>9. AddressesKept'
  <2>1. \A c \in Boxes : M!Exists(c)' => M!Exists(c) /\ boxes'[c].address = boxes[c].address BY DEF M!Exists
  <2>2. QED BY <1>8, <2>1, AddressesStay DEF MailInv
<1>10. RoomKept'
  <2>1. \A c \in Boxes : boxes'[c].status = "connected" => boxes[c].status = "connected" BY DEF M!Connected
  <2>2. QED BY <1>8, <2>1, RoomStays DEF MailInv
<1>11. DefaultsKept'
  <2>1. PICK q \in Places : q = call[w].place BY <1>3
  <2>2. \A c \in Boxes : \/ boxes'[c] = boxes[c]
                         \/ /\ boxes[c].place = q \/ ~M!Exists(c)
                            /\ boxes'[c].place = q \/ ~M!Exists(c)'
    BY <1>4, <2>1
  <2>3. call'[w] # M!Free BY <1>2, FreeCall
  <2>4. q \notin overlapped /\ Untouched(call'[w]) => Sound(q)'
    <3> SUFFICES ASSUME q \notin overlapped, Untouched(call'[w]) PROVE Sound(q)' OBVIOUS
    <3>1. step = "delete" BY <1>2 DEF Untouched
    <3>2. Sound(q) BY <1>3, <2>1, <3>1, SettledAt DEF MailInv, Untouched
    <3>3. M!Settled(q)' = M!Settled(q) BY <3>1, SettledStays
    <3>4. QED BY <3>2, <3>3 DEF Sound
  <2>5. QED BY <1>1, <1>2, <1>3, <2>1, <2>2, <2>3, <2>4, DefaultsGoOn DEF MailInv
<1>12. call'[M!Boot] = call[M!Boot] /\ \A v \in Calls \ {w} : call'[v] = call[v] BY <1>1, <1>2, WhoActs
<1>13. QED BY <1>1, <1>2, <1>5, <1>7, <1>9, <1>10, <1>11, <1>12

\* The loop of another mailbox stays where a request goes on with its own.
LEMMA OtherLoops ==
    ASSUME MailInv, NEW w \in Calls, NEW b \in Boxes, b = call[w].box, call'[w].box \in {0, b}, call'[M!Boot] = call[M!Boot],
           \A v \in Calls \ {w} : call'[v] = call[v], overlapped' = overlapped,
           \A c \in Boxes \ {b} : /\ boxes'[c] = boxes[c] /\ reading'[c] = reading[c]
                                  /\ c \in loops' <=> c \in loops
                                  /\ c \in missed' <=> c \in missed,
           LoopOf(b)'
    PROVE  LoopsKept'
<1> SUFFICES ASSUME NEW c \in Boxes, c # b PROVE LoopOf(c)'
  BY DEF LoopsKept, Boxes
<1>1. c # 0 BY MailAssumption DEF Boxes
<1>2. \A v \in Calls : call'[v] = call[v] \/ (call[v].box # c /\ call'[v].box # c) BY <1>1
<1>3. /\ boxes'[c].status = boxes[c].status /\ boxes'[c].place = boxes[c].place /\ reading'[c] = reading[c]
      /\ c \in loops' <=> c \in loops
      /\ c \in missed' <=> c \in missed
      /\ LoopsKept /\ overlapped \subseteq overlapped'
      /\ call'[M!Boot] = M!Free <=> call[M!Boot] = M!Free
  BY DEF MailInv
<1>4. QED BY <1>2, <1>3, LoopStays

LEMMA CloseBoxHolds ==
    ASSUME MailInv, NEW w \in M!Actors, M!CloseBox(w)
    PROVE  MailInv'
<1>1. call[w].step = "close" /\ UNCHANGED <<loops, reading, mails, overlapped, doubled, missed, late, unsettled>>
  BY DEF M!CloseBox, M!past
<1>2. /\ w \in Calls /\ w # M!Boot /\ call[w] # M!Free /\ call[w].place \in Places /\ call[w].kind = "disconnect"
      /\ Born(call[w].box, call[w].place)
  BY <1>1, WhoActs, WhoseStep DEF MailInv
<1>3. PICK b \in Boxes : b = call[w].box /\ boxes[b].place = call[w].place BY <1>2 DEF Born
<1>4. CASE ~M!Exists(b)
  <2>1. M!Put(w, M!Free) /\ boxes' = boxes BY <1>3, <1>4 DEF M!CloseBox
  <2>2. QED BY <1>1, <1>2, <1>3, <1>4, <2>1, GoneHolds
<1>5. CASE M!Exists(b)
  <2> DEFINE record == [boxes[b] EXCEPT !.status = IF call[w].status = "disconnected" THEN @ ELSE "disconnected",
                                        !.main = IF call[w].main THEN FALSE ELSE @]
  <2>1. boxes' = [boxes EXCEPT ![b] = record] /\ M!Go(w, "stop")
    <3>1. /\ boxes' = [boxes EXCEPT ![b].status = IF call[w].status = "disconnected" THEN @ ELSE "disconnected",
                                    ![b].main = IF call[w].main THEN FALSE ELSE @]
          /\ M!Go(w, "stop")
      BY <1>3, <1>5 DEF M!CloseBox
    <3>2. boxes \in [Boxes -> BoxRecords] /\ boxes[b] \in BoxRecords BY DEF MailInv, BoxesTyped
    <3>3. QED BY <3>1, <3>2 DEF BoxRecords
  <2>2. /\ record \in BoxRecords /\ record.place = boxes[b].place /\ record.address = boxes[b].address
        /\ record.status = IF call[w].status = "disconnected" THEN boxes[b].status ELSE "disconnected"
    BY DEF MailInv, BoxesTyped, BoxRecords
  <2>3. /\ boxes' \in [Boxes -> BoxRecords] /\ boxes'[b] = record /\ \A c \in Boxes \ {b} : boxes'[c] = boxes[c]
    <3> HIDE DEF record
    <3> QED BY <2>1, <2>2 DEF MailInv, BoxesTyped
  <2>4. /\ boxes'[b].place = boxes[b].place /\ boxes'[b].address = boxes[b].address
        /\ boxes'[b].status = IF call[w].status = "disconnected" THEN boxes[b].status ELSE "disconnected"
    BY <2>2, <2>3
  <2> HIDE DEF record
  <2>5. /\ boxes'[b].status # "unborn" /\ boxes'[b].status # "gone"
        /\ M!Connected(b)' => M!Connected(b)
    BY <1>5, <2>4 DEF M!Exists, M!Connected
  <2>6. /\ InTurn' /\ CallsShaped' /\ AddressesKept' /\ RoomKept' /\ DefaultsKept'
        /\ w \in M!Actors /\ call' \in [M!Actors -> CallRecords] /\ call'[M!Boot] = call[M!Boot]
        /\ call'[w].step = "stop" /\ call'[w].kind = call[w].kind /\ call'[w].box = b
        /\ \A v \in Calls \ {w} : call'[v] = call[v]
    BY <1>1, <1>2, <1>3, <1>5, <2>1, <2>3, <2>4, <2>5, GoesInTurn
  <2>7. BoxesTyped' BY <1>1, <2>3, <2>6 DEF MailInv, BoxesTyped
  <2>8. LoopOf(b)'
    <3> SUFFICES ASSUME boxes'[b].place \notin overlapped' PROVE LoopOf(b)' BY DEF LoopOf
    <3>1. call[w].place \notin overlapped BY <1>1, <1>3, <2>4
    <3>2. /\ call[M!Boot] = M!Free
          /\ \A v \in Calls : v # w => (call[v].step = "rest" /\ call[v].kind = "none") \/ call[v].box # b
      BY <1>2, <1>3, <3>1, OwnBox
    <3>3. call[w].status = boxes[b].status BY <1>1, <1>2, <1>3, <3>1 DEF MailInv, LoopsKept, LoopOf
    <3>4. ~M!Connected(b)' BY <2>4, <3>3 DEF M!Connected
    <3>5. QED BY <2>6, <3>2, <3>4 DEF LoopOf
  <2>9. LoopsKept' BY <1>1, <1>2, <1>3, <2>3, <2>6, <2>8, OtherLoops
  <2>10. MailsKept'
    <3>1. \A v \in Calls : call'[v].step \in {"mails", "delete"} => call'[v] = call[v] BY <2>6
    <3>2. \A c \in Boxes : boxes'[c].status = "gone" => boxes[c].status = "gone" BY <2>3, <2>5
    <3>3. QED BY <1>1, <3>1, <3>2, MailsStay DEF MailInv
  <2>11. QED BY <2>6, <2>7, <2>9, <2>10 DEF MailInv
<1>6. QED BY <1>4, <1>5

LEMMA StopLoopHolds ==
    ASSUME MailInv, NEW w \in M!Actors, M!StopLoop(w)
    PROVE  MailInv'
<1>1. /\ call[w].step = "stop" /\ M!Go(w, "look") /\ loops' = loops \ {call[w].box}
      /\ UNCHANGED <<boxes, reading, mails, overlapped, doubled, missed, late, unsettled>>
  BY DEF M!StopLoop, M!past
<1>2. /\ w \in Calls /\ call[w] # M!Free /\ call[w].place \in Places /\ call[w].kind = "disconnect"
      /\ Born(call[w].box, call[w].place)
  BY <1>1, WhoActs, WhoseStep DEF MailInv
<1>3. PICK b \in Boxes : b = call[w].box /\ boxes[b].place = call[w].place /\ boxes[b].status # "unborn" BY <1>2 DEF Born
<1>4. /\ InTurn' /\ CallsShaped' /\ AddressesKept' /\ RoomKept' /\ DefaultsKept'
      /\ w \in M!Actors /\ call' \in [M!Actors -> CallRecords] /\ call'[M!Boot] = call[M!Boot]
      /\ call'[w].step = "look" /\ call'[w].kind = call[w].kind /\ call'[w].box = b
      /\ \A v \in Calls \ {w} : call'[v] = call[v]
  BY <1>1, <1>2, <1>3, GoesInTurn DEF M!Exists, M!Connected
<1>5. BoxesTyped' BY <1>1, <1>4 DEF MailInv, BoxesTyped
<1>6. LoopOf(b)'
  <2> SUFFICES ASSUME boxes'[b].place \notin overlapped' PROVE LoopOf(b)' BY DEF LoopOf
  <2>1. call[w].place \notin overlapped BY <1>1, <1>3
  <2>2. /\ call[M!Boot] = M!Free
        /\ \A v \in Calls : v # w => (call[v].step = "rest" /\ call[v].kind = "none") \/ call[v].box # b
    BY <1>2, <1>3, <2>1, OwnBox
  <2>3. ~M!Connected(b)' BY <1>1, <1>2, <1>3, <2>1 DEF MailInv, LoopsKept, LoopOf, M!Connected
  <2>4. QED BY <1>4, <2>2, <2>3 DEF LoopOf
<1>7. LoopsKept' BY <1>1, <1>2, <1>3, <1>4, <1>6, OtherLoops
<1>8. MailsKept'
  <2>1. \A v \in Calls : call'[v].step \in {"mails", "delete"} => call'[v] = call[v] BY <1>4
  <2>2. QED BY <1>1, <2>1, MailsStay DEF MailInv
<1>9. QED BY <1>4, <1>5, <1>7, <1>8 DEF MailInv

LEMMA DeleteMailsHolds ==
    ASSUME MailInv, NEW w \in M!Actors, M!DeleteMails(w)
    PROVE  MailInv'
<1>1. /\ call[w].step = "mails" /\ M!Go(w, "delete") /\ mails' = mails \ {call[w].box}
      /\ UNCHANGED <<boxes, loops, reading, overlapped, doubled, missed, late, unsettled>>
  BY DEF M!DeleteMails, M!Cleared, M!past
<1>2. /\ w \in Calls /\ call[w] # M!Free /\ call[w].place \in Places /\ call[w].kind = "remove"
      /\ Born(call[w].box, call[w].place)
  BY <1>1, WhoActs, WhoseStep DEF MailInv
<1>3. PICK b \in Boxes : b = call[w].box /\ boxes[b].place = call[w].place /\ boxes[b].status # "unborn" BY <1>2 DEF Born
<1>4. /\ InTurn' /\ CallsShaped' /\ AddressesKept' /\ RoomKept' /\ DefaultsKept'
      /\ w \in M!Actors /\ call' \in [M!Actors -> CallRecords] /\ call'[M!Boot] = call[M!Boot]
      /\ call'[w].step = "delete" /\ call'[w].kind = call[w].kind /\ call'[w].box = b
      /\ \A v \in Calls \ {w} : call'[v] = call[v]
  BY <1>1, <1>2, <1>3, GoesInTurn DEF M!Exists, M!Connected
<1>5. BoxesTyped' BY <1>1, <1>4 DEF MailInv, BoxesTyped
<1>6. LoopsKept'
  <2>1. \A v \in Calls : call'[v] = call[v] \/ (v = w /\ call'[v].step = "delete" /\ call'[v].box = call[v].box)
    BY <1>3, <1>4
  <2>2. call[w].step = "mails" /\ call[w].kind = "remove" BY <1>1, <1>2
  <2>3. QED BY <1>1, <1>4, <2>1, <2>2, LoopsStay DEF MailInv
<1>7. MailsKept'
  <2> SUFFICES ASSUME NEW c \in Boxes, c \notin late PROVE MailsOf(c)' BY <1>1 DEF MailsKept, MailsOf, Boxes
  <2>1. MailsOf(c) BY DEF MailInv, MailsKept
  <2>2. \A v \in Calls : call'[v].box = c => /\ call'[v].step \in {"mails", "delete"} => reading[c] # "reading"
                                             /\ call'[v].step = "delete" => c \notin mails'
    BY <1>1, <1>2, <1>3, <1>4, <2>1 DEF MailsOf
  <2>3. QED BY <1>1, <2>1, <2>2 DEF MailsOf
<1>8. QED BY <1>4, <1>5, <1>6, <1>7 DEF MailInv

LEMMA DeleteBoxHolds ==
    ASSUME MailInv, NEW w \in M!Actors, M!DeleteBox(w)
    PROVE  MailInv'
<1>1. /\ call[w].step = "delete" /\ M!Go(w, "look")
      /\ boxes' = [boxes EXCEPT ![call[w].box] = [@ EXCEPT !.status = "gone", !.main = FALSE]]
      /\ UNCHANGED <<loops, reading, mails, overlapped, doubled, missed, late, unsettled>>
  BY DEF M!DeleteBox, M!past
<1>2. /\ w \in Calls /\ call[w] # M!Free /\ call[w].place \in Places /\ call[w].kind = "remove"
      /\ Born(call[w].box, call[w].place)
  BY <1>1, WhoActs, WhoseStep DEF MailInv
<1>3. PICK b \in Boxes : b = call[w].box /\ boxes[b].place = call[w].place /\ boxes[b].status # "unborn" BY <1>2 DEF Born
<1>4. /\ boxes' \in [Boxes -> BoxRecords] /\ \A c \in Boxes \ {b} : boxes'[c] = boxes[c]
      /\ boxes'[b].status = "gone" /\ boxes'[b].place = boxes[b].place /\ boxes'[b].address = boxes[b].address
  <2> DEFINE record == [boxes[b] EXCEPT !.status = "gone", !.main = FALSE]
  <2>1. /\ record \in BoxRecords /\ record.status = "gone" /\ record.place = boxes[b].place
        /\ record.address = boxes[b].address
    BY DEF MailInv, BoxesTyped, BoxRecords
  <2>2. boxes' = [boxes EXCEPT ![b] = record] BY <1>1, <1>3
  <2> HIDE DEF record
  <2>3. QED BY <2>1, <2>2 DEF MailInv, BoxesTyped
<1>5. ~M!Exists(b)' /\ ~M!Connected(b)' BY <1>4 DEF M!Exists, M!Connected
<1>6. /\ InTurn' /\ CallsShaped' /\ AddressesKept' /\ RoomKept' /\ DefaultsKept'
      /\ w \in M!Actors /\ call' \in [M!Actors -> CallRecords] /\ call'[M!Boot] = call[M!Boot]
      /\ call'[w].step = "look" /\ call'[w].kind = call[w].kind /\ call'[w].box = b
      /\ \A v \in Calls \ {w} : call'[v] = call[v]
  BY <1>1, <1>2, <1>3, <1>4, <1>5, GoesInTurn
<1>7. BoxesTyped' BY <1>1, <1>4, <1>6 DEF MailInv, BoxesTyped
<1>8. LoopOf(b)'
  <2> SUFFICES ASSUME boxes'[b].place \notin overlapped' PROVE LoopOf(b)' BY DEF LoopOf
  <2>1. call[w].place \notin overlapped BY <1>1, <1>3, <1>4
  <2>2. /\ call[M!Boot] = M!Free
        /\ \A v \in Calls : v # w => (call[v].step = "rest" /\ call[v].kind = "none") \/ call[v].box # b
    BY <1>2, <1>3, <2>1, OwnBox
  <2>3. QED BY <1>5, <1>6, <2>2 DEF LoopOf
<1>9. LoopsKept' BY <1>1, <1>2, <1>3, <1>4, <1>6, <1>8, OtherLoops
<1>10. MailsKept'
  <2> SUFFICES ASSUME NEW c \in Boxes, c \notin late PROVE MailsOf(c)' BY <1>1 DEF MailsKept, MailsOf, Boxes
  <2>1. MailsOf(c) BY DEF MailInv, MailsKept
  <2>2. boxes'[c].status = "gone" => c \notin mails /\ reading[c] # "reading"
    BY <1>1, <1>2, <1>3, <1>4, <2>1 DEF MailsOf
  <2>3. \A v \in Calls : call'[v].step \in {"mails", "delete"} => call'[v] = call[v] BY <1>6
  <2>4. QED BY <1>1, <2>1, <2>2, <2>3 DEF MailsOf
<1>11. QED BY <1>6, <1>7, <1>9, <1>10 DEF MailInv

LEMMA StartLoopHolds ==
    ASSUME MailInv, NEW w \in M!Actors, M!StartLoop(w)
    PROVE  MailInv'
<1>1. /\ call[w].step = "start" /\ M!Put(w, M!Free)
      /\ loops' = IF M!Exists(call[w].box) THEN loops \cup {call[w].box} ELSE loops
      /\ missed' = IF reading[call[w].box] = "ending" THEN missed \cup {call[w].box} ELSE missed \ {call[w].box}
      /\ UNCHANGED <<boxes, reading, mails, overlapped, doubled, late, unsettled>>
  BY DEF M!StartLoop, M!Looped
<1>2. /\ w \in Calls /\ call[w] # M!Free /\ call[w].place \in Places /\ call[w].kind = "connect"
      /\ Born(call[w].box, call[w].place)
  BY <1>1, WhoActs, WhoseStep DEF MailInv
<1>3. PICK b \in Boxes : b = call[w].box /\ boxes[b].place = call[w].place BY <1>2 DEF Born
<1>4. call[w].place \notin overlapped => Sound(call[w].place) BY <1>1, <1>2, SettledAt DEF MailInv, Untouched
<1>5. /\ InTurn' /\ CallsShaped' /\ AddressesKept' /\ RoomKept' /\ DefaultsKept'
      /\ call' \in [M!Actors -> CallRecords] /\ call'[M!Boot] = call[M!Boot]
      /\ \A v \in Calls : (v # w /\ call'[v] = call[v]) \/ (v = w /\ call'[v].step = "rest" /\ call'[v].kind = "none")
  BY <1>1, <1>2, <1>4, EndsInTurn DEF Sound
<1>6. call'[w].box = 0 BY <1>1, <1>2, Freed, FreeCall, WhoActs DEF MailInv
<1>7. BoxesTyped' BY <1>1, <1>3, <1>5 DEF MailInv, BoxesTyped
<1>8. LoopOf(b)'
  <2> SUFFICES ASSUME boxes'[b].place \notin overlapped' PROVE LoopOf(b)' BY DEF LoopOf
  <2>1. call[w].place \notin overlapped BY <1>1, <1>3
  <2>2. /\ call[M!Boot] = M!Free
        /\ \A v \in Calls : v # w => (call[v].step = "rest" /\ call[v].kind = "none") \/ call[v].box # b
    BY <1>2, <1>3, <2>1, OwnBox
  <2>3. M!Connected(b)' /\ b \notin missed' => b \in loops' /\ reading'[b] # "ending"
    BY <1>1, <1>3 DEF M!Connected, M!Exists
  <2>4. \A v \in Calls : call'[v].box = b => call'[v].step \notin {"stop", "close"} BY <1>5, <2>2
  <2>5. QED BY <1>5, <2>2, <2>3, <2>4 DEF LoopOf
<1>9. LoopsKept'
  <2>1. \A c \in Boxes \ {b} : /\ boxes'[c] = boxes[c] /\ reading'[c] = reading[c]
                               /\ c \in loops' <=> c \in loops
                               /\ c \in missed' <=> c \in missed
    BY <1>1, <1>3
  <2>2. call'[w].box \in {0, b} /\ call'[M!Boot] = call[M!Boot] /\ \A v \in Calls \ {w} : call'[v] = call[v]
    BY <1>5, <1>6
  <2>3. QED BY <1>1, <1>2, <1>3, <1>8, <2>1, <2>2, OtherLoops
<1>10. MailsKept'
  <2>1. \A v \in Calls : call'[v].step \in {"mails", "delete"} => call'[v] = call[v] BY <1>5
  <2>2. QED BY <1>1, <2>1, MailsStay DEF MailInv
<1>11. QED BY <1>5, <1>7, <1>9, <1>10 DEF MailInv

-----------------------------------------------------------------------------
(* ensureDefault. *)

\* Its steps change only which mailbox is the default.
LEMMA EnsuresInTurn ==
    ASSUME MailInv, NEW w \in M!Actors, call[w].step \in {"look", "clear", "mark"}, call[w].kind # "none",
           call' \in [M!Actors -> CallRecords], \A v \in M!Actors \ {w} : call'[v] = call[v],
           \/ call'[w] = M!Free /\ call[w].kind \notin {"connect", "boot"}
           \/ /\ call'[w].kind = call[w].kind /\ call'[w].box = call[w].box
              /\ call'[w].step \in {"clear", "mark", "start", "scope"} /\ ShapedCall(w)',
           boxes' \in [Boxes -> BoxRecords],
           \A b \in Boxes : /\ boxes'[b].status = boxes[b].status /\ boxes'[b].place = boxes[b].place
                            /\ boxes'[b].address = boxes[b].address,
           UNCHANGED <<loops, reading, mails, overlapped, doubled, missed, late>>, unsettled' \subseteq Places, DefaultsKept'
    PROVE  MailInv'
<1>1. BoxesTyped' BY DEF MailInv, BoxesTyped
<1>2. InTurn' BY InTurnStays DEF MailInv
<1>3. ShapedCall(w)' BY FreeIsShaped
<1>4. CallsShaped' BY <1>3, ShapesStay DEF MailInv
<1>5. \A v \in Calls : \/ call'[v] = call[v]
                       \/ /\ v = w /\ call[v].step \in {"look", "clear", "mark"}
                          /\ \/ call'[v].step = "rest" /\ call'[v].kind = "none" /\ call[v].kind # "connect"
                             \/ /\ call'[v].kind = call[v].kind /\ call'[v].box = call[v].box
                                /\ call'[v].step \in {"clear", "mark", "start", "scope"}
  BY FreeCall, WhoActs
<1>6. AddressesKept' BY <1>5, AddressesStay DEF MailInv, M!Exists
<1>7. RoomKept' BY <1>5, RoomStays DEF MailInv
<1>8. call'[M!Boot] = M!Free <=> call[M!Boot] = M!Free
  <2>1. CASE w # M!Boot BY <2>1, WhoActs
  <2>2. CASE w = M!Boot
    <3>1. call[w].kind = "boot" /\ call[w] # M!Free BY <2>2, WhoseStep, FreeCall DEF MailInv
    <3>2. QED BY <2>2, <3>1, FreeCall
  <2>3. QED BY <2>1, <2>2
<1>9. LoopsKept' BY <1>5, <1>8, LoopsStay DEF MailInv
<1>10. MailsKept' BY <1>5, MailsStay DEF MailInv
<1>11. QED BY <1>1, <1>2, <1>4, <1>6, <1>7, <1>9, <1>10 DEF MailInv

\* What comes after ensureDefault.
LEMMA DoneOne ==
    ASSUME MailInv, NEW w \in M!Actors, call[w].step \in {"look", "mark"}, M!Done(w)
    PROVE  /\ call[w] # M!Free /\ call[w].kind # "none"
           /\ unsettled' = unsettled \ {call[w].place}
           /\ call' \in [M!Actors -> CallRecords] /\ \A v \in M!Actors \ {w} : call'[v] = call[v]
           /\ \/ call'[w] = M!Free /\ call[w].kind \notin {"connect", "boot"} /\ w # M!Boot
              \/ /\ call'[w] # M!Free /\ call'[w].kind = call[w].kind /\ call'[w].box = call[w].box
                 /\ call'[w].place = call[w].place /\ call'[w].left = call[w].left /\ call'[w].keep = call[w].keep
                 /\ \/ w # M!Boot /\ call'[w].kind = "connect" /\ call'[w].step = "start"
                    \/ w = M!Boot /\ call'[w].kind = "boot" /\ call'[w].step = "scope"
<1>1. /\ call[w] # M!Free /\ call[w].kind # "none"
      /\ call[w].kind = "boot" <=> w = M!Boot
      /\ ShapedCall(w)
  BY FreeCall, WhoseStep DEF MailInv, CallsShaped
<1>2. call[w].kind \in {"boot", "connect", "default", "disconnect", "remove"} BY <1>1 DEF ShapedCall
<1>3. CASE call[w].kind = "connect"
  <2>1. M!Go(w, "start") /\ unsettled' = unsettled \ {call[w].place} BY <1>3 DEF M!Done, M!After
  <2>2. QED BY <1>1, <1>3, <2>1, GoOne, FreeCall DEF MailInv
<1>4. CASE call[w].kind = "boot"
  <2>1. M!Go(w, "scope") /\ unsettled' = unsettled \ {call[w].place} BY <1>4 DEF M!Done, M!After
  <2>2. QED BY <1>1, <1>4, <2>1, GoOne, FreeCall DEF MailInv
<1>5. CASE call[w].kind \notin {"connect", "boot"}
  <2>1. M!Put(w, M!Free) /\ unsettled' = unsettled \ {call[w].place} BY <1>2, <1>5 DEF M!Done, M!After
  <2>2. QED BY <1>1, <1>5, <2>1, Freed DEF MailInv
<1>6. QED BY <1>3, <1>4, <1>5

\* Every set of mailboxes has an oldest one.
LEMMA OldestIs ==
    ASSUME NEW T, T \subseteq Boxes, T # {}
    PROVE  M!Oldest(T) \in T
<1>1. T \subseteq Nat BY MailAssumption DEF Boxes
<1>2. PICK b \in T : \A c \in T : <<c, b>> \notin OpToRel(<, Nat) BY <1>1, NatLessThanWellFounded, WFMin
<1>3. \A c \in T : ~(c < b) BY <1>1, <1>2 DEF OpToRel
<1>4. \A c \in T : b <= c BY <1>1, <1>3
<1>5. QED BY <1>4 DEF M!Oldest

LEMMA LookHolds ==
    ASSUME MailInv, NEW w \in M!Actors, M!Look(w)
    PROVE  MailInv'
<1>1. /\ call[w].step = "look" /\ UNCHANGED <<boxes, loops, reading, mails, overlapped, doubled, missed, late>>
      /\ IF M!Settled(call[w].place) THEN M!Done(w)
         ELSE M!Put(w, [call[w] EXCEPT !.step = "clear", !.keep = M!Keep(call[w].place)]) /\ unsettled' = unsettled
  BY DEF M!Look, M!records, M!past
<1>2. /\ call[w] # M!Free /\ call[w].place \in Places /\ call[w] \in CallRecords /\ ShapedCall(w)
      /\ call[w].kind = "boot" <=> w = M!Boot
  BY <1>1, FreeCall, WhoseStep DEF MailInv, BoxesTyped, CallsShaped
<1>3. PICK q \in Places : q = call[w].place BY <1>2
<1>4. boxes' \in [Boxes -> BoxRecords] /\ \A b \in Boxes : boxes'[b] = boxes[b] BY <1>1 DEF MailInv, BoxesTyped
<1>5. M!Settled(q)' = M!Settled(q) BY <1>4, SettledStays
<1>6. CASE M!Settled(q)
  <2>1. /\ call' \in [M!Actors -> CallRecords] /\ \A v \in M!Actors \ {w} : call'[v] = call[v]
        /\ call[w].kind # "none" /\ unsettled' = unsettled \ {q}
        /\ \/ call'[w] = M!Free /\ call[w].kind \notin {"connect", "boot"} /\ w # M!Boot
           \/ /\ call'[w] # M!Free /\ call'[w].kind = call[w].kind /\ call'[w].box = call[w].box
              /\ call'[w].place = call[w].place /\ call'[w].left = call[w].left /\ call'[w].keep = call[w].keep
              /\ \/ w # M!Boot /\ call'[w].kind = "connect" /\ call'[w].step = "start"
                 \/ w = M!Boot /\ call'[w].kind = "boot" /\ call'[w].step = "scope"
    BY <1>1, <1>3, <1>6, DoneOne
  <2>2. DefaultsKept'
    <3>1. call'[w].step \notin {"clear", "mark"} /\ Sound(q)' BY <1>5, <1>6, <2>1, FreeCall DEF Sound
    <3>2. \A p \in Places \ {q} : p \in unsettled' <=> p \in unsettled BY <2>1
    <3>3. QED BY <1>1, <1>2, <1>3, <1>4, <2>1, <3>1, <3>2, DefaultsGoOn DEF MailInv
  <2>3. call'[w] = M!Free \/ ShapedCall(w)'
    BY <1>1, <1>2, <2>1 DEF ShapedCall, Born, Boxes
  <2>4. unsettled' \subseteq Places BY <2>1 DEF MailInv, BoxesTyped
  <2>5. QED BY <1>1, <1>4, <2>1, <2>2, <2>3, <2>4, EnsuresInTurn
<1>7. CASE ~M!Settled(q)
  <2>1. M!Open(q) # {} /\ M!Mains(q) \subseteq M!Open(q) /\ M!Open(q) \subseteq Boxes
    BY <1>7 DEF M!Settled, M!Mains, M!Open, M!In
  <2>2. PICK k \in M!Open(q) : k = M!Keep(q) BY <2>1, OldestIs DEF M!Keep
  <2>3. k \in Boxes /\ k \in Nat /\ boxes[k].place = q /\ boxes[k].status = "connected"
    BY <2>1, <2>2, MailAssumption DEF M!Open, M!In, M!Connected, Boxes
  <2>4. M!Put(w, [call[w] EXCEPT !.step = "clear", !.keep = k]) /\ unsettled' = unsettled BY <1>1, <1>3, <1>7, <2>2
  <2>5. /\ call' \in [M!Actors -> CallRecords] /\ \A v \in M!Actors \ {w} : call'[v] = call[v]
        /\ call'[w].kind = call[w].kind /\ call'[w].box = call[w].box /\ call'[w].place = call[w].place
        /\ call'[w].left = call[w].left /\ call'[w].keep = k /\ call'[w].step = "clear"
    <3> DEFINE next == [call[w] EXCEPT !.step = "clear", !.keep = k]
    <3>1. /\ next \in CallRecords /\ next.kind = call[w].kind /\ next.box = call[w].box /\ next.place = call[w].place
          /\ next.left = call[w].left /\ next.keep = k /\ next.step = "clear"
      BY <1>2, <2>3 DEF CallRecords
    <3>2. M!Put(w, next) BY <2>4
    <3> HIDE DEF next
    <3>3. QED BY <3>1, <3>2, PutOne DEF MailInv
  <2>6. ShapedCall(w)' BY <1>1, <1>2, <1>3, <2>3, <2>5, FreeCall DEF ShapedCall, Born, Boxes
  <2>7. call[w].kind \notin {"none", "default"} BY <1>1, <1>2, FreeCall DEF ShapedCall
  <2>8. Choosing(w, q)' BY <1>1, <2>3, <2>5, <2>7 DEF Choosing, M!Connected
  <2>9. DefaultsKept'
    <3>1. call'[w] # M!Free /\ ~Untouched(call'[w]) BY <2>5, <2>7, FreeCall DEF Untouched
    <3>2. QED BY <1>1, <1>2, <1>3, <1>4, <2>4, <2>5, <2>8, <3>1, FreeCall, DefaultsGoOn DEF MailInv
  <2>10. unsettled' \subseteq Places BY <2>4 DEF MailInv, BoxesTyped
  <2>11. QED BY <1>1, <1>4, <2>5, <2>6, <2>7, <2>9, <2>10, EnsuresInTurn
<1>8. QED BY <1>6, <1>7

LEMMA ClearOthersHolds ==
    ASSUME MailInv, NEW w \in M!Actors, M!ClearOthers(w)
    PROVE  MailInv'
<1>1. /\ call[w].step = "clear" /\ M!Go(w, "mark")
      /\ boxes' = [b \in Boxes |-> IF b \in M!In(call[w].place) /\ b # call[w].keep
                                   THEN [boxes[b] EXCEPT !.main = FALSE] ELSE boxes[b]]
      /\ UNCHANGED <<loops, reading, mails, overlapped, doubled, missed, late, unsettled>>
  BY DEF M!ClearOthers, M!past
<1>2. /\ call[w] # M!Free /\ call[w].kind # "none" /\ call[w].place \in Places /\ ShapedCall(w)
      /\ call[w].kind = "boot" <=> w = M!Boot
  BY <1>1, FreeCall, WhoseStep DEF MailInv, CallsShaped
<1>3. PICK q \in Places : q = call[w].place BY <1>2
<1>4. /\ call' \in [M!Actors -> CallRecords] /\ \A v \in M!Actors \ {w} : call'[v] = call[v]
      /\ call'[w].kind = call[w].kind /\ call'[w].box = call[w].box /\ call'[w].place = call[w].place
      /\ call'[w].left = call[w].left /\ call'[w].keep = call[w].keep /\ call'[w].main = call[w].main
      /\ call'[w].step = "mark"
  BY <1>1, GoOne DEF MailInv
<1>5. PICK k \in Boxes : k = call[w].keep /\ boxes[k].place = q BY <1>1, <1>2, <1>3 DEF ShapedCall, Born
<1>6. \A b \in Boxes : /\ boxes'[b] \in BoxRecords
                       /\ boxes'[b].status = boxes[b].status /\ boxes'[b].place = boxes[b].place
                       /\ boxes'[b].address = boxes[b].address
                       /\ boxes'[b].main = (boxes[b].main /\ (b \notin M!In(q) \/ b = k))
                       /\ b \notin M!In(q) \/ b = k => boxes'[b] = boxes[b]
  <2> SUFFICES ASSUME NEW b \in Boxes
               PROVE  /\ boxes'[b] \in BoxRecords
                      /\ boxes'[b].status = boxes[b].status /\ boxes'[b].place = boxes[b].place
                      /\ boxes'[b].address = boxes[b].address
                      /\ boxes'[b].main = (boxes[b].main /\ (b \notin M!In(q) \/ b = k))
                      /\ b \notin M!In(q) \/ b = k => boxes'[b] = boxes[b]
    OBVIOUS
  <2>1. boxes[b] \in BoxRecords /\ boxes[b].main \in BOOLEAN BY DEF MailInv, BoxesTyped, BoxRecords
  <2>2. CASE b \in M!In(q) /\ b # k
    <3>1. boxes'[b] = [boxes[b] EXCEPT !.main = FALSE] BY <1>1, <1>3, <1>5, <2>2
    <3>2. QED BY <2>1, <2>2, <3>1 DEF BoxRecords
  <2>3. CASE ~(b \in M!In(q) /\ b # k)
    <3>1. boxes'[b] = boxes[b] BY <1>1, <1>3, <1>5, <2>3
    <3>2. QED BY <2>1, <2>3, <3>1
  <2>4. QED BY <2>2, <2>3
<1>7. boxes' \in [Boxes -> BoxRecords] BY <1>1, <1>6
<1>8. ShapedCall(w)' BY <1>1, <1>2, <1>3, <1>4, <1>5, <1>6, FreeCall DEF ShapedCall, Born, Boxes
<1>9. q \notin overlapped => Choosing(w, q)'
  <2> SUFFICES ASSUME q \notin overlapped PROVE Choosing(w, q)' OBVIOUS
  <2>1. Choosing(w, q) BY DEF MailInv, DefaultsKept, DefaultOf
  <2>2. M!Connected(k) /\ (call[w].kind = "default" /\ call[w].main => boxes[k].main)
    BY <1>1, <1>3, <1>5, <2>1 DEF Choosing
  <2>3. boxes'[k] = boxes[k] BY <1>6
  <2>4. \A b \in M!In(q)' : boxes'[b].main => b = k BY <1>6 DEF M!In, M!Exists, Boxes
  <2>5. QED BY <1>3, <1>4, <1>5, <2>2, <2>3, <2>4 DEF Choosing, M!Connected
<1>10. DefaultsKept'
  <2>1. \A b \in Boxes : \/ boxes'[b] = boxes[b]
                         \/ /\ boxes[b].place = q \/ ~M!Exists(b)
                            /\ boxes'[b].place = q \/ ~M!Exists(b)'
    BY <1>6 DEF M!In
  <2>2. call'[w] # M!Free /\ ~Untouched(call'[w]) BY <1>4, FreeCall DEF Untouched
  <2>3. QED BY <1>1, <1>2, <1>3, <1>4, <1>9, <2>1, <2>2, DefaultsGoOn DEF MailInv
<1>11. unsettled' \subseteq Places BY <1>1 DEF MailInv, BoxesTyped
<1>12. QED BY <1>1, <1>2, <1>4, <1>6, <1>7, <1>8, <1>10, <1>11, EnsuresInTurn

LEMMA MarkKeptHolds ==
    ASSUME MailInv, NEW w \in M!Actors, M!MarkKept(w)
    PROVE  MailInv'
<1>1. /\ call[w].step = "mark" /\ M!Done(w)
      /\ boxes' = [boxes EXCEPT ![call[w].keep].main =
                      IF M!Exists(call[w].keep) /\ ~(call[w].kind = "default" /\ call[w].main) THEN TRUE ELSE @]
      /\ UNCHANGED <<loops, reading, mails, overlapped, doubled, missed, late>>
  BY DEF M!MarkKept, M!past
<1>2. /\ call[w] # M!Free /\ call[w].place \in Places /\ ShapedCall(w)
      /\ call[w].kind = "boot" <=> w = M!Boot
  BY <1>1, FreeCall, WhoseStep DEF MailInv, CallsShaped
<1>3. PICK q \in Places : q = call[w].place BY <1>2
<1>4. PICK k \in Boxes : k = call[w].keep /\ boxes[k].place = q /\ boxes[k].status # "unborn"
  BY <1>1, <1>2, <1>3 DEF ShapedCall, Born
<1>5. /\ boxes' \in [Boxes -> BoxRecords] /\ \A b \in Boxes \ {k} : boxes'[b] = boxes[b]
      /\ boxes'[k].status = boxes[k].status /\ boxes'[k].place = boxes[k].place
      /\ boxes'[k].address = boxes[k].address
      /\ boxes'[k].main = IF M!Exists(k) /\ ~(call[w].kind = "default" /\ call[w].main) THEN TRUE ELSE boxes[k].main
  <2> DEFINE record == [boxes[k] EXCEPT !.main = IF M!Exists(k) /\ ~(call[w].kind = "default" /\ call[w].main)
                                                 THEN TRUE ELSE @]
  <2>1. boxes[k] \in BoxRecords BY DEF MailInv, BoxesTyped
  <2>2. /\ record \in BoxRecords /\ record.status = boxes[k].status /\ record.place = boxes[k].place
        /\ record.address = boxes[k].address
        /\ record.main = IF M!Exists(k) /\ ~(call[w].kind = "default" /\ call[w].main) THEN TRUE ELSE boxes[k].main
    BY <2>1 DEF BoxRecords
  <2>3. boxes' = [boxes EXCEPT ![k] = record] BY <1>1, <1>4
  <2> HIDE DEF record
  <2>4. QED BY <2>2, <2>3 DEF MailInv, BoxesTyped
<1>6. /\ call' \in [M!Actors -> CallRecords] /\ \A v \in M!Actors \ {w} : call'[v] = call[v]
      /\ call[w].kind # "none" /\ unsettled' = unsettled \ {call[w].place}
      /\ \/ call'[w] = M!Free /\ call[w].kind \notin {"connect", "boot"} /\ w # M!Boot
         \/ /\ call'[w] # M!Free /\ call'[w].kind = call[w].kind /\ call'[w].box = call[w].box
            /\ call'[w].place = call[w].place /\ call'[w].left = call[w].left /\ call'[w].keep = call[w].keep
            /\ \/ w # M!Boot /\ call'[w].kind = "connect" /\ call'[w].step = "start"
               \/ w = M!Boot /\ call'[w].kind = "boot" /\ call'[w].step = "scope"
  BY <1>1, DoneOne
<1>7. q \notin overlapped => M!Settled(q)'
  <2> SUFFICES ASSUME q \notin overlapped PROVE M!Settled(q)' OBVIOUS
  <2>1. Choosing(w, q) BY DEF MailInv, DefaultsKept, DefaultOf
  <2>2. /\ M!Connected(k) /\ \A b \in M!In(q) : boxes[b].main => b = k
        /\ call[w].kind = "default" /\ call[w].main => boxes[k].main
    BY <1>1, <1>3, <1>4, <2>1 DEF Choosing
  <2>3. boxes'[k].main = TRUE BY <1>5, <2>2 DEF M!Connected, M!Exists
  <2>4. k \in M!Open(q)' /\ k \in M!Mains(q)'
    BY <1>4, <1>5, <2>2, <2>3 DEF M!Open, M!Mains, M!In, M!Connected, M!Exists, Boxes
  <2>5. \A b \in M!Mains(q)' : b = k
    BY <1>5, <2>2 DEF M!Open, M!Mains, M!In, M!Exists, Boxes
  <2>6. M!Mains(q)' = {k} BY <2>4, <2>5
  <2>7. M!Cardinality(M!Mains(q)') = 1 BY <2>6, FS_Singleton, MailCounted
  <2>8. QED BY <2>7 DEF M!Settled
<1>8. call'[w] = M!Free \/ ShapedCall(w)' BY <1>1, <1>2, <1>5, <1>6 DEF ShapedCall, Born, Boxes
<1>9. DefaultsKept'
  <2>1. \A b \in Boxes : \/ boxes'[b] = boxes[b]
                         \/ /\ boxes[b].place = q \/ ~M!Exists(b)
                            /\ boxes'[b].place = q \/ ~M!Exists(b)'
    BY <1>4, <1>5
  <2>2. call'[w].step \notin {"clear", "mark"} /\ (q \notin overlapped => Sound(q)') BY <1>6, <1>7, FreeCall DEF Sound
  <2>3. \A p \in Places \ {q} : p \in unsettled' <=> p \in unsettled BY <1>3, <1>6
  <2>4. QED BY <1>1, <1>2, <1>3, <1>6, <2>1, <2>2, <2>3, DefaultsGoOn DEF MailInv
<1>10. unsettled' \subseteq Places BY <1>6 DEF MailInv, BoxesTyped
<1>11. QED BY <1>1, <1>5, <1>6, <1>8, <1>9, <1>10, EnsuresInTurn

-----------------------------------------------------------------------------
(* The loops. *)

\* What a loop does is nothing to the calls.
LEMMA CallsStay ==
    ASSUME MailInv, UNCHANGED <<boxes, call, overlapped, doubled, unsettled>>
    PROVE  InTurn' /\ CallsShaped' /\ AddressesKept' /\ RoomKept' /\ DefaultsKept'
<1>1. M!Boot \in M!Actors BY WhoActs
<1>2. ShapedCall(M!Boot)' BY <1>1 DEF MailInv, CallsShaped, ShapedCall, Born, Boxes
<1>3. CallsShaped' BY <1>1, <1>2, ShapesStay DEF MailInv
<1>4. InTurn' BY InTurnStays DEF MailInv
<1>5. AddressesKept' BY AddressesStay DEF MailInv, M!Exists
<1>6. RoomKept' BY RoomStays DEF MailInv
<1>7. DefaultsKept' BY DefaultsStay DEF MailInv
<1>8. QED BY <1>3, <1>4, <1>5, <1>6, <1>7

LEMMA ReadingHolds ==
    ASSUME MailInv, NEW b \in Boxes, M!Connected(b), reading[b] = "rest", M!StartReading(b),
           UNCHANGED <<boxes, loops, mails, call, overlapped, doubled, missed, unsettled>>
    PROVE  MailInv'
<1>1. /\ reading' = [reading EXCEPT ![b] = "reading"]
      /\ late' = IF M!Removing(b) THEN late \cup {b} ELSE late
  BY DEF M!StartReading
<1>2. BoxesTyped' BY <1>1 DEF MailInv, BoxesTyped
<1>3. \A c \in Boxes : reading'[c] = reading[c] \/ (c = b /\ reading'[c] = "reading")
  BY <1>1 DEF MailInv, BoxesTyped
<1>4. LoopsKept' BY <1>3, LoopsStay DEF MailInv
<1>5. MailsKept'
  <2> SUFFICES ASSUME NEW c \in Boxes, c \notin late' PROVE MailsOf(c)' BY DEF MailsKept, MailsOf, Boxes
  <2>1. MailsOf(c) /\ (c = b => ~M!Removing(b)) BY <1>1 DEF MailInv, MailsKept, MailsOf
  <2>2. CASE c = b BY <2>1, <2>2, <1>1 DEF MailsOf, M!Removing, M!Connected
  <2>3. CASE c # b BY <1>1, <1>3, <2>1, <2>3 DEF MailsOf
  <2>4. QED BY <2>2, <2>3
<1>6. QED BY <1>2, <1>4, <1>5, CallsStay DEF MailInv

LEMMA TickRefusedHolds ==
    ASSUME MailInv, NEW b \in Boxes, M!TickRefused(b)
    PROVE  MailInv'
<1>1. /\ b \in loops /\ ~M!Connected(b) /\ reading' = [reading EXCEPT ![b] = "ending"]
      /\ UNCHANGED <<boxes, loops, mails, call, overlapped, doubled, missed, late, unsettled>>
  BY DEF M!TickRefused, M!Refused, M!past
<1>2. BoxesTyped' BY <1>1 DEF MailInv, BoxesTyped
<1>3. \A c \in Boxes : reading'[c] = reading[c] \/ (c = b /\ reading'[c] = "ending")
  BY <1>1 DEF MailInv, BoxesTyped
<1>4. LoopsKept'
  <2> SUFFICES ASSUME NEW c \in Boxes PROVE LoopOf(c)' BY DEF LoopsKept, Boxes
  <2>1. CASE c # b BY <1>1, <1>3, <2>1, LoopStays DEF MailInv
  <2>2. CASE c = b
    <3>1. LoopOf(c) BY DEF MailInv, LoopsKept
    <3>2. QED BY <1>1, <2>2, <3>1 DEF LoopOf, M!Connected
  <2>3. QED BY <2>1, <2>2
<1>5. MailsKept' BY <1>1, <1>3, MailsStay DEF MailInv
<1>6. QED BY <1>1, <1>2, <1>4, <1>5, CallsStay DEF MailInv

LEMMA EndLoopHolds ==
    ASSUME MailInv, NEW b \in Boxes, M!EndLoop(b)
    PROVE  MailInv'
<1>1. /\ reading[b] = "ending" /\ loops' = loops \ {b} /\ reading' = [reading EXCEPT ![b] = "rest"]
      /\ UNCHANGED <<boxes, mails, call, overlapped, doubled, missed, late, unsettled>>
  BY DEF M!EndLoop, M!past
<1>2. BoxesTyped' BY <1>1 DEF MailInv, BoxesTyped
<1>3. \A c \in Boxes : reading'[c] = reading[c] \/ (c = b /\ reading'[c] = "rest")
  BY <1>1 DEF MailInv, BoxesTyped
<1>4. LoopsKept'
  <2> SUFFICES ASSUME NEW c \in Boxes PROVE LoopOf(c)' BY DEF LoopsKept, Boxes
  <2>1. CASE c # b BY <1>1, <1>3, <2>1, LoopStays DEF MailInv
  <2>2. CASE c = b
    <3>1. LoopOf(c) BY DEF MailInv, LoopsKept
    <3>2. QED BY <1>1, <1>3, <2>2, <3>1 DEF LoopOf, M!Connected
  <2>3. QED BY <2>1, <2>2
<1>5. MailsKept' BY <1>1, <1>3, MailsStay DEF MailInv
<1>6. QED BY <1>1, <1>2, <1>4, <1>5, CallsStay DEF MailInv

LEMMA EndReadingHolds ==
    ASSUME MailInv, NEW b \in Boxes, M!EndReading(b)
    PROVE  MailInv'
<1>1. /\ reading[b] = "reading" /\ mails' \in {mails, mails \cup {b}} /\ reading' = [reading EXCEPT ![b] = "rest"]
      /\ UNCHANGED <<boxes, loops, call, overlapped, doubled, missed, late, unsettled>>
  BY DEF M!EndReading, M!past
<1>2. BoxesTyped' BY <1>1 DEF MailInv, BoxesTyped
<1>3. \A c \in Boxes : reading'[c] = reading[c] \/ (c = b /\ reading'[c] = "rest")
  BY <1>1 DEF MailInv, BoxesTyped
<1>4. LoopsKept' BY <1>1, <1>3, LoopsStay DEF MailInv
<1>5. MailsKept'
  <2> SUFFICES ASSUME NEW c \in Boxes, c \notin late PROVE MailsOf(c)' BY <1>1 DEF MailsKept, MailsOf, Boxes
  <2>1. MailsOf(c) BY DEF MailInv, MailsKept
  <2>2. CASE c = b
    <3>1. boxes[b].status # "gone" /\ \A w \in Calls : call[w].box = b => call[w].step \notin {"mails", "delete"}
      BY <1>1, <2>1, <2>2 DEF MailsOf
    <3>2. QED BY <1>1, <2>2, <3>1 DEF MailsOf
  <2>3. CASE c # b
    <3>1. c \in mails' <=> c \in mails BY <1>1, <2>3
    <3>2. QED BY <1>1, <1>3, <2>1, <2>3, <3>1 DEF MailsOf
  <2>4. QED BY <2>2, <2>3
<1>6. QED BY <1>1, <1>2, <1>4, <1>5, CallsStay DEF MailInv

-----------------------------------------------------------------------------
(* The start-up. *)

\* While the start-up is at work only its own record changes.
LEMMA BootsInTurn ==
    ASSUME MailInv, NEW record \in CallRecords, M!Put(M!Boot, record), ShapedCall(M!Boot)',
           UNCHANGED <<boxes, reading, mails, overlapped, doubled, missed, late, unsettled>>
    PROVE  /\ InTurn' /\ CallsShaped' /\ AddressesKept' /\ RoomKept' /\ MailsKept'
           /\ call' \in [M!Actors -> CallRecords] /\ call'[M!Boot] = record
           /\ \A v \in M!Actors \ {M!Boot} : call'[v] = call[v]
           /\ \A v \in Calls : v \in M!Actors /\ call'[v] = call[v]
           /\ loops' \subseteq Boxes => BoxesTyped'
<1>1. M!Boot \in M!Actors BY WhoActs
<1>2. /\ call' \in [M!Actors -> CallRecords] /\ call'[M!Boot] = record
      /\ \A v \in M!Actors \ {M!Boot} : call'[v] = call[v]
  BY <1>1, PutOne DEF MailInv
<1>3. \A v \in Calls : v \in M!Actors /\ call'[v] = call[v] BY <1>2, WhoActs
<1>4. InTurn' BY InTurnStays DEF MailInv
<1>5. CallsShaped' BY <1>1, <1>2, ShapesStay DEF MailInv
<1>6. AddressesKept' BY <1>3, AddressesStay DEF MailInv, M!Exists
<1>7. RoomKept' BY <1>3, RoomStays DEF MailInv
<1>8. MailsKept' BY <1>3, MailsStay DEF MailInv
<1>9. loops' \subseteq Boxes => BoxesTyped' BY <1>2 DEF MailInv, BoxesTyped
<1>10. QED BY <1>2, <1>3, <1>4, <1>5, <1>6, <1>7, <1>8, <1>9

\* Nobody else is at work on a place during the start-up, unless they overlapped.
LEMMA BootAlone ==
    ASSUME MailInv, call[M!Boot] # M!Free, NEW p \in Places, p \notin overlapped
    PROVE  \A v \in Calls : call[v].place = p => call[v] = M!Free
<1>1. M!Boot \in M!Actors BY WhoActs
<1>2. \A v \in M!Actors \ {M!Boot} : call[v] = M!Free \/ (v # M!Boot /\ call[v].place # p)
  BY <1>1, Alone DEF MailInv
<1>3. QED BY <1>2, WhoActs

\* What the defaults need while the start-up goes on, no mailbox changed.
LEMMA BootDefaults ==
    ASSUME MailInv, boxes' = boxes, UNCHANGED <<overlapped, unsettled>>, call[M!Boot] # M!Free,
           \A v \in Calls : call'[v] = call[v], call'[M!Boot].step \notin {"clear", "mark"},
           NEW p \in Places, p \notin overlapped,
           \/ call'[M!Boot] = M!Free /\ Sound(p)
           \/ /\ call'[M!Boot] # M!Free
              /\ call'[M!Boot].step \in {"scope", "look"} =>
                    \/ p \in call'[M!Boot].left
                    \/ p = call'[M!Boot].place /\ call'[M!Boot].step # "scope"
                    \/ Sound(p)
    PROVE  DefaultOf(p)'
<1>1. M!In(p)' = M!In(p) /\ M!Open(p)' = M!Open(p) /\ M!Mains(p)' = M!Mains(p) /\ M!Settled(p)' = M!Settled(p)
  BY SettledStays
<1>2. \A v \in Calls : call'[v].place = p => call'[v] = M!Free BY BootAlone
<1>3. \A v \in M!Working(p)' : v = M!Boot BY <1>2, WhoActs DEF M!Working
<1>4. call'[M!Boot] # M!Free => M!Boot \in M!Working(p)' BY WhoActs DEF M!Working
<1>5. \A v \in M!Actors : Choosing(v, p)' BY <1>2, WhoActs, FreeCall DEF Choosing
<1>6. \A v \in Calls : call'[v].place = p => call'[v].step = "rest" BY <1>2, FreeCall
<1>7. Sound(p)' = Sound(p) BY <1>1 DEF Sound
<1>8. QED BY <1>3, <1>4, <1>5, <1>6, <1>7, FreeCall DEF DefaultOf, Untouched

LEMMA BootScopesHolds ==
    ASSUME MailInv, M!BootScopes
    PROVE  MailInv'
<1> DEFINE record == [call[M!Boot] EXCEPT !.step = "scope", !.left = {p \in Places : M!In(p) # {}}]
<1>1. /\ call[M!Boot].step = "scopes" /\ M!Put(M!Boot, record)
      /\ UNCHANGED <<boxes, loops, reading, mails, overlapped, doubled, missed, late, unsettled>>
  BY DEF M!BootScopes, M!records, M!past
<1>2. call[M!Boot] # M!Free /\ call[M!Boot].kind = "boot" /\ call[M!Boot] \in CallRecords /\ M!Boot \in M!Actors
  BY <1>1, WhoActs, FreeCall, WhoseStep DEF MailInv, BoxesTyped
<1>3. /\ record \in CallRecords /\ record.step = "scope" /\ record.kind = "boot"
      /\ record.left = {p \in Places : M!In(p) # {}}
  BY <1>2 DEF CallRecords
<1> HIDE DEF record
<1>4. call'[M!Boot] = record BY <1>1, <1>2, <1>3, PutOne DEF MailInv
<1>5. ShapedCall(M!Boot)' BY <1>3, <1>4 DEF ShapedCall
<1>6. /\ InTurn' /\ CallsShaped' /\ AddressesKept' /\ RoomKept' /\ MailsKept' /\ BoxesTyped'
      /\ \A v \in Calls : v \in M!Actors /\ call'[v] = call[v]
  BY <1>1, <1>3, <1>5, BootsInTurn DEF MailInv, BoxesTyped
<1>7. DefaultsKept'
  <2> SUFFICES ASSUME NEW p \in Places, p \notin overlapped PROVE DefaultOf(p)'
    BY <1>1 DEF DefaultsKept, DefaultOf
  <2>1. p \notin record.left => Sound(p) BY <1>3 DEF M!Settled, M!Open, Sound
  <2>2. call'[M!Boot] # M!Free BY <1>3, <1>4, FreeCall
  <2>3. QED BY <1>1, <1>2, <1>3, <1>4, <1>6, <2>1, <2>2, BootDefaults
<1>8. LoopsKept'
  <2>1. call'[M!Boot] # M!Free BY <1>3, <1>4, FreeCall
  <2>2. QED BY <1>1, <1>2, <1>6, <2>1, LoopsStay DEF MailInv
<1>9. QED BY <1>6, <1>7, <1>8 DEF MailInv

LEMMA BootScopeHolds ==
    ASSUME MailInv, M!BootScope
    PROVE  MailInv'
<1>1. PICK p0 \in call[M!Boot].left : M!Put(M!Boot, [call[M!Boot] EXCEPT !.step = "look", !.place = p0, !.left = @ \ {p0}])
  BY DEF M!BootScope
<1> DEFINE record == [call[M!Boot] EXCEPT !.step = "look", !.place = p0, !.left = @ \ {p0}]
<1>2. /\ call[M!Boot].step = "scope"
      /\ UNCHANGED <<boxes, loops, reading, mails, overlapped, doubled, missed, late, unsettled>>
  BY DEF M!BootScope, M!records, M!past
<1>3. call[M!Boot] # M!Free /\ call[M!Boot].kind = "boot" /\ call[M!Boot] \in CallRecords /\ M!Boot \in M!Actors
  BY <1>2, WhoActs, FreeCall, WhoseStep DEF MailInv, BoxesTyped
<1>4. /\ record \in CallRecords /\ record.step = "look" /\ record.kind = "boot" /\ record.place = p0
      /\ record.left = call[M!Boot].left \ {p0}
  BY <1>3 DEF CallRecords
<1> HIDE DEF record
<1>5. call'[M!Boot] = record BY <1>1, <1>3, <1>4, PutOne DEF MailInv, record
<1>6. ShapedCall(M!Boot)' BY <1>4, <1>5 DEF ShapedCall
<1>7. /\ InTurn' /\ CallsShaped' /\ AddressesKept' /\ RoomKept' /\ MailsKept' /\ BoxesTyped'
      /\ \A v \in Calls : v \in M!Actors /\ call'[v] = call[v]
  BY <1>1, <1>2, <1>4, <1>6, BootsInTurn DEF MailInv, BoxesTyped, record
<1>8. DefaultsKept'
  <2> SUFFICES ASSUME NEW p \in Places, p \notin overlapped PROVE DefaultOf(p)'
    BY <1>2 DEF DefaultsKept, DefaultOf
  <2>1. p \in call[M!Boot].left \/ Sound(p) BY <1>2 DEF MailInv, DefaultsKept, DefaultOf
  <2>2. call'[M!Boot] # M!Free BY <1>4, <1>5, FreeCall
  <2>3. QED BY <1>2, <1>3, <1>4, <1>5, <1>7, <2>1, <2>2, BootDefaults
<1>9. LoopsKept'
  <2>1. call'[M!Boot] # M!Free BY <1>4, <1>5, FreeCall
  <2>2. QED BY <1>2, <1>3, <1>7, <2>1, LoopsStay DEF MailInv
<1>10. QED BY <1>7, <1>8, <1>9 DEF MailInv

LEMMA BootLoopsHolds ==
    ASSUME MailInv, M!BootLoops
    PROVE  MailInv'
<1>1. /\ call[M!Boot].step = "scope" /\ call[M!Boot].left = {} /\ M!Put(M!Boot, M!Free)
      /\ loops' = loops \cup {b \in Boxes : M!Connected(b)}
      /\ UNCHANGED <<boxes, reading, mails, overlapped, doubled, missed, late, unsettled>>
  BY DEF M!BootLoops, M!past
<1>2. call[M!Boot] # M!Free /\ M!Boot \in M!Actors BY <1>1, WhoActs, FreeCall
<1>3. call'[M!Boot] = M!Free BY <1>1, <1>2, Freed DEF MailInv
<1>4. ShapedCall(M!Boot)' BY <1>3, FreeIsShaped
<1>5. loops' \subseteq Boxes BY <1>1 DEF MailInv, BoxesTyped
<1>6. /\ InTurn' /\ CallsShaped' /\ AddressesKept' /\ RoomKept' /\ MailsKept' /\ BoxesTyped'
      /\ \A v \in Calls : v \in M!Actors /\ call'[v] = call[v]
  BY <1>1, <1>4, <1>5, FreeCall, BootsInTurn
<1>7. DefaultsKept'
  <2> SUFFICES ASSUME NEW p \in Places, p \notin overlapped PROVE DefaultOf(p)'
    BY <1>1 DEF DefaultsKept, DefaultOf
  <2>1. Sound(p) BY <1>1 DEF MailInv, DefaultsKept, DefaultOf
  <2>2. QED BY <1>1, <1>2, <1>3, <1>6, <2>1, FreeCall, BootDefaults
<1>8. LoopsKept'
  <2> SUFFICES ASSUME NEW b \in Boxes, boxes'[b].place \notin overlapped' PROVE LoopOf(b)' BY DEF LoopsKept, LoopOf, Boxes
  <2>1. LoopOf(b) BY DEF MailInv, LoopsKept
  <2>2. reading[b] # "ending" /\ boxes[b].place \notin overlapped BY <1>1, <1>2, <2>1 DEF LoopOf
  <2>3. \A v \in Calls : call'[v].box = b => /\ call'[v].step = "stop" => ~M!Connected(b)'
                                             /\ call'[v].step = "close" => call'[v].status = boxes'[b].status
    BY <1>1, <1>6, <2>1, <2>2 DEF LoopOf, M!Connected
  <2>4. M!Connected(b)' => b \in loops' BY <1>1 DEF M!Connected
  <2>5. QED BY <1>1, <1>3, <2>2, <2>3, <2>4 DEF LoopOf
<1>9. QED BY <1>6, <1>7, <1>8 DEF MailInv

\* Where the start-up ends early, what it has not seen to is named.
LEMMA BootFailsHolds ==
    ASSUME MailInv, M!CallFails(M!Boot)
    PROVE  MailInv'
<1>1. /\ call[M!Boot] # M!Free /\ M!Put(M!Boot, M!Free)
      /\ unsettled' = unsettled \cup M!Undecided(M!Boot) /\ missed' = missed \cup M!Unlooped(M!Boot)
      /\ UNCHANGED <<boxes, loops, reading, mails, overlapped, doubled, late>>
  BY DEF M!CallFails, M!records
<1>2. M!Boot \in M!Actors /\ ShapedCall(M!Boot) /\ call[M!Boot].place \in Places
  BY WhoActs, WhoseStep DEF MailInv, CallsShaped
<1>3. call' \in [M!Actors -> CallRecords] /\ call'[M!Boot] = M!Free /\ \A v \in M!Actors \ {M!Boot} : call'[v] = call[v]
  BY <1>1, <1>2, Freed DEF MailInv
<1>4. \A v \in Calls : v \in M!Actors /\ call'[v] = call[v] BY <1>3, WhoActs
<1>5. InTurn' BY <1>1, InTurnStays DEF MailInv
<1>6. CallsShaped'
  <2>1. ShapedCall(M!Boot)' BY <1>3, FreeIsShaped
  <2>2. QED BY <1>1, <1>2, <1>3, <2>1, ShapesStay DEF MailInv
<1>7. AddressesKept' BY <1>1, <1>4, AddressesStay DEF MailInv, M!Exists
<1>8. RoomKept' BY <1>1, <1>4, RoomStays DEF MailInv
<1>9. MailsKept' BY <1>1, <1>4, MailsStay DEF MailInv
<1>10. BoxesTyped'
  <2>1. unsettled' \subseteq Places /\ missed' \subseteq Boxes
    BY <1>1 DEF MailInv, BoxesTyped, M!Undecided, M!Unlooped
  <2>2. QED BY <1>1, <1>3, <2>1 DEF MailInv, BoxesTyped
<1>11. DefaultsKept'
  <2> SUFFICES ASSUME NEW p \in Places, p \notin overlapped PROVE DefaultOf(p)'
    BY <1>1 DEF DefaultsKept, DefaultOf
  <2>1. M!Settled(p) \/ p \in unsettled'
    <3>1. call[M!Boot].step \in {"scopes", "scope", "look", "clear", "mark"} /\ call[M!Boot].kind = "boot"
      BY <1>1, <1>2, WhoseStep DEF ShapedCall, MailInv
    <3>2. CASE call[M!Boot].step = "scopes" BY <1>1, <3>2 DEF M!Undecided
    <3>3. CASE call[M!Boot].step # "scopes"
      <4>1. \/ p \in call[M!Boot].left
            \/ p = call[M!Boot].place /\ call[M!Boot].step # "scope"
            \/ Sound(p)
        BY <3>1, <3>3 DEF MailInv, DefaultsKept, DefaultOf
      <4>2. QED BY <1>1, <3>1, <3>3, <4>1 DEF M!Undecided, Sound
    <3>4. QED BY <3>2, <3>3
  <2>2. M!Settled(p)' = M!Settled(p) BY <1>1, SettledStays
  <2>3. Sound(p)' BY <2>1, <2>2 DEF Sound
  <2>4. \A v \in Calls : call'[v].place = p => call'[v] = M!Free BY <1>1, <1>4, BootAlone
  <2>5. M!Working(p)' = {} BY <1>3, <2>4, WhoActs DEF M!Working
  <2>6. \A v \in M!Actors : Choosing(v, p)' BY <1>3, <2>4, WhoActs, FreeCall DEF Choosing
  <2>7. \A v \in Calls : call'[v].place = p => ~Untouched(call'[v]) BY <2>4, FreeCall DEF Untouched
  <2>8. QED BY <1>3, <2>3, <2>5, <2>6, <2>7, FreeCall DEF DefaultOf
<1>12. LoopsKept'
  <2> SUFFICES ASSUME NEW b \in Boxes, boxes'[b].place \notin overlapped' PROVE LoopOf(b)' BY DEF LoopsKept, LoopOf, Boxes
  <2>1. LoopOf(b) /\ boxes[b].place \notin overlapped BY <1>1 DEF MailInv, LoopsKept
  <2>2. M!Connected(b)' => b \in missed' BY <1>1 DEF M!Unlooped, M!Connected
  <2>3. \A v \in Calls : call'[v].box = b => /\ call'[v].step = "stop" => ~M!Connected(b)'
                                             /\ call'[v].step = "close" => call'[v].status = boxes'[b].status
    BY <1>1, <1>4, <2>1 DEF LoopOf, M!Connected
  <2>4. QED BY <1>3, <2>2, <2>3 DEF LoopOf
<1>13. QED BY <1>5, <1>6, <1>7, <1>8, <1>9, <1>10, <1>11, <1>12 DEF MailInv

LEMMA CrashHolds ==
    ASSUME MailInv, M!Crash
    PROVE  MailInv'
<1>1. /\ loops' = {} /\ reading' = [b \in Boxes |-> "rest"] /\ overlapped' = {} /\ missed' = {} /\ unsettled' = {}
      /\ call' = [w \in M!Actors |-> IF w = M!Boot THEN M!Starting ELSE M!Free]
      /\ late' = late \cup {b \in Boxes : M!Removing(b)}
      /\ UNCHANGED <<boxes, mails, doubled>>
  BY DEF M!Crash
<1>2. M!Starting \in CallRecords /\ M!Starting.kind = "boot" /\ M!Starting.step = "scopes"
  BY FreeCall DEF M!Starting, CallRecords
<1>3. /\ call' \in [M!Actors -> CallRecords] /\ call'[M!Boot] = M!Starting
      /\ \A v \in M!Actors : v # M!Boot => call'[v] = M!Free
  BY <1>1, <1>2, FreeCall, WhoActs
<1>4. call'[M!Boot] # M!Free BY <1>2, <1>3, FreeCall
<1>5. \A v \in Calls : call'[v] = M!Free /\ call'[v].step = "rest" /\ call'[v].kind = "none"
  BY <1>3, FreeCall, WhoActs
<1>6. BoxesTyped' BY <1>1, <1>3 DEF MailInv, BoxesTyped
<1>7. InTurn' BY <1>1, InTurnStays DEF MailInv
<1>8. CallsShaped' BY <1>2, <1>3, FreeCall DEF CallsShaped, ShapedCall
<1>9. AddressesKept' BY <1>1, <1>5, AddressesStay DEF MailInv, M!Exists
<1>10. RoomKept' BY <1>1, <1>5, RoomStays DEF MailInv
<1>11. DefaultsKept'
  <2> SUFFICES ASSUME NEW p \in Places PROVE DefaultOf(p)' BY DEF DefaultsKept
  <2>1. M!Working(p)' = {M!Boot} BY <1>3, <1>4, WhoActs DEF M!Working
  <2>2. \A v \in M!Actors : Choosing(v, p)' BY <1>2, <1>3, FreeCall DEF Choosing
  <2>3. QED BY <1>2, <1>3, <1>5, <2>1, <2>2 DEF DefaultOf, Untouched
<1>12. LoopsKept'
  <2> SUFFICES ASSUME NEW b \in Boxes PROVE LoopOf(b)' BY DEF LoopsKept, Boxes
  <2>1. b \notin loops' /\ reading'[b] # "ending" BY <1>1
  <2>2. QED BY <1>4, <1>5, <2>1 DEF LoopOf
<1>13. MailsKept' BY <1>1, <1>5, MailsStay DEF MailInv
<1>14. QED BY <1>6, <1>7, <1>8, <1>9, <1>10, <1>11, <1>12, <1>13 DEF MailInv

-----------------------------------------------------------------------------
(* The mailboxes, in every behaviour. *)

LEMMA MailBegins == MCInit => MailInv
<1> SUFFICES ASSUME MCInit PROVE MailInv OBVIOUS
<1> DEFINE before == doing.before
<1>1. /\ doing \in MailScenes
      /\ boxes = [b \in Boxes |-> IF b \in DOMAIN before THEN before[b] ELSE M!Unborn(CHOOSE p \in Places : TRUE)]
      /\ loops = {} /\ mails = {b \in Boxes : M!Exists(b)}
      /\ reading = [b \in Boxes |-> "rest"]
      /\ call = [w \in M!Actors |-> IF w = M!Boot /\ \E b \in Boxes : M!Exists(b) THEN M!Starting ELSE M!Free]
      /\ overlapped = {} /\ doubled = FALSE /\ missed = {} /\ late = {} /\ unsettled = {}
  BY DEF MCInit, M!Init
<1>2. BeginsWith(before) BY <1>1, MailAssumption
<1> HIDE DEF before
<1>3. PICK n \in 0..MaxBoxes :
        before \in [1..n -> [status : {"connected", "disconnected"}, main : BOOLEAN, place : Places, address : Addresses]]
  BY <1>2 DEF BeginsWith
<1> DEFINE unborn == M!Unborn(CHOOSE p \in Places : TRUE)
<1>4. unborn \in BoxRecords /\ unborn.status = "unborn"
  <2>1. (CHOOSE p \in Places : TRUE) \in Places /\ (CHOOSE a \in Addresses : TRUE) \in Addresses BY MailAssumption
  <2>2. QED BY <2>1 DEF M!Unborn, BoxRecords
<1>5. DOMAIN before = 1..n /\ 1..n \subseteq Boxes BY <1>3, MailAssumption DEF Boxes
<1>6. /\ \A b \in 1..n : boxes[b] = before[b] /\ before[b] \in BoxRecords /\ boxes[b].status \in {"connected", "disconnected"}
      /\ \A b \in Boxes : b \notin 1..n => boxes[b] = unborn
  <2>1. \A b \in 1..n : boxes[b] = before[b] /\ before[b] \in BoxRecords /\ before[b].status \in {"connected", "disconnected"}
    BY <1>1, <1>3, <1>5 DEF BoxRecords
  <2>2. \A b \in Boxes : b \notin 1..n => boxes[b] = unborn BY <1>1, <1>5
  <2>3. QED BY <2>1, <2>2
<1> HIDE DEF unborn
<1>7. boxes \in [Boxes -> BoxRecords] BY <1>1, <1>4, <1>5, <1>6
<1>8. \A b \in Boxes : (b \in 1..n <=> M!Exists(b)) /\ boxes[b].status # "gone" /\ (b \notin 1..n => boxes[b].status = "unborn")
  BY <1>4, <1>6 DEF M!Exists
<1>9. M!Starting \in CallRecords /\ M!Starting.kind = "boot" /\ M!Starting.step = "scopes" /\ M!Starting # M!Free
  BY FreeCall DEF M!Starting, CallRecords
<1>10. /\ call \in [M!Actors -> CallRecords] /\ \A v \in M!Actors : v # M!Boot => call[v] = M!Free
       /\ call[M!Boot] \in {M!Free, M!Starting}
       /\ call[M!Boot] = M!Free => \A b \in Boxes : ~M!Exists(b)
  BY <1>1, <1>9, FreeCall, WhoActs
<1>11. \A v \in Calls : call[v] = M!Free /\ call[v].step = "rest" /\ call[v].kind = "none" BY <1>10, FreeCall, WhoActs
<1>12. BoxesTyped BY <1>1, <1>7, <1>10 DEF BoxesTyped
<1>13. InTurn
  <2>1. \A b \in Boxes : boxes[b].status # "unborn" <=> b <= n BY <1>8, MailAssumption DEF Boxes, M!Exists
  <2>2. QED BY <2>1 DEF InTurn
<1>14. CallsShaped BY <1>9, <1>10, FreeCall DEF CallsShaped, ShapedCall
<1>15. AddressesKept
  <2>1. \A b, c \in 1..n : boxes[b].address = boxes[c].address => b = c BY <1>2, <1>5, <1>6 DEF BeginsWith
  <2>2. QED BY <1>8, <1>11, <2>1 DEF AddressesKept
<1>16. RoomKept
  <2>1. ConnectedBoxes = {b \in DOMAIN before : before[b].status = "connected"}
    BY <1>5, <1>6, <1>8 DEF ConnectedBoxes, M!Connected
  <2>2. QED BY <1>2, <1>11, <2>1 DEF RoomKept, BeginsWith
<1>17. DefaultsKept
  <2> SUFFICES ASSUME NEW p \in Places PROVE DefaultOf(p) BY DEF DefaultsKept
  <2>1. \A v \in M!Working(p) : v = M!Boot BY <1>10 DEF M!Working
  <2>2. M!Working(p) = {} => M!Settled(p)
    <3>1. M!Working(p) = {} => call[M!Boot] = M!Free BY WhoActs DEF M!Working
    <3>2. QED BY <1>10, <3>1 DEF M!Settled, M!Open, M!In
  <2>3. \A v \in M!Actors : call[v].step \in {"rest", "scopes"} BY <1>9, <1>10, FreeCall
  <2>4. QED BY <2>1, <2>2, <2>3, WhoActs DEF DefaultOf, Choosing, Sound, Untouched
<1>18. LoopsKept
  <2> SUFFICES ASSUME NEW b \in Boxes PROVE LoopOf(b) BY DEF LoopsKept
  <2>1. b \notin loops /\ reading[b] # "ending" BY <1>1
  <2>2. call[M!Boot] = M!Free => ~M!Connected(b) BY <1>10 DEF M!Exists, M!Connected
  <2>3. QED BY <1>11, <2>1, <2>2 DEF LoopOf
<1>19. MailsKept BY <1>8, <1>11 DEF MailsKept, MailsOf
<1>20. QED BY <1>12, <1>13, <1>14, <1>15, <1>16, <1>17, <1>18, <1>19 DEF MailInv

LEMMA MailGoesOn == MailInv /\ M!Next => MailInv'
<1> SUFFICES ASSUME MailInv, M!Next PROVE MailInv' OBVIOUS
<1>1. ASSUME NEW w \in Calls, M!Request(w) PROVE MailInv'
  BY <1>1, ConnectHolds, SetDefaultHolds, DisconnectHolds, RemoveHolds DEF M!Request
<1>2. ASSUME NEW w \in M!Actors, M!CallFails(w) PROVE MailInv'
  BY <1>2, RequestFailsHolds, BootFailsHolds, WhoActs
<1>3. ASSUME NEW b \in Boxes, M!Tick(b) \/ M!syncAllFolders(b) PROVE MailInv'
  BY <1>3, ReadingHolds DEF M!Tick, M!syncAllFolders
<1>4. ASSUME NEW w \in M!Actors, M!Step(w) PROVE MailInv'
  BY <1>4, CreateBoxHolds, SaveBoxHolds, CloseBoxHolds, StopLoopHolds, DeleteMailsHolds, DeleteBoxHolds, LookHolds,
     ClearOthersHolds, MarkKeptHolds, StartLoopHolds DEF M!Step
<1>5. ASSUME NEW b \in Boxes, M!TickRefused(b) \/ M!EndLoop(b) \/ M!EndReading(b) PROVE MailInv'
  BY <1>5, TickRefusedHolds, EndLoopHolds, EndReadingHolds
<1>6. CASE M!Booting BY <1>6, BootScopesHolds, BootScopeHolds, BootLoopsHolds DEF M!Booting
<1>7. CASE M!Crash BY <1>7, CrashHolds
<1>8. CASE M!Going BY <1>4, <1>5, <1>6, <1>8 DEF M!Going
<1>9. QED BY <1>1, <1>2, <1>3, <1>7, <1>8 DEF M!Next

LEMMA MailRests == MailInv /\ UNCHANGED mailVars => MailInv'
<1> SUFFICES ASSUME MailInv, UNCHANGED mailVars PROVE MailInv' OBVIOUS
<1>1. UNCHANGED <<boxes, loops, reading, mails, call, overlapped, doubled, missed, late, unsettled>> BY DEF mailVars
<1>2. BoxesTyped' BY <1>1 DEF MailInv, BoxesTyped
<1>3. LoopsKept' BY <1>1, LoopsStay DEF MailInv
<1>4. MailsKept' BY <1>1, MailsStay DEF MailInv
<1>5. QED BY <1>1, <1>2, <1>3, <1>4, CallsStay DEF MailInv

\* What the invariant says where nothing is at work.
LEMMA MailHolds == MailInv => MailboxesInOrder
<1> SUFFICES ASSUME MailInv PROVE M!MailboxesInOrder BY DEF MailboxesInOrder
<1>1. M!TypeOK
  <2>1. \A w \in M!Actors : call[w].step \in {"clear", "mark"} => call[w].keep \in Boxes
    BY DEF MailInv, CallsShaped, ShapedCall, Born
  <2>2. QED BY <2>1 DEF MailInv, BoxesTyped, BoxRecords, M!TypeOK
<1>2. M!OneDefault BY DEF MailInv, DefaultsKept, DefaultOf, Sound, M!OneDefault, M!Quiet, M!Settled
<1>3. M!AddressOnce BY DEF MailInv, AddressesKept, M!AddressOnce
<1>4. M!MailboxesWithinPlan BY ConnectedCount DEF MailInv, RoomKept, M!MailboxesWithinPlan
<1>5. M!ConnectedIsRead
  <2> SUFFICES ASSUME NEW b \in Boxes, M!Connected(b), M!Quiet(boxes[b].place), boxes[b].place \notin overlapped, b \notin missed
               PROVE  b \in loops
    BY DEF M!ConnectedIsRead
  <2>1. LoopOf(b) BY DEF MailInv, LoopsKept
  <2>2. call[M!Boot] = M!Free BY WhoActs DEF M!Quiet, M!Working
  <2>3. \A w \in Calls : call[w].box = b => call[w] = M!Free
    <3> SUFFICES ASSUME NEW w \in Calls, call[w].box = b, call[w] # M!Free PROVE FALSE OBVIOUS
    <3>1. w \in M!Actors /\ w # M!Boot /\ ShapedCall(w) /\ b # 0
      BY WhoActs, MailAssumption DEF MailInv, CallsShaped, Boxes
    <3>2. Born(b, call[w].place) BY <3>1 DEF ShapedCall
    <3>3. QED BY <3>1, <3>2 DEF M!Quiet, M!Working, Born
  <2>4. QED BY <2>1, <2>2, <2>3, FreeCall DEF LoopOf
<1>6. M!RemovedTakesMails BY DEF MailInv, MailsKept, MailsOf, M!RemovedTakesMails
<1>7. QED BY <1>1, <1>2, <1>3, <1>4, <1>5, <1>6 DEF M!MailboxesInOrder

\* However many mailboxes, workspaces and requests there are and whatever fails: in every
\* state of an account, a workspace where requests did not meet has one default among its
\* connected mailboxes once nothing is at work there, unless a call failed between the write
\* of a request and its ensureDefault, or within that, and no request saw to the default
\* since; no two mailboxes share an address and no more are connected than the plan has,
\* unless two were connected at once; a connected mailbox has a loop that reads it, unless an
\* older loop's refused tick came later or a request failed before it started the loop, or
\* after it stopped it; and a removed one leaves no mails, unless a sync or a crash came
\* between (connect, setDefault, ensureDefault, disconnect, remove, startAutoSync, bootstrap).
THEOREM MailboxesKept == MCSpec => []MailboxesInOrder
<1>1. MCInit => MailInv BY MailBegins
<1>2. MailInv /\ [MCNext]_<<vars, crossed, lost, mailVars, ruleVars, part>> => MailInv'
  <2> SUFFICES ASSUME MailInv, [MCNext]_<<vars, crossed, lost, mailVars, ruleVars, part>> PROVE MailInv' OBVIOUS
  <2>1. CASE Mailing BY <2>1, MailGoesOn DEF Mailing
  <2>2. CASE Quoting BY <2>2, MailRests DEF Quoting
  <2>3. CASE Ruling BY <2>3, MailRests DEF Ruling
  <2>4. CASE UNCHANGED <<vars, crossed, lost, mailVars, ruleVars, part>> BY <2>4, MailRests
  <2>5. QED BY <2>1, <2>2, <2>3, <2>4 DEF MCNext
<1>3. MailInv => MailboxesInOrder BY MailHolds
<1>4. QED BY <1>1, <1>2, <1>3, PTL DEF MCSpec

-----------------------------------------------------------------------------
(* Rules: the inductive invariant. *)

Steps     == {"rest", "start", "next", "act", "lead", "deal"}
Inside    == {"act", "lead", "deal"}
WorkRecords ==
    [step : Steps, trigger : {"none", "message", "lead", "updated", "stage"}, conversation : Conversations \cup {Nobody},
     person : A!People \cup {Nobody}, lead : Leads \cup {0}, deal : Deals \cup {0}, depth : Nat, hops : Nat, todo : SUBSET Rules,
     acts : Seq(RuleActions), ok : BOOLEAN, said : BOOLEAN, fresh : BOOLEAN]
LeadRecords == [status : {"none", "open", "lost", "converted", "gone"}, person : A!People \cup {Nobody}, hops : Nat]
DealRecords == [stage : {"none", "open", "closed", "gone"}, person : A!People \cup {Nobody}, lead : Leads \cup {0},
                by : {"none", "rule", "user"}]
UserRecords == [kind : {"none", "convert", "mark", "move", "tell"}, on : Nat,
                before : {"none", "open", "closed", "gone"}, after : {"none", "open", "closed"}]

\* An event of a conversation is a message; an event as deep as the limit starts nothing.
Works ==
    {w \in WorkRecords :
        /\ w.step \in Inside => w.todo # {}
        /\ w.step \in {"lead", "deal"} => w.acts # <<>>
        /\ w.conversation \in Conversations => w.trigger = "message"
        /\ w.hops = w.depth
        /\ w.step \in Inside \cup {"next"} => w.depth < MaxDepth}
Requests ==
    {q \in UserRecords :
        /\ q.kind \in {"convert", "mark"} => q.on \in Leads
        /\ q.kind \in {"move", "tell"} => q.on \in Deals /\ q.after \in {"open", "closed"}}

\* The smallest of a set of numbers, and the run a handler is in.
Least(T)       == CHOOSE r \in T : \A s \in T : r <= s
PairOf(record) == <<Least(record.todo), record.conversation>>

RulesTyped ==
    /\ active \subseteq Rules /\ limit \in Nat /\ ran \subseteq Rules
    /\ leads \in [Leads -> LeadRecords] /\ deals \in [Deals -> DealRecords]
    /\ heard \in [Deals -> {"none", "open", "closed"}]
    /\ work \in [Handlers -> Works] /\ user \in [Users -> Requests]
    /\ runs \cup answered \subseteq Rules \X Conversations

\* What a reply of an earlier run is excused by.
Excused(pair) == pair[2] \in mingled \/ pair \in unrecorded

\* A conversation whose messages did not meet has one handler; a reply is recorded, or the
\* handler that gave it is still in its run and knows.
RepliesKept ==
    /\ \A j, k \in Handlers : work[j].conversation \in Conversations \ mingled /\ work[k].conversation = work[j].conversation
                              => j = k
    /\ \A pair \in answered :
         \/ Excused(pair) \/ pair \in runs
         \/ \E j \in Handlers : work[j].step \in Inside /\ work[j].said /\ PairOf(work[j]) = pair
    /\ \A j \in Handlers : work[j].step \in Inside /\ PairOf(work[j]) \in answered /\ ~Excused(PairOf(work[j])) => work[j].said
    /\ \A pair \in twice : Excused(pair)

\* A handler that found no open lead of a contact is alone with it, and there is none yet.
LeadsKept ==
    /\ A!OneOpenLead
    /\ \A j, k \in Handlers : j # k /\ work[j].step = "lead" /\ work[k].step = "lead" /\ work[j].person = work[k].person
                              => work[j].person \in hurried
    /\ \A j \in Handlers, l \in Leads : work[j].step = "lead" /\ leads[l].status = "open" /\ leads[l].person = work[j].person
                              => work[j].person \in hurried

\* A user who found no deal of a lead is alone with it, and there is none yet.
ByUser(d) == deals[d].by = "user" /\ deals[d].stage # "gone"
DealsKept ==
    /\ A!ConvertsOnce
    /\ \A u, v \in Users : u # v /\ user[u].kind = "convert" /\ user[v].kind = "convert" /\ user[u].on = user[v].on
                           => <<"lead", user[u].on>> \in clashed
    /\ \A u \in Users, d \in Deals : user[u].kind = "convert" /\ ByUser(d) /\ deals[d].lead = user[u].on
                           => <<"lead", user[u].on>> \in clashed

\* A user who moves a deal alone knows its stage, and tells the right one, unless the
\* deal is gone or a rule set the stage.
Moving(u) == user[u].kind \in {"move", "tell"}
KnowsStage(u) ==
    LET d == user[u].on IN
    \/ deals[d].stage = "gone" \/ d \in untold \/ <<"deal", d>> \in clashed
    \/ user[u].kind = "move" /\ user[u].before = deals[d].stage
    \/ user[u].kind = "tell" /\ user[u].after = deals[d].stage /\ (user[u].before = user[u].after => heard[d] = user[u].after)
StagesKept ==
    /\ A!StageIsTold
    /\ \A u, v \in Users : u # v /\ Moving(u) /\ Moving(v) /\ user[u].on = user[v].on => <<"deal", user[u].on>> \in clashed
    /\ \A u \in Users : Moving(u) => deals[user[u].on].stage # "none"
    /\ \A u \in Users : Moving(u) => KnowsStage(u)

\* Rules that acted, and those still to act, for an event since rules or plan changed
\* are among the oldest the plan runs.
Within == {r \in active : A!Cardinality({s \in active : s < r}) < limit}
PlanKept == ran \subseteq Within /\ \A j \in Handlers : work[j].fresh => work[j].todo \subseteq Within

RuleInv == RulesTyped /\ RepliesKept /\ LeadsKept /\ DealsKept /\ StagesKept /\ PlanKept /\ A!ShortChains

-----------------------------------------------------------------------------
(* Rules: it holds. *)

LEMMA RulesCounted == \A T : A!Cardinality(T) = Cardinality(T)
BY DEF A!Cardinality, Cardinality

\* A set of numbers has a least one.
LEMMA LeastIs ==
    ASSUME NEW T, T \subseteq Nat, T # {}
    PROVE  Least(T) \in T
<1>1. PICK r \in T : \A s \in T : <<s, r>> \notin OpToRel(<, Nat) BY NatLessThanWellFounded, WFMin
<1>2. \A s \in T : ~(s < r) BY <1>1 DEF OpToRel
<1>3. ASSUME NEW s \in T PROVE r <= s
  <2>1. r \in Nat /\ s \in Nat OBVIOUS
  <2>2. QED BY <1>2, <2>1
<1>4. QED BY <1>3 DEF Least

LEMMA RuleIs == \A j : A!Rule(j) = Least(work[j].todo) /\ A!Pair(j) = PairOf(work[j])
BY DEF A!Rule, A!Pair, Least, PairOf

LEMMA RuleOf ==
    ASSUME RulesTyped, NEW j \in Handlers, work[j].todo # {}
    PROVE  A!Rule(j) \in work[j].todo /\ A!Rule(j) \in Rules
<1>1. work[j].todo \subseteq Rules BY DEF RulesTyped, Works, WorkRecords
<1>2. work[j].todo \subseteq Nat BY <1>1, RulesAssumption DEF Rules
<1>3. QED BY <1>1, <1>2, LeastIs, RuleIs

\* The next lead and the next deal are new ones.
LEMMA NewIs ==
    ASSUME NEW f, DOMAIN f \subseteq Nat, A!Room(f)
    PROVE  A!New(f) \in DOMAIN f /\ f[A!New(f)] \in {A!NoLead, A!NoDeal}
<1> DEFINE T == {x \in DOMAIN f : f[x] \in {A!NoLead, A!NoDeal}}
<1>1. T \subseteq Nat /\ T # {} BY DEF A!Room
<1>2. PICK x \in T : \A y \in T : <<y, x>> \notin OpToRel(<, Nat) BY <1>1, NatLessThanWellFounded, WFMin
<1>3. \A y \in T : ~(y < x) BY <1>1, <1>2 DEF OpToRel
<1>4. ASSUME NEW y \in T PROVE x <= y
  <2>1. x \in Nat /\ y \in Nat BY <1>1
  <2>2. QED BY <1>3, <2>1
<1>5. QED BY <1>4 DEF A!New

LEMMA NewLead ==
    ASSUME RulesTyped, A!Room(leads)
    PROVE  A!New(leads) \in Leads /\ leads[A!New(leads)].status = "none"
<1>1. DOMAIN leads = Leads /\ Leads \subseteq Nat BY RulesAssumption DEF RulesTyped, Leads
<1>2. A!New(leads) \in Leads /\ leads[A!New(leads)] \in {A!NoLead, A!NoDeal} BY <1>1, NewIs
<1>3. leads[A!New(leads)] \in LeadRecords BY <1>2 DEF RulesTyped
<1>4. A!NoDeal \notin LeadRecords
  <2>1. "status" \notin DOMAIN A!NoDeal BY DEF A!NoDeal
  <2>2. \A r \in LeadRecords : "status" \in DOMAIN r BY DEF LeadRecords
  <2>3. QED BY <2>1, <2>2
<1>5. QED BY <1>2, <1>3, <1>4 DEF A!NoLead

LEMMA NewDeal ==
    ASSUME RulesTyped, A!Room(deals)
    PROVE  A!New(deals) \in Deals /\ deals[A!New(deals)].stage = "none"
<1>1. DOMAIN deals = Deals /\ Deals \subseteq Nat BY RulesAssumption DEF RulesTyped, Deals
<1>2. A!New(deals) \in Deals /\ deals[A!New(deals)] \in {A!NoLead, A!NoDeal} BY <1>1, NewIs
<1>3. deals[A!New(deals)] \in DealRecords BY <1>2 DEF RulesTyped
<1>4. A!NoLead \notin DealRecords
  <2>1. "stage" \notin DOMAIN A!NoLead BY DEF A!NoLead
  <2>2. \A r \in DealRecords : "stage" \in DOMAIN r BY DEF DealRecords
  <2>3. QED BY <2>1, <2>2
<1>5. QED BY <1>2, <1>3, <1>4 DEF A!NoDeal

\* What a handler may become without a part of the invariant noticing.
CalmRun(old, new) ==
    /\ new.conversation \in {old.conversation, Nobody}
    /\ new.step \in Inside <=> old.step \in Inside
    /\ new.step \in Inside => new.todo = old.todo /\ new.said = old.said /\ new.conversation = old.conversation
CalmLead(old, new) == new.step = "lead" => old.step = "lead" /\ new.person = old.person
CalmPlan(old, new) == new.fresh => (old.fresh /\ new.todo \subseteq old.todo) \/ new.todo = {}
Calm(old, new)     == CalmRun(old, new) /\ CalmLead(old, new) /\ CalmPlan(old, new)

LEMMA IdleWork ==
    /\ A!Idle \in Works /\ A!Idle.step = "rest" /\ A!Idle.conversation = Nobody /\ A!Idle.todo = {} /\ ~A!Idle.fresh
    /\ \A r \in Works : r.step \notin Inside => Calm(r, A!Idle)
<1>1. A!Idle \in WorkRecords BY DEF A!Idle, WorkRecords, Steps
<1>2. QED BY <1>1, RulesAssumption DEF A!Idle, Works, Inside, Calm, CalmRun, CalmLead, CalmPlan

LEMMA CalmSelf == \A r : Calm(r, r)
BY DEF Calm, CalmRun, CalmLead, CalmPlan

\* An event that no conversation is part of, or a message.
LEMMA EventIs ==
    ASSUME NEW trigger \in {"message", "lead", "updated", "stage"}, NEW c \in Conversations \cup {Nobody},
           NEW p \in A!People \cup {Nobody}, NEW l \in Leads \cup {0}, NEW d \in Deals \cup {0}, NEW n \in Nat,
           c \in Conversations => trigger = "message"
    PROVE  /\ A!Event(trigger, c, p, l, d, n, n) \in Works
           /\ A!Event(trigger, c, p, l, d, n, n).conversation = c
           /\ A!Event(trigger, c, p, l, d, n, n).step = "start" /\ A!Event(trigger, c, p, l, d, n, n).todo = {}
<1>0. << >> \in Seq(RuleActions) OBVIOUS
<1>1. A!Event(trigger, c, p, l, d, n, n) \in WorkRecords BY <1>0 DEF A!Event, A!Idle, WorkRecords, Steps
<1>2. QED BY <1>1 DEF A!Event, A!Idle, Works, Inside

\* An event of leads or deals, of no conversation.
LEMMA NobodysEvent ==
    ASSUME NEW trigger \in {"lead", "updated", "stage"}, NEW p \in A!People \cup {Nobody}, NEW l \in Leads \cup {0},
           NEW d \in Deals \cup {0}, NEW n \in Nat
    PROVE  /\ A!Event(trigger, Nobody, p, l, d, n, n) \in Works
           /\ A!Event(trigger, Nobody, p, l, d, n, n).conversation = Nobody
           /\ A!Event(trigger, Nobody, p, l, d, n, n).step = "start" /\ A!Event(trigger, Nobody, p, l, d, n, n).todo = {}
<1>0. << >> \in Seq(RuleActions) OBVIOUS
<1>1. A!Event(trigger, Nobody, p, l, d, n, n) \in WorkRecords BY <1>0 DEF A!Event, A!Idle, WorkRecords, Steps
<1>2. A!Event(trigger, Nobody, p, l, d, n, n).conversation \notin Conversations
  BY RulesAssumption DEF A!Event, A!Idle
<1>3. QED BY <1>1, <1>2 DEF A!Event, A!Idle, Works, Inside

LEMMA LeadsEvent ==
    ASSUME NEW p \in A!People \cup {Nobody}, NEW l \in Leads \cup {0}, NEW n \in Nat
    PROVE  /\ A!Event("lead", Nobody, p, l, 0, n, n) \in Works
           /\ A!Event("lead", Nobody, p, l, 0, n, n).conversation = Nobody
           /\ A!Event("lead", Nobody, p, l, 0, n, n).step = "start" /\ A!Event("lead", Nobody, p, l, 0, n, n).todo = {}
<1>1. 0 \in Deals \cup {0} OBVIOUS
<1>2. QED BY <1>1, NobodysEvent

LEMMA PutWork ==
    ASSUME RulesTyped, NEW j \in Handlers, NEW r \in Works, A!Put(j, r)
    PROVE  work' \in [Handlers -> Works] /\ work'[j] = r /\ \A k \in Handlers \ {j} : work'[k] = work[k]
BY DEF RulesTyped, A!Put

LEMMA PutCalm ==
    ASSUME RulesTyped, NEW j \in Handlers, NEW r \in Works, A!Put(j, r), Calm(work[j], r)
    PROVE  work' \in [Handlers -> Works] /\ \A k \in Handlers : Calm(work[k], work'[k])
BY PutWork, CalmSelf

\* An event takes a handler that is free.
LEMMA EmitsInto ==
    ASSUME NEW table \in [Handlers -> Works], NEW event \in Works, \E k \in Handlers : table[k] = A!Idle
    PROVE  /\ A!Emit(table, event) \in [Handlers -> Works]
           /\ \E k \in Handlers : /\ table[k] = A!Idle /\ A!Emit(table, event)[k] \in {A!Idle, event}
                                  /\ \A i \in Handlers \ {k} : A!Emit(table, event)[i] = table[i]
<1>1. CASE A!Heard(event.trigger)
  <2> DEFINE free == CHOOSE i \in Handlers : table[i] = A!Idle
  <2>1. free \in Handlers /\ table[free] = A!Idle OBVIOUS
  <2>2. A!Emit(table, event) = [table EXCEPT ![free] = event] BY <1>1 DEF A!Emit
  <2> HIDE DEF free
  <2>3. QED BY <2>1, <2>2
<1>2. CASE ~A!Heard(event.trigger)
  <2>1. A!Emit(table, event) = table BY <1>2 DEF A!Emit
  <2>2. QED BY <2>1
<1>3. QED BY <1>1, <1>2

LEMMA SlotFree ==
    ASSUME A!Slot(1)
    PROVE  \E k \in Handlers : work[k] = A!Idle
<1>1. ASSUME {k \in Handlers : work[k] = A!Idle} = {} PROVE FALSE BY <1>1, RulesCounted, FS_EmptySet DEF A!Slot
<1>2. QED BY <1>1

LEMMA SlotsFree ==
    ASSUME A!Slot(2), NEW j \in Handlers
    PROVE  \E k \in Handlers \ {j} : work[k] = A!Idle
<1> DEFINE T == {k \in Handlers : work[k] = A!Idle}
<1>1. Cardinality(T) >= 2 BY RulesCounted DEF A!Slot
<1> HIDE DEF T
<1>2. ASSUME T \subseteq {j} PROVE FALSE
  <2>1. CASE T = {} BY <1>1, <2>1, FS_EmptySet
  <2>2. CASE T = {j} BY <1>1, <2>2, FS_Singleton
  <2>3. QED BY <1>2, <2>1, <2>2
<1>3. QED BY <1>2 DEF T

LEMMA Emitted ==
    ASSUME RulesTyped, A!Slot(1), NEW table \in [Handlers -> Works], NEW event \in Works,
           \A k \in Handlers : work[k] = A!Idle => table[k] = A!Idle
    PROVE  /\ A!Emit(table, event) \in [Handlers -> Works]
           /\ \E k \in Handlers : /\ table[k] = A!Idle /\ A!Emit(table, event)[k] \in {A!Idle, event}
                                  /\ \A i \in Handlers \ {k} : A!Emit(table, event)[i] = table[i]
BY SlotFree, EmitsInto

LEMMA EmitsCalm ==
    ASSUME RulesTyped, NEW table \in [Handlers -> Works], NEW event \in Works,
           ~A!Heard(event.trigger) \/ \E k \in Handlers : table[k] = A!Idle,
           \A k \in Handlers : Calm(work[k], table[k]),
           event.conversation = Nobody, event.step = "start", event.todo = {}
    PROVE  /\ A!Emit(table, event) \in [Handlers -> Works]
           /\ \A k \in Handlers : Calm(work[k], A!Emit(table, event)[k])
<1>1. CASE A!Emit(table, event) = table BY <1>1
<1>2. CASE \E k \in Handlers : table[k] = A!Idle
  <2> DEFINE new == A!Emit(table, event)
  <2>0. /\ new \in [Handlers -> Works]
        /\ \E k \in Handlers : table[k] = A!Idle /\ new[k] \in {A!Idle, event} /\ \A i \in Handlers \ {k} : new[i] = table[i]
    BY <1>2, EmitsInto
  <2> HIDE DEF new
  <2>1. PICK k \in Handlers : table[k] = A!Idle /\ new[k] \in {A!Idle, event} /\ \A i \in Handlers \ {k} : new[i] = table[i]
    BY <2>0
  <2>2. Calm(A!Idle, event) BY IdleWork DEF Calm, CalmRun, CalmLead, CalmPlan, Inside
  <2>3. Calm(work[k], A!Idle) BY <2>1
  <2>4. Calm(work[k], event) BY <2>1, <2>2, <2>3, IdleWork DEF Calm, CalmRun, CalmLead, CalmPlan, Inside
  <2>5. new \in [Handlers -> Works] /\ \A i \in Handlers : Calm(work[i], new[i]) BY <2>0, <2>1, <2>3, <2>4
  <2>6. QED BY <2>5 DEF new
<1>3. CASE ~A!Heard(event.trigger)
  <2>1. A!Emit(table, event) = table BY <1>3 DEF A!Emit
  <2>2. QED BY <1>1, <2>1
<1>4. QED BY <1>2, <1>3

LEMMA EmitCalm ==
    ASSUME RulesTyped, A!Slot(1), NEW table \in [Handlers -> Works], NEW event \in Works,
           \A k \in Handlers : work[k] = A!Idle => table[k] = A!Idle,
           \A k \in Handlers : Calm(work[k], table[k]),
           event.conversation = Nobody, event.step = "start", event.todo = {},
           work' = A!Emit(table, event)
    PROVE  work' \in [Handlers -> Works] /\ \A k \in Handlers : Calm(work[k], work'[k])
<1>1. \E k \in Handlers : table[k] = A!Idle BY SlotFree
<1>2. QED BY <1>1, EmitsCalm

\* Each part of the invariant stays where nobody disturbs it.
LEMMA RunOf ==
    ASSUME NEW old, NEW new, CalmRun(old, new), new.step \in Inside
    PROVE  PairOf(new) = PairOf(old) /\ old.step \in Inside /\ new.said = old.said
BY DEF CalmRun, PairOf

LEMMA RepliesStay ==
    ASSUME RulesTyped, RepliesKept, \A k \in Handlers : CalmRun(work[k], work'[k]), UNCHANGED <<runs, answered, twice>>,
           mingled \subseteq mingled', unrecorded \subseteq unrecorded'
    PROVE  RepliesKept'
<1>1. \A pair : Excused(pair) => Excused(pair)' BY DEF Excused
<1>2. \A j, k \in Handlers : work'[j].conversation \in Conversations \ mingled' /\ work'[k].conversation = work'[j].conversation
                             => j = k
  BY RulesAssumption DEF CalmRun, RepliesKept
<1>3. ASSUME NEW j \in Handlers, work[j].step \in Inside, work[j].said
      PROVE  work'[j].step \in Inside /\ work'[j].said /\ PairOf(work'[j]) = PairOf(work[j])
  BY <1>3 DEF CalmRun, PairOf
<1>4. \A pair \in answered' :
         \/ Excused(pair)' \/ pair \in runs'
         \/ \E j \in Handlers : work'[j].step \in Inside /\ work'[j].said /\ PairOf(work'[j]) = pair
  <2> SUFFICES ASSUME NEW pair \in answered, ~Excused(pair), pair \notin runs
               PROVE  \E j \in Handlers : work'[j].step \in Inside /\ work'[j].said /\ PairOf(work'[j]) = pair
    BY <1>1
  <2>1. PICK j \in Handlers : work[j].step \in Inside /\ work[j].said /\ PairOf(work[j]) = pair BY DEF RepliesKept
  <2>2. QED BY <1>3, <2>1
<1>5. ASSUME NEW j \in Handlers, work'[j].step \in Inside, PairOf(work'[j]) \in answered',
             PairOf(work'[j])[2] \notin mingled', PairOf(work'[j]) \notin unrecorded'
      PROVE  work'[j].said
  <2>1. PairOf(work'[j]) = PairOf(work[j]) /\ work[j].step \in Inside /\ work'[j].said = work[j].said BY <1>5, RunOf
  <2>2. ~Excused(PairOf(work[j])) BY <1>5, <2>1 DEF Excused
  <2>3. QED BY <1>5, <2>1, <2>2 DEF RepliesKept
<1>6. \A pair \in twice' : Excused(pair)' BY <1>1 DEF RepliesKept
<1>7. \A j \in Handlers : work'[j].step \in Inside /\ PairOf(work'[j]) \in answered'
                          /\ ~(PairOf(work'[j])[2] \in mingled' \/ PairOf(work'[j]) \in unrecorded') => work'[j].said
  BY <1>5
<1>8. QED BY <1>2, <1>4, <1>6, <1>7 DEF RepliesKept, Excused, PairOf

LEMMA LeadsStay ==
    ASSUME LeadsKept, \A k \in Handlers : CalmLead(work[k], work'[k]),
           \A l \in Leads : leads'[l].status = "open" => leads[l].status = "open" /\ leads'[l].person = leads[l].person,
           hurried \subseteq hurried'
    PROVE  LeadsKept'
<1>1. A!OneOpenLead' BY DEF LeadsKept, A!OneOpenLead
<1>2. \A j, k \in Handlers : j # k /\ work'[j].step = "lead" /\ work'[k].step = "lead" /\ work'[j].person = work'[k].person
                             => work'[j].person \in hurried'
  BY DEF LeadsKept, CalmLead
<1>3. \A j \in Handlers, l \in Leads : work'[j].step = "lead" /\ leads'[l].status = "open" /\ leads'[l].person = work'[j].person
                             => work'[j].person \in hurried'
  BY DEF LeadsKept, CalmLead
<1>4. QED BY <1>1, <1>2, <1>3 DEF LeadsKept

LEMMA DealsStay ==
    ASSUME DealsKept,
           \A u \in Users : user'[u].kind = "convert" => user[u].kind = "convert" /\ user'[u].on = user[u].on,
           \A d \in Deals : ByUser(d)' => ByUser(d) /\ deals'[d].lead = deals[d].lead,
           clashed \subseteq clashed'
    PROVE  DealsKept'
<1>1. A!ConvertsOnce' BY DEF DealsKept, ByUser, A!ConvertsOnce
<1>2. \A u, v \in Users : u # v /\ user'[u].kind = "convert" /\ user'[v].kind = "convert" /\ user'[u].on = user'[v].on
                          => <<"lead", user'[u].on>> \in clashed'
  BY DEF DealsKept
<1>3. \A u \in Users, d \in Deals : user'[u].kind = "convert" /\ ByUser(d)' /\ deals'[d].lead = user'[u].on
                          => <<"lead", user'[u].on>> \in clashed'
  BY DEF DealsKept
<1>4. QED BY <1>1, <1>2, <1>3 DEF DealsKept

LEMMA StagesStay ==
    ASSUME StagesKept, RulesTyped,
           \A u \in Users : Moving(u)' => user'[u] = user[u],
           \A u \in Users : user[u].kind = "tell" =>
               user'[u] = user[u] \/ user[u].before = user[u].after \/ user[u].on \in untold',
           \A d \in Deals : deals'[d].stage = deals[d].stage \/ deals'[d].stage = "gone",
           heard' = heard, clashed \subseteq clashed', untold \subseteq untold'
    PROVE  StagesKept'
<1>1. A!StageIsTold'
  <2> SUFFICES ASSUME NEW d \in Deals, deals'[d].stage \in {"open", "closed"}, ~A!Telling(d)', d \notin untold',
                      <<"deal", d>> \notin clashed'
               PROVE  heard[d] = deals'[d].stage
    BY DEF A!StageIsTold
  <2>1. deals'[d].stage = deals[d].stage /\ d \notin untold /\ <<"deal", d>> \notin clashed OBVIOUS
  <2>2. CASE ~A!Telling(d) BY <2>1, <2>2 DEF StagesKept, A!StageIsTold
  <2>3. CASE A!Telling(d)
    <3>1. PICK u \in Users : user[u].kind = "tell" /\ user[u].on = d BY <2>3 DEF A!Telling
    <3>2. user'[u] # user[u] BY <3>1 DEF A!Telling
    <3>3. user[u].before = user[u].after BY <3>1, <3>2
    <3>4. KnowsStage(u) BY <3>1 DEF StagesKept, Moving
    <3>5. QED BY <2>1, <3>1, <3>3, <3>4 DEF KnowsStage
  <2>4. QED BY <2>2, <2>3
<1>2. \A u \in Users : Moving(u)' => Moving(u) /\ user[u].on \in Deals /\ user'[u] = user[u]
  BY DEF Moving, RulesTyped, Requests
<1>3. \A u, v \in Users : u # v /\ Moving(u)' /\ Moving(v)' /\ user'[u].on = user'[v].on => <<"deal", user'[u].on>> \in clashed'
  BY <1>2 DEF StagesKept
<1>4. \A u \in Users : Moving(u)' => deals'[user'[u].on].stage # "none" BY <1>2 DEF StagesKept
<1>5. ASSUME NEW u \in Users, Moving(u)' PROVE KnowsStage(u)'
  <2>1. KnowsStage(u) /\ user[u].on \in Deals /\ user'[u] = user[u] BY <1>2, <1>5 DEF StagesKept
  <2>2. CASE deals'[user[u].on].stage = "gone" BY <2>1, <2>2 DEF KnowsStage
  <2>3. CASE deals'[user[u].on].stage = deals[user[u].on].stage BY <2>1, <2>3 DEF KnowsStage
  <2>4. QED BY <2>1, <2>2, <2>3
<1>6. QED BY <1>1, <1>3, <1>4, <1>5 DEF StagesKept

LEMMA PlanStay ==
    ASSUME PlanKept, UNCHANGED <<active, limit>>, ran' \subseteq Within, \A k \in Handlers : CalmPlan(work[k], work'[k])
    PROVE  PlanKept'
<1>1. Within' = Within BY DEF Within
<1>2. \A k \in Handlers : work'[k].fresh => work'[k].todo \subseteq Within BY DEF CalmPlan, PlanKept
<1>3. QED BY <1>1, <1>2 DEF PlanKept

\* A step of handlers that disturbs nothing but the leads' statuses.
LEMMA Undisturbed ==
    ASSUME RuleInv, work' \in [Handlers -> Works], \A k \in Handlers : Calm(work[k], work'[k]),
           UNCHANGED <<runs, answered, twice, active, limit, ran, deals, heard>>,
           \/ UNCHANGED user
           \/ user' \in [Users -> Requests] /\ \A u \in Users : user'[u] = user[u] \/ user'[u].kind \in {"none", "mark"},
           leads' \in [Leads -> LeadRecords],
           \A l \in Leads : leads'[l].status = "open" => leads[l].status = "open" /\ leads'[l].person = leads[l].person,
           \A l \in Leads : leads'[l].hops = leads[l].hops,
           mingled \subseteq mingled', unrecorded \subseteq unrecorded', hurried \subseteq hurried', clashed \subseteq clashed',
           untold \subseteq untold',
           \A u \in Users : user[u].kind = "tell" =>
               user'[u] = user[u] \/ user[u].before = user[u].after \/ user[u].on \in untold'
    PROVE  RuleInv'
<1>1. \A k \in Handlers : CalmRun(work[k], work'[k]) /\ CalmLead(work[k], work'[k]) /\ CalmPlan(work[k], work'[k]) BY DEF Calm
<1>2. RulesTyped' BY DEF RuleInv, RulesTyped
<1>3. RepliesKept' BY <1>1, RepliesStay DEF RuleInv
<1>4. LeadsKept' BY <1>1, LeadsStay DEF RuleInv
<1>5. \A u \in Users : user'[u] = user[u] \/ user'[u].kind \in {"none", "mark"} OBVIOUS
<1>6. DealsKept'
  <2>1. \A u \in Users : user'[u].kind = "convert" => user[u].kind = "convert" /\ user'[u].on = user[u].on BY <1>5
  <2>2. \A d \in Deals : ByUser(d)' => ByUser(d) /\ deals'[d].lead = deals[d].lead BY DEF ByUser
  <2>3. QED BY <2>1, <2>2, DealsStay DEF RuleInv
<1>7. StagesKept'
  <2>1. \A u \in Users : Moving(u)' => user'[u] = user[u] BY <1>5 DEF Moving
  <2>2. QED BY <2>1, StagesStay DEF RuleInv
<1>8. PlanKept' BY <1>1, PlanStay DEF RuleInv, PlanKept
<1>9. A!ShortChains' BY DEF RuleInv, A!ShortChains
<1>10. QED BY <1>2, <1>3, <1>4, <1>6, <1>7, <1>8, <1>9 DEF RuleInv

LEMMA UsersStay ==
    ASSUME RuleInv, UNCHANGED <<deals, heard, user, clashed, untold>>
    PROVE  DealsKept' /\ StagesKept'
<1>1. DealsKept'
  <2>1. \A d \in Deals : ByUser(d)' => ByUser(d) /\ deals'[d].lead = deals[d].lead BY DEF ByUser
  <2>2. QED BY <2>1, DealsStay DEF RuleInv
<1>2. StagesKept' BY StagesStay DEF RuleInv
<1>3. QED BY <1>1, <1>2

\* A step of one handler.
LEMMA HandlerSteps ==
    ASSUME RuleInv, NEW j \in Handlers, NEW r \in Works, A!Put(j, r), Calm(work[j], r),
           UNCHANGED <<runs, answered, twice, active, limit, ran, deals, heard, user, clashed, untold, leads>>,
           mingled \subseteq mingled', unrecorded \subseteq unrecorded', hurried \subseteq hurried'
    PROVE  RuleInv'
<1>1. work' \in [Handlers -> Works] /\ \A k \in Handlers : Calm(work[k], work'[k]) BY PutCalm DEF RuleInv
<1>2. leads' \in [Leads -> LeadRecords] BY DEF RuleInv, RulesTyped
<1>3. QED BY <1>1, <1>2, Undisturbed

LEMMA WorkIs ==
    ASSUME RulesTyped, NEW j \in Handlers
    PROVE  work[j] \in Works /\ work[j] \in WorkRecords
BY DEF RulesTyped, Works

LEMMA RequestIs ==
    ASSUME RulesTyped, NEW u \in Users
    PROVE  user[u] \in Requests /\ user[u] \in UserRecords
BY DEF RulesTyped, Requests

LEMMA ActedIs ==
    ASSUME RulesTyped, NEW j \in Handlers, work[j].step \in Inside, work[j].acts # <<>>, NEW ok \in BOOLEAN
    PROVE  /\ A!Acted(j, ok) \in Works /\ Calm(work[j], A!Acted(j, ok)) /\ A!Acted(j, ok).step = "act"
           /\ A!Acted(j, ok).conversation = work[j].conversation /\ A!Acted(j, ok).todo = work[j].todo
           /\ A!Acted(j, ok).said = work[j].said /\ A!Acted(j, ok).fresh = work[j].fresh
<1>1. work[j] \in Works /\ work[j] \in WorkRecords BY WorkIs
<1>2. Tail(work[j].acts) \in Seq(RuleActions) BY <1>1 DEF WorkRecords
<1>3. A!Acted(j, ok) = [work[j] EXCEPT !.step = "act", !.acts = Tail(@), !.ok = @ \/ ok]
  BY DEF A!Acted
<1>4. (work[j].ok \/ ok) \in BOOLEAN BY <1>1 DEF WorkRecords
<1>5. A!Acted(j, ok) \in WorkRecords BY <1>1, <1>2, <1>3, <1>4 DEF WorkRecords, Steps
<1>6. /\ A!Acted(j, ok).step = "act" /\ A!Acted(j, ok).todo = work[j].todo /\ A!Acted(j, ok).said = work[j].said
      /\ A!Acted(j, ok).conversation = work[j].conversation /\ A!Acted(j, ok).trigger = work[j].trigger
      /\ A!Acted(j, ok).hops = work[j].hops /\ A!Acted(j, ok).depth = work[j].depth /\ A!Acted(j, ok).fresh = work[j].fresh
  BY <1>1, <1>3 DEF WorkRecords
<1>7. A!Acted(j, ok) \in Works BY <1>1, <1>5, <1>6 DEF Works, Inside
<1>8. Calm(work[j], A!Acted(j, ok)) BY <1>6 DEF Calm, CalmRun, CalmLead, CalmPlan, Inside
<1>9. QED BY <1>6, <1>7, <1>8

LEMMA ActionFailsHolds ==
    ASSUME RuleInv, NEW j \in Handlers, A!ActionFails(j)
    PROVE  RuleInv'
<1>1. work[j].step \in Inside /\ work[j].acts # <<>> /\ A!Put(j, A!Acted(j, FALSE)) BY DEF A!ActionFails, A!InRule, Inside
<1>2. A!Acted(j, FALSE) \in Works /\ Calm(work[j], A!Acted(j, FALSE)) BY <1>1, ActedIs DEF RuleInv
<1>3. QED BY <1>1, <1>2, HandlerSteps DEF A!ActionFails, A!rulebook, A!crm, A!replies, A!excuses

LEMMA OtherActionHolds ==
    ASSUME RuleInv, NEW j \in Handlers, A!OtherAction(j)
    PROVE  RuleInv'
<1>1. work[j].step \in Inside /\ work[j].acts # <<>> /\ A!Put(j, A!Acted(j, TRUE)) BY DEF A!OtherAction, A!Acting, Inside
<1>2. A!Acted(j, TRUE) \in Works /\ Calm(work[j], A!Acted(j, TRUE)) BY <1>1, ActedIs DEF RuleInv
<1>3. QED BY <1>1, <1>2, HandlerSteps DEF A!OtherAction, A!rulebook, A!crm, A!replies, A!excuses

LEMMA UpdateConversationHolds ==
    ASSUME RuleInv, NEW j \in Handlers, A!UpdateConversation(j)
    PROVE  RuleInv'
<1> DEFINE ok == work[j].conversation # Nobody
<1>1. work[j].step \in Inside /\ work[j].acts # <<>> /\ A!Put(j, A!Acted(j, ok))
  BY DEF A!UpdateConversation, A!Acting, Inside
<1>2. ok \in BOOLEAN OBVIOUS
<1> HIDE DEF ok
<1>3. A!Acted(j, ok) \in Works /\ Calm(work[j], A!Acted(j, ok)) BY <1>1, <1>2, ActedIs DEF RuleInv
<1>4. QED BY <1>1, <1>3, HandlerSteps DEF A!UpdateConversation, A!rulebook, A!crm, A!replies, A!excuses

\* A lead that becomes open is the contact's only one, or excused.
LEMMA LeadOpens ==
    ASSUME LeadsKept, NEW n \in Leads, NEW p, A!Opens(p), leads[n].status # "open", leads'[n].person = p,
           \A k \in Leads \ {n} : leads'[k] = leads[k], \A k \in Handlers : CalmLead(work[k], work'[k])
    PROVE  LeadsKept'
<1>1. hurried \subseteq hurried' /\ (A!Crowded(p) => p \in hurried') BY DEF A!Opens
<1>2. A!OneOpenLead'
  <2> SUFFICES ASSUME NEW l \in Leads, NEW k \in Leads, l # k, leads'[l].status = "open", leads'[k].status = "open",
                      leads'[l].person = leads'[k].person
               PROVE  leads'[l].person \in hurried'
    BY DEF A!OneOpenLead
  <2>1. CASE l = n BY <1>1, <2>1 DEF A!Crowded, A!OpenLead
  <2>2. CASE k = n BY <1>1, <2>2 DEF A!Crowded, A!OpenLead
  <2>3. CASE l # n /\ k # n BY <1>1, <2>3 DEF LeadsKept, A!OneOpenLead
  <2>4. QED BY <2>1, <2>2, <2>3
<1>3. \A i, k \in Handlers : i # k /\ work'[i].step = "lead" /\ work'[k].step = "lead" /\ work'[i].person = work'[k].person
                             => work'[i].person \in hurried'
  BY <1>1 DEF LeadsKept, CalmLead
<1>4. ASSUME NEW i \in Handlers, NEW l \in Leads, work'[i].step = "lead", leads'[l].status = "open",
             leads'[l].person = work'[i].person
      PROVE  work'[i].person \in hurried'
  <2>1. work[i].step = "lead" /\ work'[i].person = work[i].person BY <1>4 DEF CalmLead
  <2>2. CASE l = n BY <1>1, <1>4, <2>1, <2>2 DEF A!Crowded
  <2>3. CASE l # n BY <1>1, <1>4, <2>1, <2>3 DEF LeadsKept
  <2>4. QED BY <2>2, <2>3
<1>5. QED BY <1>2, <1>3, <1>4 DEF LeadsKept

\* A lead is given a status.
LEMMA SetLeadHolds ==
    ASSUME RuleInv, NEW l \in Leads, NEW status \in {"open", "lost", "converted", "gone"}, A!SetLead(l, status),
           work' \in [Handlers -> Works], \A k \in Handlers : Calm(work[k], work'[k]),
           UNCHANGED <<runs, answered, twice, active, limit, ran, deals, heard, user, mingled, unrecorded, clashed, untold>>
    PROVE  RuleInv'
<1>0. RulesTyped /\ LeadsKept BY DEF RuleInv
<1>1. leads' = [leads EXCEPT ![l].status = status] BY DEF A!SetLead
<1>2. /\ leads' \in [Leads -> LeadRecords] /\ leads'[l].status = status /\ leads'[l].person = leads[l].person
      /\ leads'[l].hops = leads[l].hops /\ \A k \in Leads \ {l} : leads'[k] = leads[k]
  BY <1>0, <1>1 DEF RulesTyped, LeadRecords
<1>3. \A k \in Handlers : CalmRun(work[k], work'[k]) /\ CalmLead(work[k], work'[k]) /\ CalmPlan(work[k], work'[k])
  BY DEF Calm
<1>4. RulesTyped' BY <1>0, <1>2 DEF RulesTyped
<1>5. RepliesKept' BY <1>0, <1>3, RepliesStay DEF RuleInv
<1>6. LeadsKept'
  <2>1. CASE status = "open" /\ leads[l].status # "open"
    <3>1. A!Opens(leads[l].person) BY <2>1 DEF A!SetLead
    <3>2. QED BY <1>0, <1>2, <1>3, <2>1, <3>1, LeadOpens
  <2>2. CASE ~(status = "open" /\ leads[l].status # "open")
    <3>1. hurried' = hurried BY <2>2 DEF A!SetLead
    <3>2. \A k \in Leads : leads'[k].status = "open" => leads[k].status = "open" /\ leads'[k].person = leads[k].person
      BY <1>2, <2>2
    <3>3. QED BY <1>0, <1>3, <3>1, <3>2, LeadsStay
  <2>3. QED BY <2>1, <2>2
<1>7. DealsKept' /\ StagesKept' BY UsersStay
<1>8. PlanKept' BY <1>3, PlanStay DEF RuleInv, PlanKept
<1>9. A!ShortChains' BY <1>2 DEF RuleInv, A!ShortChains
<1>10. QED BY <1>4, <1>5, <1>6, <1>7, <1>8, <1>9 DEF RuleInv

\* What an action is given to set.
LEMMA ActionIs ==
    ASSUME RulesTyped, NEW j \in Handlers, work[j].acts # <<>>
    PROVE  /\ Head(work[j].acts).target = "lead" => Head(work[j].acts).to \in {"open", "lost", "converted"}
           /\ Head(work[j].acts).target = "deal" => Head(work[j].acts).to \in {"open", "closed"}
<1>1. work[j].acts \in Seq(RuleActions) BY WorkIs DEF WorkRecords
<1>2. Head(work[j].acts) \in RuleActions BY <1>1
<1>3. \A a \in RuleActions : /\ a.target = "lead" => a.to \in {"open", "lost", "converted"}
                             /\ a.target = "deal" => a.to \in {"open", "closed"}
  BY DEF RuleActions, Does, SetTo
<1>4. QED BY <1>2, <1>3

LEMMA UpdateLeadHolds ==
    ASSUME RuleInv, NEW j \in Handlers, A!UpdateLead(j)
    PROVE  RuleInv'
<1>0. RulesTyped BY DEF RuleInv
<1> DEFINE l  == work[j].lead
           to == Head(work[j].acts).to
           ok == l # 0
<1>1. work[j].step \in Inside /\ work[j].acts # <<>> /\ A!Put(j, A!Acted(j, ok)) /\ Head(work[j].acts).target = "lead"
  BY DEF A!UpdateLead, A!Acting, Inside
<1>2. ok \in BOOLEAN /\ l \in Leads \cup {0} BY <1>0, WorkIs DEF WorkRecords
<1>3. to \in {"open", "lost", "converted"} BY <1>0, <1>1, ActionIs
<1>4. \/ UNCHANGED <<leads, hurried>>
      \/ l # 0 /\ A!SetLead(l, to)
  BY DEF A!UpdateLead
<1>5. UNCHANGED <<runs, answered, twice, active, limit, ran, deals, heard, user, mingled, unrecorded, clashed, untold>>
  BY DEF A!UpdateLead, A!rulebook, A!replies
<1> HIDE DEF ok, to
<1>6. A!Acted(j, ok) \in Works /\ Calm(work[j], A!Acted(j, ok)) BY <1>0, <1>1, <1>2, ActedIs
<1>7. work' \in [Handlers -> Works] /\ \A k \in Handlers : Calm(work[k], work'[k]) BY <1>0, <1>1, <1>6, PutCalm
<1>8. CASE UNCHANGED <<leads, hurried>> BY <1>1, <1>5, <1>6, <1>8, HandlerSteps
<1>9. CASE l \in Leads /\ A!SetLead(l, to) BY <1>3, <1>5, <1>7, <1>9, SetLeadHolds
<1>10. QED BY <1>2, <1>4, <1>8, <1>9

\* A rule that sets another stage leaves the deal untold.
LEMMA UpdateDealHolds ==
    ASSUME RuleInv, NEW j \in Handlers, A!UpdateDeal(j)
    PROVE  RuleInv'
<1>0. RulesTyped /\ DealsKept /\ StagesKept BY DEF RuleInv
<1> DEFINE d  == work[j].deal
           to == Head(work[j].acts).to
           ok == d # 0
           there == d # 0 /\ deals[d].stage \notin {"none", "gone"}
<1>1. work[j].step \in Inside /\ work[j].acts # <<>> /\ A!Put(j, A!Acted(j, ok)) /\ Head(work[j].acts).target = "deal"
  BY DEF A!UpdateDeal, A!Acting, Inside
<1>2. /\ deals' = IF there THEN [deals EXCEPT ![d].stage = to] ELSE deals
      /\ untold' = IF there /\ deals[d].stage # to THEN untold \cup {d} ELSE untold
      /\ UNCHANGED <<runs, answered, twice, active, limit, ran, leads, user, heard, mingled, unrecorded, hurried, clashed>>
  BY DEF A!UpdateDeal, A!rulebook, A!replies
<1>3. ok \in BOOLEAN /\ d \in Deals \cup {0} BY <1>0, WorkIs DEF WorkRecords
<1>4. to \in {"open", "closed"} BY <1>0, <1>1, ActionIs
<1> HIDE DEF ok, to
<1>5. A!Acted(j, ok) \in Works /\ Calm(work[j], A!Acted(j, ok)) BY <1>0, <1>1, <1>3, ActedIs
<1>6. CASE ~there
  <2>1. UNCHANGED <<deals, untold>> BY <1>2, <1>6
  <2>2. QED BY <1>1, <1>2, <1>5, <2>1, HandlerSteps
<1>7. CASE there
  <2>1. d \in Deals /\ deals[d].stage \in {"open", "closed"} /\ deals \in [Deals -> DealRecords]
    BY <1>0, <1>3, <1>7 DEF RulesTyped, DealRecords
  <2>2. /\ deals' \in [Deals -> DealRecords] /\ deals'[d].stage = to
        /\ deals'[d].by = deals[d].by /\ deals'[d].lead = deals[d].lead
        /\ \A e \in Deals \ {d} : deals'[e] = deals[e]
    BY <1>2, <1>4, <1>7, <2>1 DEF DealRecords
  <2>3. untold \subseteq untold' /\ (deals[d].stage # to => d \in untold') BY <1>2, <1>7
  <2> HIDE DEF d
  <2>4. work' \in [Handlers -> Works] /\ \A k \in Handlers : Calm(work[k], work'[k]) BY <1>0, <1>1, <1>5, PutCalm
  <2>5. \A k \in Handlers : CalmRun(work[k], work'[k]) /\ CalmLead(work[k], work'[k]) /\ CalmPlan(work[k], work'[k])
    BY <2>4 DEF Calm
  <2>6. RulesTyped' BY <1>0, <1>2, <2>2, <2>4 DEF RulesTyped
  <2>7. RepliesKept' BY <1>0, <1>2, <2>5, RepliesStay DEF RuleInv
  <2>8. LeadsKept' BY <1>2, <2>5, LeadsStay DEF RuleInv
  <2>9. DealsKept'
    <3>1. \A e \in Deals : ByUser(e)' => ByUser(e) /\ deals'[e].lead = deals[e].lead BY <2>1, <2>2 DEF ByUser
    <3>2. QED BY <1>0, <1>2, <3>1, DealsStay
  <2>10. StagesKept'
    <3>1. \A e \in Deals : e \notin untold' => deals'[e].stage = deals[e].stage /\ e \notin untold BY <2>2, <2>3
    <3>2. \A e \in Deals : A!Telling(e)' <=> A!Telling(e) BY <1>2 DEF A!Telling
    <3>3. A!StageIsTold' BY <1>0, <1>2, <3>1, <3>2 DEF StagesKept, A!StageIsTold
    <3>4. \A u \in Users : Moving(u)' => Moving(u) /\ user'[u] = user[u] /\ user[u].on \in Deals
      BY <1>0, <1>2, RequestIs DEF Moving, Requests
    <3>5. \A u, v \in Users : u # v /\ Moving(u)' /\ Moving(v)' /\ user'[u].on = user'[v].on => <<"deal", user'[u].on>> \in clashed'
      BY <1>0, <1>2, <3>4 DEF StagesKept
    <3>6. \A u \in Users : Moving(u)' => deals'[user'[u].on].stage # "none" BY <1>0, <1>4, <2>2, <3>4 DEF StagesKept
    <3>7. ASSUME NEW u \in Users, Moving(u)' PROVE KnowsStage(u)'
      <4>1. KnowsStage(u) /\ user'[u] = user[u] /\ user[u].on \in Deals BY <1>0, <3>4, <3>7 DEF StagesKept
      <4>2. CASE user[u].on \in untold' BY <4>1, <4>2 DEF KnowsStage
      <4>3. CASE user[u].on \notin untold' BY <1>2, <3>1, <4>1, <4>3 DEF KnowsStage
      <4>4. QED BY <4>2, <4>3
    <3>8. QED BY <3>3, <3>5, <3>6, <3>7 DEF StagesKept
  <2>11. PlanKept' BY <1>2, <2>5, PlanStay DEF RuleInv, PlanKept
  <2>12. A!ShortChains' BY <1>2 DEF RuleInv, A!ShortChains
  <2>13. QED BY <2>6, <2>7, <2>8, <2>9, <2>10, <2>11, <2>12 DEF RuleInv
<1>8. QED BY <1>6, <1>7

\* Steps into or out of a rule's actions.
LEMMA StepIs ==
    ASSUME RulesTyped, NEW j \in Handlers, work[j].step \in Inside, work[j].acts # <<>>, NEW step \in Inside
    PROVE  /\ [work[j] EXCEPT !.step = step] \in Works
           /\ step # "lead" => Calm(work[j], [work[j] EXCEPT !.step = step])
           /\ CalmRun(work[j], [work[j] EXCEPT !.step = step]) /\ CalmPlan(work[j], [work[j] EXCEPT !.step = step])
<1>1. work[j] \in Works /\ work[j] \in WorkRecords BY WorkIs
<1> DEFINE r == [work[j] EXCEPT !.step = step]
<1>2. r \in WorkRecords BY <1>1 DEF WorkRecords, Steps, Inside
<1>3. /\ r.step = step /\ r.todo = work[j].todo /\ r.said = work[j].said /\ r.conversation = work[j].conversation
      /\ r.trigger = work[j].trigger /\ r.hops = work[j].hops /\ r.depth = work[j].depth /\ r.fresh = work[j].fresh
      /\ r.acts = work[j].acts
  BY <1>1 DEF WorkRecords
<1> HIDE DEF r
<1>4. r \in Works BY <1>1, <1>2, <1>3 DEF Works, Inside
<1>5. CalmRun(work[j], r) /\ CalmPlan(work[j], r) /\ (step # "lead" => CalmLead(work[j], r))
  BY <1>3 DEF CalmRun, CalmLead, CalmPlan, Inside
<1>6. QED BY <1>4, <1>5 DEF r, Calm

LEMMA AskDealHolds ==
    ASSUME RuleInv, NEW j \in Handlers, A!AskDeal(j)
    PROVE  RuleInv'
<1>1. work[j].step \in Inside /\ work[j].acts # <<>> BY DEF A!AskDeal, A!Acting, Inside
<1>2. A!Acted(j, TRUE) \in Works /\ Calm(work[j], A!Acted(j, TRUE)) BY <1>1, ActedIs DEF RuleInv
<1>3. [work[j] EXCEPT !.step = "deal"] \in Works /\ Calm(work[j], [work[j] EXCEPT !.step = "deal"])
  BY <1>1, StepIs DEF RuleInv, Inside
<1>4. PICK r \in Works : A!Put(j, r) /\ Calm(work[j], r) BY <1>2, <1>3 DEF A!AskDeal
<1>5. QED BY <1>4, HandlerSteps DEF A!AskDeal, A!rulebook, A!crm, A!replies, A!excuses

LEMMA ReplyHolds ==
    ASSUME RuleInv, NEW j \in Handlers, A!Reply(j)
    PROVE  RuleInv'
<1>1. work[j].step \in Inside /\ work[j].acts # <<>> BY DEF A!Reply, A!Acting, Inside
<1>2. CASE work[j].conversation \notin Conversations \ Posts
  <2>1. A!Put(j, A!Acted(j, FALSE)) /\ UNCHANGED <<answered, twice>> BY <1>2 DEF A!Reply
  <2>2. A!Acted(j, FALSE) \in Works /\ Calm(work[j], A!Acted(j, FALSE)) BY <1>1, ActedIs DEF RuleInv
  <2>3. QED BY <2>1, <2>2, HandlerSteps DEF A!Reply, A!rulebook, A!crm, A!excuses
<1>3. CASE work[j].conversation \in Conversations \ Posts
  <2>0. RulesTyped /\ RepliesKept BY DEF RuleInv
  <2> DEFINE q == A!Acted(j, TRUE)
             r == [q EXCEPT !.said = TRUE]
             pair == PairOf(work[j])
  <2>1. /\ q \in Works /\ Calm(work[j], q) /\ q.step = "act" /\ q.conversation = work[j].conversation
        /\ q.todo = work[j].todo /\ q.fresh = work[j].fresh
    BY <1>1, <2>0, ActedIs
  <2> HIDE DEF q
  <2>2. r \in WorkRecords BY <2>1 DEF Works, WorkRecords
  <2>3. /\ r.step = "act" /\ r.said /\ r.conversation = work[j].conversation /\ r.todo = work[j].todo /\ r.fresh = work[j].fresh
        /\ r.trigger = q.trigger /\ r.hops = q.hops /\ r.depth = q.depth
    BY <2>1 DEF Works, WorkRecords
  <2> HIDE DEF r
  <2>4. r \in Works BY <2>1, <2>2, <2>3 DEF Works
  <2>5. CalmLead(work[j], r) /\ CalmPlan(work[j], r) /\ PairOf(r) = pair BY <2>3 DEF CalmLead, CalmPlan, PairOf
  <2>6. A!Put(j, r) BY <1>3 DEF A!Reply, r, q
  <2>7. work' \in [Handlers -> Works] /\ work'[j] = r /\ \A k \in Handlers \ {j} : work'[k] = work[k]
    BY <2>0, <2>4, <2>6, PutWork
  <2>8. \A k \in Handlers : CalmLead(work[k], work'[k]) /\ CalmPlan(work[k], work'[k])
    BY <2>5, <2>7, CalmSelf DEF Calm
  <2>9. /\ answered' = answered \cup {pair}
        /\ twice' = IF pair \in answered /\ ~work[j].said THEN twice \cup {pair} ELSE twice
        /\ UNCHANGED <<active, limit, leads, deals, runs, user, ran, heard, mingled, unrecorded, hurried, clashed, untold>>
    BY <1>3, RuleIs DEF A!Reply, A!rulebook, A!crm, A!excuses
  <2>10. pair \in Rules \X Conversations
    <3>1. work[j].todo # {} BY <1>1, <2>0, WorkIs DEF Works
    <3>2. A!Rule(j) \in Rules /\ A!Rule(j) = Least(work[j].todo) BY <2>0, <3>1, RuleOf, RuleIs
    <3>3. QED BY <1>3, <3>2 DEF PairOf
  <2>11. RulesTyped' BY <2>0, <2>7, <2>9, <2>10 DEF RulesTyped
  <2>12. RepliesKept'
    <3> DEFINE p(k) == PairOf(work[k])
    <3>1. \A k \in Handlers : /\ PairOf(work'[k]) = PairOf(work[k]) /\ work'[k].conversation = work[k].conversation
                              /\ work'[k].step \in Inside <=> work[k].step \in Inside
                              /\ work[k].said => work'[k].said
      BY <1>1, <2>3, <2>5, <2>7 DEF Inside
    <3>2. \A k, i \in Handlers : work'[k].conversation \in Conversations \ mingled' /\ work'[i].conversation = work'[k].conversation
                                 => k = i
      BY <2>0, <2>9, <3>1 DEF RepliesKept
    <3>3. \A x \in answered' :
            \/ Excused(x)' \/ x \in runs'
            \/ \E k \in Handlers : work'[k].step \in Inside /\ work'[k].said /\ PairOf(work'[k]) = x
      <4> SUFFICES ASSUME NEW x \in answered', ~(x[2] \in mingled \/ x \in unrecorded), x \notin runs
                   PROVE  \E k \in Handlers : work'[k].step \in Inside /\ work'[k].said /\ PairOf(work'[k]) = x
        BY <2>9 DEF Excused
      <4>1. CASE x = pair BY <1>1, <2>3, <2>7, <3>1, <4>1
      <4>2. CASE x \in answered
        <5>1. PICK k \in Handlers : work[k].step \in Inside /\ work[k].said /\ PairOf(work[k]) = x
          BY <2>0, <4>2 DEF RepliesKept, Excused
        <5>2. QED BY <3>1, <5>1
      <4>3. QED BY <2>9, <4>1, <4>2
    <3>4. ASSUME NEW k \in Handlers, work'[k].step \in Inside, PairOf(work'[k]) \in answered',
                 ~(PairOf(work'[k])[2] \in mingled' \/ PairOf(work'[k]) \in unrecorded')
          PROVE  work'[k].said
      <4>1. CASE k = j BY <2>3, <2>7, <4>1
      <4>2. CASE k # j
        <5>1. work'[k] = work[k] BY <2>7, <4>2
        <5>2. CASE PairOf(work[k]) = pair
          <6>1. work[k].conversation = work[j].conversation /\ work[k].conversation \notin mingled
            BY <2>9, <3>4, <5>1, <5>2 DEF PairOf
          <6>2. QED BY <1>3, <2>0, <4>2, <6>1 DEF RepliesKept
        <5>3. CASE PairOf(work[k]) \in answered BY <2>0, <2>9, <3>4, <5>1, <5>3 DEF RepliesKept, Excused
        <5>4. QED BY <2>9, <3>4, <5>1, <5>2, <5>3
      <4>3. QED BY <4>1, <4>2
    <3>5. \A x \in twice' : Excused(x)'
      <4>1. pair \in answered /\ ~work[j].said => Excused(pair) BY <1>1, <2>0 DEF RepliesKept
      <4>2. QED BY <2>0, <2>9, <4>1 DEF RepliesKept, Excused
    <3>6. \A k \in Handlers : work'[k].step \in Inside /\ PairOf(work'[k]) \in answered'
                              /\ ~(PairOf(work'[k])[2] \in mingled' \/ PairOf(work'[k]) \in unrecorded') => work'[k].said
      BY <3>4
    <3>7. QED BY <3>2, <3>3, <3>5, <3>6 DEF RepliesKept, Excused, PairOf
  <2>13. LeadsKept' BY <2>8, <2>9, LeadsStay DEF RuleInv
  <2>14. DealsKept' /\ StagesKept' BY <2>9, UsersStay
  <2>15. PlanKept' BY <2>8, <2>9, PlanStay DEF RuleInv, PlanKept
  <2>16. A!ShortChains' BY <2>9 DEF RuleInv, A!ShortChains
  <2>17. QED BY <2>11, <2>12, <2>13, <2>14, <2>15, <2>16 DEF RuleInv
<1>4. QED BY <1>2, <1>3

\* A run ends, recorded or excused.
LEMMA RunEnds ==
    ASSUME RulesTyped, RepliesKept, NEW j \in Handlers, NEW r \in Works, A!Put(j, r), r.step \notin Inside,
           r.conversation \in {work[j].conversation, Nobody}, UNCHANGED <<answered, twice, mingled>>,
           runs \subseteq runs', unrecorded \subseteq unrecorded',
           work[j].step \in Inside /\ PairOf(work[j]) \in answered => PairOf(work[j]) \in runs' \cup unrecorded'
    PROVE  RepliesKept'
<1>1. work'[j] = r /\ \A k \in Handlers \ {j} : work'[k] = work[k] BY PutWork
<1>2. \A k, i \in Handlers : work'[k].conversation \in Conversations \ mingled' /\ work'[i].conversation = work'[k].conversation
                             => k = i
  BY <1>1, RulesAssumption DEF RepliesKept
<1>3. \A x \in answered' :
        \/ Excused(x)' \/ x \in runs'
        \/ \E k \in Handlers : work'[k].step \in Inside /\ work'[k].said /\ PairOf(work'[k]) = x
  <2> SUFFICES ASSUME NEW x \in answered, ~(x[2] \in mingled' \/ x \in unrecorded'), x \notin runs'
               PROVE  \E k \in Handlers : work'[k].step \in Inside /\ work'[k].said /\ PairOf(work'[k]) = x
    BY DEF Excused
  <2>1. PICK k \in Handlers : work[k].step \in Inside /\ work[k].said /\ PairOf(work[k]) = x
    BY DEF RepliesKept, Excused
  <2>2. k # j BY <2>1
  <2>3. QED BY <1>1, <2>1, <2>2
<1>4. \A k \in Handlers : work'[k].step \in Inside /\ PairOf(work'[k]) \in answered'
                          /\ ~(PairOf(work'[k])[2] \in mingled' \/ PairOf(work'[k]) \in unrecorded') => work'[k].said
  <2> SUFFICES ASSUME NEW k \in Handlers, work'[k].step \in Inside, PairOf(work'[k]) \in answered',
                      ~(PairOf(work'[k])[2] \in mingled' \/ PairOf(work'[k]) \in unrecorded')
               PROVE  work'[k].said
    OBVIOUS
  <2>1. k # j /\ work'[k] = work[k] BY <1>1
  <2>2. ~Excused(PairOf(work[k])) BY <2>1 DEF Excused
  <2>3. QED BY <2>1, <2>2 DEF RepliesKept
<1>5. \A x \in twice' : Excused(x)' BY DEF RepliesKept, Excused
<1>6. QED BY <1>2, <1>3, <1>4, <1>5 DEF RepliesKept, Excused, PairOf

\* A step of a handler that ends its run, or begins none.
LEMMA RunEndsHolds ==
    ASSUME RuleInv, NEW j \in Handlers, NEW r \in Works, A!Put(j, r), r.step \in {"rest", "next"},
           r.conversation \in {work[j].conversation, Nobody}, CalmPlan(work[j], r),
           runs \subseteq runs', runs' \subseteq Rules \X Conversations, unrecorded \subseteq unrecorded',
           work[j].step \in Inside /\ PairOf(work[j]) \in answered => PairOf(work[j]) \in runs' \cup unrecorded',
           UNCHANGED <<answered, twice, active, limit, ran, leads, deals, heard, user, mingled, hurried, clashed, untold>>
    PROVE  RuleInv'
<1>0. RulesTyped /\ RepliesKept /\ r.step \notin Inside BY DEF RuleInv, Inside
<1>1. work' \in [Handlers -> Works] /\ work'[j] = r /\ \A k \in Handlers \ {j} : work'[k] = work[k]
  BY <1>0, PutWork
<1>2. RulesTyped' BY <1>0, <1>1 DEF RulesTyped
<1>3. RepliesKept' BY <1>0, RunEnds
<1>4. \A k \in Handlers : CalmLead(work[k], work'[k]) /\ CalmPlan(work[k], work'[k])
  BY <1>1, CalmSelf DEF Calm, CalmLead
<1>5. LeadsKept' BY <1>4, LeadsStay DEF RuleInv
<1>6. DealsKept' /\ StagesKept' BY UsersStay
<1>7. PlanKept' BY <1>4, PlanStay DEF RuleInv, PlanKept
<1>8. A!ShortChains' BY DEF RuleInv, A!ShortChains
<1>9. QED BY <1>2, <1>3, <1>5, <1>6, <1>7, <1>8 DEF RuleInv

\* The next rule of an event.
LEMMA LeftIs ==
    ASSUME RulesTyped, NEW j \in Handlers, work[j].step \in Inside \cup {"next"}
    PROVE  /\ [work[j] EXCEPT !.step = "next", !.todo = A!Left(j)] \in Works
           /\ [work[j] EXCEPT !.step = "next", !.todo = A!Left(j)].step = "next"
           /\ [work[j] EXCEPT !.step = "next", !.todo = A!Left(j)].conversation = work[j].conversation
           /\ CalmPlan(work[j], [work[j] EXCEPT !.step = "next", !.todo = A!Left(j)])
<1>1. work[j] \in Works /\ work[j] \in WorkRecords BY WorkIs
<1> DEFINE r == [work[j] EXCEPT !.step = "next", !.todo = A!Left(j)]
<1>2. A!Left(j) \subseteq work[j].todo /\ A!Left(j) \in SUBSET Rules BY <1>1 DEF A!Left, WorkRecords
<1>3. r \in WorkRecords BY <1>1, <1>2 DEF WorkRecords, Steps
<1>4. /\ r.step = "next" /\ r.todo = A!Left(j) /\ r.conversation = work[j].conversation /\ r.fresh = work[j].fresh
      /\ r.trigger = work[j].trigger /\ r.hops = work[j].hops /\ r.depth = work[j].depth
  BY <1>1 DEF WorkRecords
<1> HIDE DEF r
<1>5. r \in Works BY <1>1, <1>3, <1>4 DEF Works, Inside
<1>6. CalmPlan(work[j], r) BY <1>2, <1>4 DEF CalmPlan
<1>7. QED BY <1>4, <1>5, <1>6 DEF r

LEMMA RecordRunHolds ==
    ASSUME RuleInv, NEW j \in Handlers, A!RecordRun(j)
    PROVE  RuleInv'
<1> DEFINE r == [work[j] EXCEPT !.step = "next", !.todo = A!Left(j)]
<1>0. RulesTyped BY DEF RuleInv
<1>1. work[j].step \in Inside /\ A!Put(j, r) BY DEF A!RecordRun, Inside
<1>2. r \in Works /\ r.step = "next" /\ r.conversation = work[j].conversation /\ CalmPlan(work[j], r)
  BY <1>0, <1>1, LeftIs
<1> HIDE DEF r
<1>3. runs' = IF work[j].conversation # Nobody THEN runs \cup {PairOf(work[j])} ELSE runs
  BY RuleIs DEF A!RecordRun, A!Recorded
<1>4. runs \subseteq Rules \X Conversations /\ answered \subseteq Rules \X Conversations BY <1>0 DEF RulesTyped
<1>5. runs' \subseteq Rules \X Conversations
  <2>1. work[j].todo # {} /\ work[j].conversation \in Conversations \cup {Nobody} BY <1>0, <1>1, WorkIs DEF Works, WorkRecords
  <2>2. Least(work[j].todo) \in Rules BY <1>0, <2>1, RuleOf, RuleIs
  <2>3. work[j].conversation # Nobody => PairOf(work[j]) \in Rules \X Conversations BY <2>1, <2>2 DEF PairOf
  <2>4. QED BY <1>3, <1>4, <2>3
<1>6. PairOf(work[j]) \in answered => PairOf(work[j]) \in runs'
  <2>1. PairOf(work[j]) \in answered => work[j].conversation \in Conversations BY <1>4 DEF PairOf
  <2>2. QED BY <1>3, <2>1, RulesAssumption
<1>7. UNCHANGED <<answered, twice, active, limit, ran, leads, deals, heard, user, mingled, unrecorded, hurried, clashed, untold>>
  BY DEF A!RecordRun, A!rulebook, A!crm, A!excuses
<1>8. QED BY <1>1, <1>2, <1>3, <1>5, <1>6, <1>7, RunEndsHolds

LEMMA JobFailsHolds ==
    ASSUME RuleInv, NEW j \in Handlers, A!JobFails(j)
    PROVE  RuleInv'
<1>1. unrecorded' = IF work[j].step \in Inside THEN unrecorded \cup {PairOf(work[j])} ELSE unrecorded
  BY RuleIs DEF A!JobFails, A!InRule, Inside
<1>2. /\ A!Put(j, A!Idle)
      /\ UNCHANGED <<runs, answered, twice, active, limit, ran, leads, deals, heard, user, mingled, hurried, clashed, untold>>
  BY DEF A!JobFails, A!rulebook, A!crm, A!replies
<1>3. CalmPlan(work[j], A!Idle) BY IdleWork DEF CalmPlan
<1>4. runs' \subseteq Rules \X Conversations BY <1>2 DEF RuleInv, RulesTyped
<1>5. QED BY <1>1, <1>2, <1>3, <1>4, IdleWork, RunEndsHolds

\* Everything a step of one handler leaves alone.
LEMMA HandlerTyped ==
    ASSUME RuleInv, NEW j \in Handlers, NEW r \in Works, A!Put(j, r), ran' \subseteq Rules,
           UNCHANGED <<runs, answered, active, limit, leads, deals, heard, user>>
    PROVE  RulesTyped'
<1>1. work' \in [Handlers -> Works] BY PutWork DEF RuleInv
<1>2. QED BY <1>1 DEF RuleInv, RulesTyped

LEMMA StartHolds ==
    ASSUME RuleInv, NEW j \in Handlers, A!Start(j)
    PROVE  RuleInv'
<1>0. RulesTyped /\ UNCHANGED <<runs, answered, twice, active, limit, ran, leads, deals, heard, user, mingled, unrecorded, hurried, clashed, untold>>
  BY DEF RuleInv, A!Start, A!rulebook, A!crm, A!replies, A!excuses
<1>1. work[j] \in Works /\ work[j] \in WorkRecords /\ work[j].step = "start" BY <1>0, WorkIs DEF A!Start
<1>2. CASE A!TooDeep(work[j].depth) \/ A!Allowed(work[j].trigger) = {}
  <2>1. A!Put(j, A!Idle) BY <1>2 DEF A!Start
  <2>2. Calm(work[j], A!Idle) BY <1>1, IdleWork DEF Inside
  <2>3. QED BY <1>0, <2>1, <2>2, IdleWork, HandlerSteps
<1>3. CASE ~(A!TooDeep(work[j].depth) \/ A!Allowed(work[j].trigger) = {})
  <2> DEFINE T == A!Allowed(work[j].trigger)
             r == [work[j] EXCEPT !.step = "next", !.todo = T]
  <2>1. A!Put(j, r) BY <1>3 DEF A!Start
  <2>2. T \subseteq Within /\ T \in SUBSET Rules BY <1>0 DEF A!Allowed, Within, RulesTyped
  <2> HIDE DEF T
  <2>3. r \in WorkRecords BY <1>1, <2>2 DEF WorkRecords, Steps
  <2>4. /\ r.step = "next" /\ r.todo = T /\ r.conversation = work[j].conversation /\ r.fresh = work[j].fresh
        /\ r.trigger = work[j].trigger /\ r.hops = work[j].hops /\ r.depth = work[j].depth
    BY <1>1 DEF WorkRecords
  <2> HIDE DEF r
  <2>5. r.depth < MaxDepth BY <1>1, <1>3, <2>4, RulesAssumption DEF A!TooDeep, WorkRecords
  <2>6. r \in Works BY <1>1, <2>3, <2>4, <2>5 DEF Works, Inside
  <2>7. work' \in [Handlers -> Works] /\ work'[j] = r /\ \A k \in Handlers \ {j} : work'[k] = work[k]
    BY <1>0, <2>1, <2>6, PutWork
  <2>8. CalmRun(work[j], r) /\ CalmLead(work[j], r) BY <1>1, <2>4 DEF CalmRun, CalmLead, Inside
  <2>9. \A k \in Handlers : CalmRun(work[k], work'[k]) /\ CalmLead(work[k], work'[k]) BY <2>7, <2>8, CalmSelf DEF Calm
  <2>10. RulesTyped' BY <1>0, <2>1, <2>6, HandlerTyped DEF RulesTyped
  <2>11. RepliesKept' BY <1>0, <2>9, RepliesStay DEF RuleInv
  <2>12. LeadsKept' BY <1>0, <2>9, LeadsStay DEF RuleInv
  <2>13. DealsKept' /\ StagesKept' BY <1>0, UsersStay
  <2>14. PlanKept'
    <3>1. Within' = Within BY <1>0 DEF Within
    <3>2. \A k \in Handlers : work'[k].fresh => work'[k].todo \subseteq Within BY <2>2, <2>4, <2>7 DEF RuleInv, PlanKept
    <3>3. QED BY <1>0, <3>1, <3>2 DEF RuleInv, PlanKept
  <2>15. A!ShortChains' BY <1>0 DEF RuleInv, A!ShortChains
  <2>16. QED BY <2>10, <2>11, <2>12, <2>13, <2>14, <2>15 DEF RuleInv
<1>4. QED BY <1>2, <1>3

\* A rule that acts in a conversation has not replied to it before, or is excused.
LEMMA RuleBegins ==
    ASSUME RuleInv, NEW j \in Handlers, work[j].step = "next", work[j].todo # {}, ~A!Cooling(j),
           A!Put(j, [work[j] EXCEPT !.step = "act", !.acts = ActionsOf[A!Rule(j)], !.ok = FALSE, !.said = FALSE]),
           ran' = IF work[j].fresh THEN ran \cup {A!Rule(j)} ELSE ran,
           UNCHANGED <<runs, answered, twice, active, limit, leads, deals, heard, user, mingled, unrecorded, hurried, clashed, untold>>
    PROVE  RuleInv'
<1>0. RulesTyped /\ RepliesKept BY DEF RuleInv
<1>1. work[j] \in Works /\ work[j] \in WorkRecords BY <1>0, WorkIs
<1>2. A!Rule(j) \in work[j].todo /\ A!Rule(j) \in Rules BY <1>0, RuleOf
<1>3. ActionsOf[A!Rule(j)] \in Seq(RuleActions) BY <1>2, RulesAssumption
<1> DEFINE r == [work[j] EXCEPT !.step = "act", !.acts = ActionsOf[A!Rule(j)], !.ok = FALSE, !.said = FALSE]
<1>4. r \in WorkRecords BY <1>1, <1>3 DEF WorkRecords, Steps
<1>5. /\ r.step = "act" /\ r.todo = work[j].todo /\ r.conversation = work[j].conversation /\ r.fresh = work[j].fresh
      /\ r.trigger = work[j].trigger /\ r.hops = work[j].hops /\ r.depth = work[j].depth
  BY <1>1 DEF WorkRecords
<1>6. A!Put(j, r) OBVIOUS
<1> HIDE DEF r
<1>7. r \in Works BY <1>1, <1>4, <1>5 DEF Works, Inside
<1>8. work' \in [Handlers -> Works] /\ work'[j] = r /\ \A k \in Handlers \ {j} : work'[k] = work[k]
  BY <1>0, <1>6, <1>7, PutWork
<1>9. PairOf(r) = PairOf(work[j]) /\ PairOf(work[j]) = A!Pair(j) BY <1>5, RuleIs DEF PairOf
<1>10. PairOf(r) \in answered => Excused(PairOf(r))
  <2> SUFFICES ASSUME PairOf(r) \in answered, ~Excused(PairOf(r)) PROVE FALSE OBVIOUS
  <2>1. work[j].conversation \in Conversations \ mingled
    BY <1>0, <1>9 DEF RulesTyped, PairOf, Excused
  <2>2. A!Pair(j) \notin runs BY <1>1, <2>1 DEF A!Cooling, Works
  <2>3. PICK k \in Handlers : work[k].step \in Inside /\ work[k].said /\ PairOf(work[k]) = PairOf(work[j])
    BY <1>0, <1>9, <2>2 DEF RepliesKept
  <2>4. k = j BY <1>0, <2>1, <2>3 DEF RepliesKept, PairOf
  <2>5. QED BY <2>3, <2>4 DEF Inside
<1>11. ran' \subseteq Rules BY <1>0, <1>2 DEF RulesTyped
<1>12. RulesTyped' BY <1>6, <1>7, <1>11, HandlerTyped
<1>13. RepliesKept'
  <2>1. \A k, i \in Handlers : work'[k].conversation \in Conversations \ mingled' /\ work'[i].conversation = work'[k].conversation
                               => k = i
    <3>1. \A k \in Handlers : work'[k].conversation = work[k].conversation BY <1>5, <1>8
    <3>2. QED BY <1>0, <3>1 DEF RepliesKept
  <2>2. \A x \in answered' :
          \/ Excused(x)' \/ x \in runs'
          \/ \E k \in Handlers : work'[k].step \in Inside /\ work'[k].said /\ PairOf(work'[k]) = x
    <3> SUFFICES ASSUME NEW x \in answered, ~(x[2] \in mingled \/ x \in unrecorded), x \notin runs
                 PROVE  \E k \in Handlers : work'[k].step \in Inside /\ work'[k].said /\ PairOf(work'[k]) = x
      BY DEF Excused
    <3>1. PICK k \in Handlers : work[k].step \in Inside /\ work[k].said /\ PairOf(work[k]) = x
      BY <1>0 DEF RepliesKept, Excused
    <3>2. k # j BY <3>1 DEF Inside
    <3>3. QED BY <1>8, <3>1, <3>2
  <2>3. \A k \in Handlers : work'[k].step \in Inside /\ PairOf(work'[k]) \in answered'
                            /\ ~(PairOf(work'[k])[2] \in mingled' \/ PairOf(work'[k]) \in unrecorded') => work'[k].said
    <3> SUFFICES ASSUME NEW k \in Handlers, work'[k].step \in Inside, PairOf(work'[k]) \in answered,
                        ~(PairOf(work'[k])[2] \in mingled \/ PairOf(work'[k]) \in unrecorded)
                 PROVE  work'[k].said
      OBVIOUS
    <3>1. k # j BY <1>8, <1>10 DEF Excused
    <3>2. work'[k] = work[k] BY <1>8, <3>1
    <3>3. ~Excused(PairOf(work[k])) BY <3>2 DEF Excused
    <3>4. QED BY <1>0, <3>2, <3>3 DEF RepliesKept
  <2>4. \A x \in twice' : Excused(x)' BY <1>0 DEF RepliesKept, Excused
  <2>5. QED BY <2>1, <2>2, <2>3, <2>4 DEF RepliesKept, Excused, PairOf
<1>14. \A k \in Handlers : CalmLead(work[k], work'[k]) /\ CalmPlan(work[k], work'[k])
  BY <1>5, <1>8, CalmSelf DEF Calm, CalmLead, CalmPlan
<1>15. LeadsKept' BY <1>14, LeadsStay DEF RuleInv
<1>16. DealsKept' /\ StagesKept' BY UsersStay
<1>17. PlanKept'
  <2>1. ran' \subseteq Within BY <1>2 DEF RuleInv, PlanKept
  <2>2. QED BY <1>14, <2>1, PlanStay DEF RuleInv
<1>18. A!ShortChains' BY DEF RuleInv, A!ShortChains
<1>19. QED BY <1>12, <1>13, <1>15, <1>16, <1>17, <1>18 DEF RuleInv

LEMMA NextRuleHolds ==
    ASSUME RuleInv, NEW j \in Handlers, A!NextRule(j)
    PROVE  RuleInv'
<1>0. RulesTyped BY DEF RuleInv
<1>1. work[j].step = "next" /\ UNCHANGED <<runs, answered, twice, active, limit, leads, deals, heard, user, mingled, unrecorded, hurried, clashed, untold>>
  BY DEF A!NextRule, A!rulebook, A!crm, A!replies, A!excuses
<1>2. CASE work[j].todo = {}
  <2>1. A!Put(j, A!Idle) /\ UNCHANGED ran BY <1>2 DEF A!NextRule
  <2>2. Calm(work[j], A!Idle) BY <1>0, <1>1, WorkIs, IdleWork DEF Inside
  <2>3. QED BY <1>1, <2>1, <2>2, IdleWork, HandlerSteps
<1>3. CASE work[j].todo # {} /\ A!Cooling(j)
  <2> DEFINE r == [work[j] EXCEPT !.step = "next", !.todo = A!Left(j)]
  <2>1. work[j] \in WorkRecords BY <1>0, WorkIs
  <2>2. r = [work[j] EXCEPT !.todo = A!Left(j)] BY <1>1, <2>1 DEF WorkRecords
  <2>3. r \in Works /\ r.step = "next" /\ r.conversation = work[j].conversation /\ CalmPlan(work[j], r)
    BY <1>0, <1>1, LeftIs
  <2>4. A!Put(j, r) /\ UNCHANGED ran BY <1>3, <2>2 DEF A!NextRule
  <2> HIDE DEF r
  <2>5. Calm(work[j], r) BY <1>1, <2>3 DEF Calm, CalmRun, CalmLead, Inside
  <2>6. QED BY <1>1, <2>3, <2>4, <2>5, HandlerSteps
<1>4. CASE work[j].todo # {} /\ ~A!Cooling(j)
  <2>1. /\ A!Put(j, [work[j] EXCEPT !.step = "act", !.acts = ActionsOf[A!Rule(j)], !.ok = FALSE, !.said = FALSE])
        /\ ran' = IF work[j].fresh THEN ran \cup {A!Rule(j)} ELSE ran
    BY <1>4 DEF A!NextRule
  <2>2. QED BY <1>1, <1>4, <2>1, RuleBegins
<1>5. QED BY <1>2, <1>3, <1>4

\* The search for an open lead, and the lead made when there was none.
LEMMA AskLeadHolds ==
    ASSUME RuleInv, NEW j \in Handlers, A!AskLead(j)
    PROVE  RuleInv'
<1>0. RulesTyped BY DEF RuleInv
<1>1. work[j].step \in Inside /\ work[j].acts # <<>> BY DEF A!AskLead, A!Acting, Inside
<1>2. /\ hurried' = IF A!Beside(j, "lead") THEN hurried \cup {work[j].person} ELSE hurried
      /\ UNCHANGED <<runs, answered, twice, active, limit, ran, leads, deals, heard, user, mingled, unrecorded, clashed, untold>>
  BY DEF A!AskLead, A!rulebook, A!crm, A!replies
<1>3. CASE A!OpenLead(work[j].person)
  <2>1. A!Put(j, A!Acted(j, TRUE)) BY <1>3 DEF A!AskLead
  <2>2. A!Acted(j, TRUE) \in Works /\ Calm(work[j], A!Acted(j, TRUE)) BY <1>0, <1>1, ActedIs
  <2>3. QED BY <1>2, <2>1, <2>2, HandlerSteps
<1>4. CASE ~A!OpenLead(work[j].person)
  <2> DEFINE r == [work[j] EXCEPT !.step = "lead"]
  <2>1. A!Put(j, r) BY <1>4 DEF A!AskLead
  <2>2. r \in Works /\ CalmRun(work[j], r) /\ CalmPlan(work[j], r) BY <1>0, <1>1, StepIs DEF Inside
  <2>3. r.step = "lead" /\ r.person = work[j].person BY <1>0, WorkIs DEF WorkRecords
  <2> HIDE DEF r
  <2>4. work' \in [Handlers -> Works] /\ work'[j] = r /\ \A k \in Handlers \ {j} : work'[k] = work[k]
    BY <1>0, <2>1, <2>2, PutWork
  <2>5. \A k \in Handlers : CalmRun(work[k], work'[k]) /\ CalmPlan(work[k], work'[k]) BY <2>2, <2>4, CalmSelf DEF Calm
  <2>6. RulesTyped' BY <1>2, <2>1, <2>2, HandlerTyped DEF RuleInv, RulesTyped
  <2>7. RepliesKept' BY <1>0, <1>2, <2>5, RepliesStay DEF RuleInv
  <2>8. LeadsKept'
    <3>1. LeadsKept BY DEF RuleInv
    <3>2. A!OneOpenLead' BY <1>2, <3>1 DEF LeadsKept, A!OneOpenLead
    <3>3. \A k \in Handlers \ {j} : work[k].step = "lead" /\ work[k].person = work[j].person => work[j].person \in hurried'
      BY <1>2 DEF A!Beside
    <3>4. \A i, k \in Handlers : i # k /\ work'[i].step = "lead" /\ work'[k].step = "lead" /\ work'[i].person = work'[k].person
                                 => work'[i].person \in hurried'
      <4> SUFFICES ASSUME NEW i \in Handlers, NEW k \in Handlers, i # k, work'[i].step = "lead", work'[k].step = "lead",
                          work'[i].person = work'[k].person
                   PROVE  work'[i].person \in hurried'
        OBVIOUS
      <4>1. CASE i = j BY <2>3, <2>4, <3>3, <4>1
      <4>2. CASE k = j BY <2>3, <2>4, <3>3, <4>2
      <4>3. CASE i # j /\ k # j BY <1>2, <2>4, <3>1, <4>3 DEF LeadsKept
      <4>4. QED BY <4>1, <4>2, <4>3
    <3>5. \A i \in Handlers, l \in Leads : work'[i].step = "lead" /\ leads'[l].status = "open" /\ leads'[l].person = work'[i].person
                                 => work'[i].person \in hurried'
      <4> SUFFICES ASSUME NEW i \in Handlers, NEW l \in Leads, work'[i].step = "lead", leads[l].status = "open",
                          leads[l].person = work'[i].person
                   PROVE  work'[i].person \in hurried'
        BY <1>2
      <4>1. CASE i = j BY <1>4, <2>3, <2>4, <4>1 DEF A!OpenLead
      <4>2. CASE i # j BY <1>2, <2>4, <3>1, <4>2 DEF LeadsKept
      <4>3. QED BY <4>1, <4>2
    <3>6. QED BY <3>2, <3>4, <3>5 DEF LeadsKept
  <2>9. DealsKept' /\ StagesKept' BY <1>2, UsersStay
  <2>10. PlanKept' BY <1>2, <2>5, PlanStay DEF RuleInv, PlanKept
  <2>11. A!ShortChains' BY <1>2 DEF RuleInv, A!ShortChains
  <2>12. QED BY <2>6, <2>7, <2>8, <2>9, <2>10, <2>11 DEF RuleInv
<1>5. QED BY <1>3, <1>4

\* A new lead is the contact's only one, or excused.
LEMMA MakeLeadHolds ==
    ASSUME RuleInv, NEW j \in Handlers, A!MakeLead(j)
    PROVE  RuleInv'
<1>0. RulesTyped /\ LeadsKept BY DEF RuleInv
<1>1. work[j].step = "lead" /\ work[j] \in Works /\ work[j] \in WorkRecords BY <1>0, WorkIs DEF A!MakeLead
<1> DEFINE n == A!New(leads)
           p == work[j].person
           h == work[j].hops + 1
           r == A!Acted(j, TRUE)
           table == [work EXCEPT ![j] = r]
           event == A!Event("lead", Nobody, p, n, 0, work[j].depth + 1, h)
<1>2. n \in Leads /\ leads[n].status = "none" BY <1>0, NewLead DEF A!MakeLead
<1>3. /\ leads' = [leads EXCEPT ![n] = [status |-> "open", person |-> p, hops |-> h]] /\ work' = A!Emit(table, event)
      /\ UNCHANGED <<runs, answered, twice, active, limit, ran, deals, heard, user, mingled, unrecorded, hurried, clashed, untold>>
  BY DEF A!MakeLead, A!rulebook, A!replies, A!excuses
<1>4. r \in Works /\ Calm(work[j], r) /\ r.step = "act"
  <2>1. work[j].acts # <<>> /\ work[j].step \in Inside BY <1>1 DEF Works, Inside
  <2>2. QED BY <1>0, <2>1, ActedIs
<1>5. p \in A!People \cup {Nobody} /\ work[j].depth \in Nat /\ work[j].hops = work[j].depth /\ work[j].depth < MaxDepth
  BY <1>1 DEF Works, WorkRecords, Inside
<1>6. h \in Nat /\ h = work[j].depth + 1 /\ h <= MaxDepth BY <1>5, RulesAssumption
<1>7. event \in Works /\ event.conversation = Nobody /\ event.step = "start" /\ event.todo = {}
  <2>1. event = A!Event("lead", Nobody, p, n, 0, h, h) BY <1>6
  <2>2. n \in Leads \cup {0} BY <1>2
  <2>3. p \in A!People \cup {Nobody} BY <1>5
  <2>4. h \in Nat BY <1>6
  <2> HIDE DEF event, n, h, p
  <2>5. QED BY <2>1, <2>2, <2>3, <2>4, LeadsEvent
<1> HIDE DEF n, r, event, h
<1>8. table \in [Handlers -> Works] /\ table[j] = r /\ \A k \in Handlers \ {j} : table[k] = work[k]
  BY <1>0, <1>4 DEF RulesTyped
<1>9. \A k \in Handlers : work[k] = A!Idle => table[k] = A!Idle BY <1>1, <1>8, IdleWork
<1>10. \A k \in Handlers : Calm(work[k], table[k]) BY <1>4, <1>8, CalmSelf
<1>11. A!Slot(1) BY DEF A!MakeLead
<1>12. work' \in [Handlers -> Works] /\ \A k \in Handlers : Calm(work[k], work'[k])
  BY <1>0, <1>3, <1>7, <1>8, <1>9, <1>10, <1>11, EmitCalm
<1>13. work'[j].step # "lead"
  <2>1. PICK k \in Handlers : /\ table[k] = A!Idle /\ A!Emit(table, event)[k] \in {A!Idle, event}
                              /\ \A i \in Handlers \ {k} : A!Emit(table, event)[i] = table[i]
    BY <1>0, <1>7, <1>8, <1>9, <1>11, Emitted
  <2>2. k # j BY <1>4, <1>8, <2>1, IdleWork
  <2>3. QED BY <1>3, <1>4, <1>8, <2>1, <2>2
<1>14. leads' \in [Leads -> LeadRecords] /\ leads'[n].person = p /\ leads'[n].hops = h /\ \A l \in Leads \ {n} : leads'[l] = leads[l]
  <2>1. [status |-> "open", person |-> p, hops |-> h] \in LeadRecords BY <1>5, <1>6 DEF LeadRecords
  <2>2. QED BY <1>0, <1>2, <1>3, <2>1 DEF RulesTyped
<1>15. \A k \in Handlers : CalmRun(work[k], work'[k]) /\ CalmLead(work[k], work'[k]) /\ CalmPlan(work[k], work'[k])
  BY <1>12 DEF Calm
<1>16. RulesTyped' BY <1>0, <1>3, <1>12, <1>14 DEF RulesTyped
<1>17. RepliesKept' BY <1>0, <1>3, <1>15, RepliesStay DEF RuleInv
<1>18. LeadsKept'
  <2>1. A!OneOpenLead'
    <3> SUFFICES ASSUME NEW l \in Leads, NEW k \in Leads, l # k, leads'[l].status = "open", leads'[k].status = "open",
                        leads'[l].person = leads'[k].person
                 PROVE  leads'[l].person \in hurried
      BY <1>3 DEF A!OneOpenLead
    <3>1. \A m \in Leads : leads[m].status = "open" /\ leads[m].person = p => p \in hurried BY <1>0, <1>1 DEF LeadsKept
    <3>2. CASE l = n BY <1>14, <3>1, <3>2
    <3>3. CASE k = n BY <1>14, <3>1, <3>3
    <3>4. CASE l # n /\ k # n BY <1>0, <1>14, <3>4 DEF LeadsKept, A!OneOpenLead
    <3>5. QED BY <3>2, <3>3, <3>4
  <2>2. \A i, k \in Handlers : i # k /\ work'[i].step = "lead" /\ work'[k].step = "lead" /\ work'[i].person = work'[k].person
                               => work'[i].person \in hurried'
    BY <1>0, <1>3, <1>15 DEF LeadsKept, CalmLead
  <2>3. ASSUME NEW i \in Handlers, NEW l \in Leads, work'[i].step = "lead", leads'[l].status = "open",
               leads'[l].person = work'[i].person
        PROVE  work'[i].person \in hurried'
    <3>1. i # j /\ work[i].step = "lead" /\ work'[i].person = work[i].person BY <1>13, <1>15, <2>3 DEF CalmLead
    <3>2. CASE l = n BY <1>0, <1>1, <1>3, <1>14, <2>3, <3>1, <3>2 DEF LeadsKept
    <3>3. CASE l # n BY <1>0, <1>3, <1>14, <2>3, <3>1, <3>3 DEF LeadsKept
    <3>4. QED BY <3>2, <3>3
  <2>4. QED BY <2>1, <2>2, <2>3 DEF LeadsKept
<1>19. DealsKept' /\ StagesKept' BY <1>3, UsersStay
<1>20. PlanKept' BY <1>3, <1>15, PlanStay DEF RuleInv, PlanKept
<1>21. A!ShortChains' BY <1>3, <1>6, <1>14 DEF RuleInv, A!ShortChains
<1>22. QED BY <1>16, <1>17, <1>18, <1>19, <1>20, <1>21 DEF RuleInv

LEMMA CreateLeadHolds ==
    ASSUME RuleInv, NEW p \in A!People, A!createLead(p)
    PROVE  RuleInv'
<1>0. RulesTyped /\ LeadsKept BY DEF RuleInv
<1> DEFINE n == A!New(leads)
           event == A!Event("lead", Nobody, p, n, 0, 0, 0)
<1>2. n \in Leads /\ leads[n].status = "none" BY <1>0, NewLead DEF A!createLead
<1>3. /\ leads' = [leads EXCEPT ![n] = [status |-> "open", person |-> p, hops |-> 0]] /\ work' = A!Emit(work, event)
      /\ A!Opens(p) /\ A!Slot(1)
      /\ UNCHANGED <<runs, answered, twice, active, limit, ran, deals, heard, user, mingled, unrecorded, clashed, untold>>
  BY DEF A!createLead, A!rulebook, A!replies
<1>4. event \in Works /\ event.conversation = Nobody /\ event.step = "start" /\ event.todo = {}
  <2> HIDE DEF n
  <2>1. 0 \in Nat /\ p \in A!People \cup {Nobody} /\ n \in Leads \cup {0} BY <1>2
  <2>2. QED BY <2>1, NobodysEvent
<1> HIDE DEF n, event
<1>5. work \in [Handlers -> Works] /\ \A k \in Handlers : Calm(work[k], work[k]) BY <1>0, CalmSelf DEF RulesTyped
<1>6. work' \in [Handlers -> Works] /\ \A k \in Handlers : Calm(work[k], work'[k])
  BY <1>0, <1>3, <1>4, <1>5, EmitCalm
<1>7. leads' \in [Leads -> LeadRecords] /\ leads'[n].person = p /\ leads'[n].hops = 0 /\ \A l \in Leads \ {n} : leads'[l] = leads[l]
  <2>1. [status |-> "open", person |-> p, hops |-> 0] \in LeadRecords BY DEF LeadRecords
  <2>2. QED BY <1>0, <1>2, <1>3, <2>1 DEF RulesTyped
<1>8. \A k \in Handlers : CalmRun(work[k], work'[k]) /\ CalmLead(work[k], work'[k]) /\ CalmPlan(work[k], work'[k])
  BY <1>6 DEF Calm
<1>9. RulesTyped' BY <1>0, <1>3, <1>6, <1>7 DEF RulesTyped
<1>10. RepliesKept' BY <1>0, <1>3, <1>8, RepliesStay DEF RuleInv
<1>11. LeadsKept' BY <1>0, <1>2, <1>3, <1>7, <1>8, LeadOpens
<1>12. DealsKept' /\ StagesKept' BY <1>3, UsersStay
<1>13. PlanKept' BY <1>3, <1>8, PlanStay DEF RuleInv, PlanKept
<1>14. A!ShortChains' BY <1>3, <1>7, RulesAssumption DEF RuleInv, A!ShortChains
<1>15. QED BY <1>9, <1>10, <1>11, <1>12, <1>13, <1>14 DEF RuleInv

LEMMA EditLeadHolds ==
    ASSUME RuleInv, NEW l \in Leads, NEW status \in {"open", "lost", "converted", "gone"}, A!editLead(l, status)
    PROVE  RuleInv'
<1>1. /\ A!SetLead(l, status)
      /\ UNCHANGED <<runs, answered, twice, active, limit, ran, deals, heard, user, work, mingled, unrecorded, clashed, untold>>
  BY DEF A!editLead, A!rulebook, A!replies
<1>2. work' \in [Handlers -> Works] /\ \A k \in Handlers : Calm(work[k], work'[k])
  BY <1>1, CalmSelf DEF RuleInv, RulesTyped
<1>3. QED BY <1>1, <1>2, SetLeadHolds

\* A new deal is heard of, and the only one of its lead, or excused.
LEMMA DealBegins ==
    ASSUME RulesTyped, StagesKept, A!Room(deals), NEW deal \in DealRecords, deal.stage = "open",
           deals' = [deals EXCEPT ![A!New(deals)] = deal], heard' = [heard EXCEPT ![A!New(deals)] = "open"],
           user' \in [Users -> Requests],
           \A u \in Users : user'[u] = user[u] \/ (user'[u].kind \in {"none", "mark"} /\ user[u].kind # "tell"),
           clashed' = clashed, untold' = untold
    PROVE  /\ deals' \in [Deals -> DealRecords] /\ heard' \in [Deals -> {"none", "open", "closed"}]
           /\ A!New(deals) \in Deals /\ deals'[A!New(deals)] = deal
           /\ \A d \in Deals \ {A!New(deals)} : deals'[d] = deals[d]
           /\ StagesKept'
<1> DEFINE n == A!New(deals)
<1>1. n \in Deals /\ deals[n].stage = "none" BY NewDeal
<1> HIDE DEF n
<1>2. deals' = [deals EXCEPT ![n] = deal] /\ heard' = [heard EXCEPT ![n] = "open"] BY DEF n
<1>3. /\ deals' \in [Deals -> DealRecords] /\ heard' \in [Deals -> {"none", "open", "closed"}]
      /\ deals'[n] = deal /\ heard'[n] = "open"
      /\ \A d \in Deals \ {n} : deals'[d] = deals[d] /\ heard'[d] = heard[d]
  BY <1>1, <1>2 DEF RulesTyped
<1>4. A!StageIsTold'
  <2>1. \A d \in Deals : A!Telling(d) => A!Telling(d)' BY DEF A!Telling
  <2>2. QED BY <1>3, <2>1 DEF StagesKept, A!StageIsTold
<1>5. \A u \in Users : Moving(u)' => Moving(u) /\ user'[u] = user[u] /\ user[u].on \in Deals \ {n}
  BY <1>1 DEF Moving, RulesTyped, Requests, StagesKept
<1>6. StagesKept'
  <2>1. ASSUME NEW u \in Users, Moving(u)' PROVE KnowsStage(u)'
    <3>1. KnowsStage(u) /\ user'[u] = user[u] /\ user[u].on \in Deals \ {n} BY <1>5, <2>1 DEF StagesKept
    <3>2. QED BY <1>3, <3>1 DEF KnowsStage
  <2>2. QED BY <1>3, <1>4, <1>5, <2>1 DEF StagesKept
<1>7. QED BY <1>1, <1>3, <1>6 DEF n

LEMMA MakeDealHolds ==
    ASSUME RuleInv, NEW j \in Handlers, A!MakeDeal(j)
    PROVE  RuleInv'
<1>0. RulesTyped /\ StagesKept BY DEF RuleInv
<1>1. work[j].step = "deal" /\ work[j] \in Works /\ work[j] \in WorkRecords BY <1>0, WorkIs DEF A!MakeDeal
<1> DEFINE deal == [stage |-> "open", person |-> work[j].person, lead |-> work[j].lead, by |-> "rule"]
<1>2. deal \in DealRecords BY <1>1 DEF DealRecords, WorkRecords
<1>3. /\ deals' = [deals EXCEPT ![A!New(deals)] = deal] /\ heard' = [heard EXCEPT ![A!New(deals)] = "open"]
      /\ A!Put(j, A!Acted(j, TRUE)) /\ A!Room(deals)
      /\ UNCHANGED <<runs, answered, twice, active, limit, ran, leads, user, mingled, unrecorded, hurried, clashed, untold>>
  BY DEF A!MakeDeal, A!rulebook, A!replies, A!excuses
<1>4. deal.stage = "open" /\ deal.by = "rule" OBVIOUS
<1> HIDE DEF deal
<1>5. A!Acted(j, TRUE) \in Works /\ Calm(work[j], A!Acted(j, TRUE))
  <2>1. work[j].acts # <<>> /\ work[j].step \in Inside BY <1>1 DEF Works, Inside
  <2>2. QED BY <1>0, <2>1, ActedIs
<1>6. work' \in [Handlers -> Works] /\ \A k \in Handlers : Calm(work[k], work'[k]) BY <1>0, <1>3, <1>5, PutCalm
<1>7. \A k \in Handlers : CalmRun(work[k], work'[k]) /\ CalmLead(work[k], work'[k]) /\ CalmPlan(work[k], work'[k])
  BY <1>6 DEF Calm
<1>8. user' \in [Users -> Requests] /\ \A u \in Users : user'[u] = user[u] BY <1>0, <1>3 DEF RulesTyped
<1>9. /\ deals' \in [Deals -> DealRecords] /\ heard' \in [Deals -> {"none", "open", "closed"}]
      /\ A!New(deals) \in Deals /\ deals'[A!New(deals)] = deal
      /\ \A d \in Deals \ {A!New(deals)} : deals'[d] = deals[d]
      /\ StagesKept'
  BY <1>0, <1>2, <1>3, <1>4, <1>8, DealBegins
<1>10. RulesTyped' BY <1>0, <1>3, <1>6, <1>9 DEF RulesTyped
<1>11. RepliesKept' BY <1>0, <1>3, <1>7, RepliesStay DEF RuleInv
<1>12. LeadsKept' BY <1>3, <1>7, LeadsStay DEF RuleInv
<1>13. DealsKept'
  <2>1. \A d \in Deals : ByUser(d)' => ByUser(d) /\ deals'[d].lead = deals[d].lead BY <1>4, <1>9 DEF ByUser
  <2>2. QED BY <1>3, <1>8, <2>1, DealsStay DEF RuleInv
<1>14. PlanKept' BY <1>3, <1>7, PlanStay DEF RuleInv, PlanKept
<1>15. A!ShortChains' BY <1>3 DEF RuleInv, A!ShortChains
<1>16. QED BY <1>9, <1>10, <1>11, <1>12, <1>13, <1>14, <1>15 DEF RuleInv

\* Steps that no handler takes and no lead feels.
LEMMA ElsewhereStays ==
    ASSUME RuleInv, UNCHANGED <<work, leads, runs, answered, twice, active, limit, ran, mingled, unrecorded, hurried>>
    PROVE  RepliesKept' /\ LeadsKept' /\ PlanKept' /\ A!ShortChains'
<1>1. \A k \in Handlers : CalmRun(work[k], work'[k]) /\ CalmLead(work[k], work'[k]) /\ CalmPlan(work[k], work'[k])
  BY CalmSelf DEF Calm
<1>2. RepliesKept' BY <1>1, RepliesStay DEF RuleInv
<1>3. LeadsKept' BY <1>1, LeadsStay DEF RuleInv
<1>4. PlanKept' BY <1>1, PlanStay DEF RuleInv, PlanKept
<1>5. QED BY <1>2, <1>3, <1>4 DEF RuleInv, A!ShortChains

LEMMA EnterOne ==
    ASSUME RulesTyped, NEW u \in Users, NEW q \in Requests, A!Enter(u, q)
    PROVE  user' \in [Users -> Requests] /\ user'[u] = q /\ \A v \in Users \ {u} : user'[v] = user[v]
BY DEF RulesTyped, A!Enter

LEMMA AwayIs == A!Away \in Requests /\ A!Away.kind = "none"
BY DEF A!Away, Requests, UserRecords

LEMMA ConvertToDealHolds ==
    ASSUME RuleInv, NEW u \in Users, NEW l \in Leads, A!convertToDeal(u, l)
    PROVE  RuleInv'
<1>0. RulesTyped /\ DealsKept /\ StagesKept BY DEF RuleInv
<1> DEFINE q == [A!Away EXCEPT !.kind = "convert", !.on = l]
<1>1. q \in Requests
  <2>1. l \in Nat BY RulesAssumption DEF Leads
  <2>2. QED BY <2>1 DEF A!Away, Requests, UserRecords
<1>2. q.kind = "convert" /\ q.on = l BY DEF A!Away
<1>3. /\ A!Enter(u, q) /\ ~A!Already(l) /\ user[u].kind = "none"
      /\ clashed' = IF \E v \in Users : user[v].kind = "convert" /\ user[v].on = l THEN clashed \cup {<<"lead", l>>} ELSE clashed
      /\ UNCHANGED <<work, leads, deals, heard, runs, answered, twice, active, limit, ran, mingled, unrecorded, hurried, untold>>
  BY AwayIs DEF A!convertToDeal, A!rulebook, A!crm, A!replies
<1> HIDE DEF q
<1>4. user' \in [Users -> Requests] /\ user'[u] = q /\ \A v \in Users \ {u} : user'[v] = user[v] BY <1>0, <1>1, <1>3, EnterOne
<1>5. RulesTyped' BY <1>0, <1>3, <1>4 DEF RulesTyped
<1>6. RepliesKept' /\ LeadsKept' /\ PlanKept' /\ A!ShortChains' BY <1>3, ElsewhereStays
<1>7. clashed \subseteq clashed' /\ \A d \in Deals : ByUser(d)' <=> ByUser(d) BY <1>3 DEF ByUser
<1>8. DealsKept'
  <2>1. A!ConvertsOnce' BY <1>0, <1>3, <1>7 DEF DealsKept, A!ConvertsOnce
  <2>2. \A v \in Users \ {u} : user[v].kind = "convert" /\ user[v].on = l => <<"lead", l>> \in clashed' BY <1>3
  <2>3. ASSUME NEW v \in Users, NEW w \in Users, v # w, user'[v].kind = "convert", user'[w].kind = "convert", user'[v].on = user'[w].on
        PROVE  <<"lead", user'[v].on>> \in clashed'
    <3>1. CASE v = u BY <1>2, <1>4, <2>2, <2>3, <3>1
    <3>2. CASE w = u BY <1>2, <1>4, <2>2, <2>3, <3>2
    <3>3. CASE v # u /\ w # u BY <1>0, <1>4, <1>7, <2>3, <3>3 DEF DealsKept
    <3>4. QED BY <3>1, <3>2, <3>3
  <2>4. ASSUME NEW v \in Users, NEW d \in Deals, user'[v].kind = "convert", ByUser(d)', deals'[d].lead = user'[v].on
        PROVE  <<"lead", user'[v].on>> \in clashed'
    <3>1. CASE v = u BY <1>2, <1>3, <1>4, <2>4, <3>1 DEF A!Already, ByUser
    <3>2. CASE v # u BY <1>0, <1>3, <1>4, <1>7, <2>4, <3>2 DEF DealsKept
    <3>3. QED BY <3>1, <3>2
  <2>5. QED BY <2>1, <2>3, <2>4 DEF DealsKept
<1>9. StagesKept'
  <2>1. \A v \in Users : Moving(v)' => user'[v] = user[v] BY <1>2, <1>4 DEF Moving
  <2>2. \A v \in Users : user[v].kind = "tell" => user'[v] = user[v] BY <1>3, <1>4
  <2>3. QED BY <1>0, <1>3, <1>7, <2>1, <2>2, StagesStay
<1>10. QED BY <1>5, <1>6, <1>8, <1>9 DEF RuleInv

LEMMA ConvertDealHolds ==
    ASSUME RuleInv, NEW u \in Users, A!ConvertDeal(u)
    PROVE  RuleInv'
<1>0. RulesTyped /\ DealsKept /\ StagesKept BY DEF RuleInv
<1> DEFINE l == user[u].on
           deal == [stage |-> "open", person |-> leads[l].person, lead |-> l, by |-> "user"]
           q == [user[u] EXCEPT !.kind = "mark"]
<1>1. user[u].kind = "convert" /\ user[u] \in Requests /\ user[u] \in UserRecords /\ l \in Leads
  BY <1>0, RequestIs DEF A!ConvertDeal, Requests
<1>2. deal \in DealRecords BY <1>0, <1>1 DEF DealRecords, RulesTyped, LeadRecords
<1>3. q \in Requests /\ q.kind = "mark" BY <1>1 DEF Requests, UserRecords
<1>4. /\ deals' = [deals EXCEPT ![A!New(deals)] = deal] /\ heard' = [heard EXCEPT ![A!New(deals)] = "open"]
      /\ A!Enter(u, q) /\ A!Room(deals)
      /\ UNCHANGED <<work, leads, runs, answered, twice, active, limit, ran, mingled, unrecorded, hurried, clashed, untold>>
  BY DEF A!ConvertDeal, A!rulebook, A!replies, A!excuses
<1>5. deal.stage = "open" /\ deal.lead = l OBVIOUS
<1> HIDE DEF deal, q
<1>6. user' \in [Users -> Requests] /\ user'[u] = q /\ \A v \in Users \ {u} : user'[v] = user[v] BY <1>0, <1>3, <1>4, EnterOne
<1>7. /\ deals' \in [Deals -> DealRecords] /\ heard' \in [Deals -> {"none", "open", "closed"}]
      /\ A!New(deals) \in Deals /\ deals'[A!New(deals)] = deal
      /\ \A d \in Deals \ {A!New(deals)} : deals'[d] = deals[d]
      /\ StagesKept'
  BY <1>0, <1>1, <1>2, <1>3, <1>4, <1>5, <1>6, DealBegins
<1>8. RulesTyped' BY <1>0, <1>4, <1>6, <1>7 DEF RulesTyped
<1>9. RepliesKept' /\ LeadsKept' /\ PlanKept' /\ A!ShortChains' BY <1>4, ElsewhereStays
<1>10. DealsKept'
  <2> DEFINE n == A!New(deals)
  <2>1. \A d \in Deals : ByUser(d) /\ deals[d].lead = l => <<"lead", l>> \in clashed BY <1>0, <1>1 DEF DealsKept
  <2>2. \A v \in Users \ {u} : user[v].kind = "convert" /\ user[v].on = l => <<"lead", l>> \in clashed BY <1>0, <1>1 DEF DealsKept
  <2>3. deals'[n].lead = l /\ \A d \in Deals \ {n} : deals'[d] = deals[d] BY <1>5, <1>7
  <2> HIDE DEF n
  <2>4. A!ConvertsOnce'
    <3> SUFFICES ASSUME NEW d \in Deals, NEW e \in Deals, d # e, deals'[d].by = "user", deals'[e].by = "user",
                        deals'[d].lead = deals'[e].lead, deals'[d].stage # "gone", deals'[e].stage # "gone"
                 PROVE  <<"lead", deals'[d].lead>> \in clashed
      BY <1>4 DEF A!ConvertsOnce
    <3>1. CASE d = n BY <2>1, <2>3, <3>1 DEF ByUser
    <3>2. CASE e = n BY <2>1, <2>3, <3>2 DEF ByUser
    <3>3. CASE d # n /\ e # n BY <1>0, <2>3, <3>3 DEF DealsKept, A!ConvertsOnce
    <3>4. QED BY <3>1, <3>2, <3>3
  <2>5. \A v \in Users : user'[v].kind = "convert" => v # u /\ user'[v] = user[v] BY <1>3, <1>6
  <2>6. \A v, w \in Users : v # w /\ user'[v].kind = "convert" /\ user'[w].kind = "convert" /\ user'[v].on = user'[w].on
                            => <<"lead", user'[v].on>> \in clashed'
    BY <1>0, <1>4, <2>5 DEF DealsKept
  <2>7. ASSUME NEW v \in Users, NEW d \in Deals, user'[v].kind = "convert", ByUser(d)', deals'[d].lead = user'[v].on
        PROVE  <<"lead", user'[v].on>> \in clashed'
    <3>1. CASE d = n BY <1>4, <2>2, <2>3, <2>5, <2>7, <3>1
    <3>2. CASE d # n BY <1>0, <1>4, <2>3, <2>5, <2>7, <3>2 DEF DealsKept, ByUser
    <3>3. QED BY <3>1, <3>2
  <2>8. QED BY <2>4, <2>6, <2>7 DEF DealsKept
<1>11. QED BY <1>7, <1>8, <1>9, <1>10 DEF RuleInv

LEMMA MarkLeadHolds ==
    ASSUME RuleInv, NEW u \in Users, A!MarkLead(u)
    PROVE  RuleInv'
<1>0. RulesTyped BY DEF RuleInv
<1>1. user[u].on \in Leads /\ user[u].kind = "mark" BY <1>0, RequestIs DEF A!MarkLead, Requests
<1>2. /\ A!Enter(u, A!Away) /\ (leads' = leads \/ leads' = [leads EXCEPT ![user[u].on].status = "converted"])
      /\ UNCHANGED <<work, deals, heard, runs, answered, twice, active, limit, ran, mingled, unrecorded, hurried, clashed, untold>>
  BY DEF A!MarkLead, A!rulebook, A!replies, A!excuses
<1>3. user' \in [Users -> Requests] /\ user'[u] = A!Away /\ \A v \in Users \ {u} : user'[v] = user[v]
  BY <1>0, <1>2, AwayIs, EnterOne
<1>4. \A v \in Users : /\ user'[v] = user[v] \/ user'[v].kind \in {"none", "mark"}
                       /\ user[v].kind = "tell" => user'[v] = user[v]
  BY <1>1, <1>3, AwayIs
<1>5. /\ leads' \in [Leads -> LeadRecords]
      /\ \A l \in Leads : leads'[l].status = "open" => leads[l].status = "open" /\ leads'[l].person = leads[l].person
      /\ \A l \in Leads : leads'[l].hops = leads[l].hops
  <2>0. leads \in [Leads -> LeadRecords] BY <1>0 DEF RulesTyped
  <2>1. CASE leads' = leads BY <2>0, <2>1
  <2>2. CASE leads' = [leads EXCEPT ![user[u].on].status = "converted"] BY <1>1, <2>0, <2>2 DEF LeadRecords
  <2>3. QED BY <1>2, <2>1, <2>2
<1>6. work' \in [Handlers -> Works] /\ \A k \in Handlers : Calm(work[k], work'[k]) BY <1>0, <1>2, CalmSelf DEF RulesTyped
<1>7. QED BY <1>2, <1>3, <1>4, <1>5, <1>6, Undisturbed

LEMMA MoveDealBegins ==
    ASSUME RuleInv, NEW u \in Users, NEW d \in Deals, NEW stage \in {"open", "closed"}, A!moveDeal(u, d, stage)
    PROVE  RuleInv'
<1>0. RulesTyped /\ DealsKept /\ StagesKept BY DEF RuleInv
<1> DEFINE q == [kind |-> "move", on |-> d, before |-> deals[d].stage, after |-> stage]
<1>1. q \in Requests
  <2>1. deals[d].stage \in {"none", "open", "closed", "gone"} BY <1>0 DEF RulesTyped, DealRecords
  <2>2. d \in Nat BY RulesAssumption DEF Deals
  <2>3. QED BY <2>1, <2>2 DEF Requests, UserRecords
<1>2. q.kind = "move" /\ q.on = d /\ q.before = deals[d].stage OBVIOUS
<1>3. /\ A!Enter(u, q) /\ deals[d].stage # "none" /\ user[u].kind = "none"
      /\ clashed' = IF \E v \in Users : user[v].kind \in {"move", "tell"} /\ user[v].on = d
                    THEN clashed \cup {<<"deal", d>>} ELSE clashed
      /\ UNCHANGED <<work, leads, deals, heard, runs, answered, twice, active, limit, ran, mingled, unrecorded, hurried, untold>>
  BY AwayIs DEF A!moveDeal, A!rulebook, A!crm, A!replies
<1> HIDE DEF q
<1>4. user' \in [Users -> Requests] /\ user'[u] = q /\ \A v \in Users \ {u} : user'[v] = user[v] BY <1>0, <1>1, <1>3, EnterOne
<1>5. RulesTyped' BY <1>0, <1>3, <1>4 DEF RulesTyped
<1>6. RepliesKept' /\ LeadsKept' /\ PlanKept' /\ A!ShortChains' BY <1>3, ElsewhereStays
<1>7. clashed \subseteq clashed' /\ \A e \in Deals : ByUser(e)' <=> ByUser(e) BY <1>3 DEF ByUser
<1>8. DealsKept'
  <2>1. \A v \in Users : user'[v].kind = "convert" => user[v].kind = "convert" /\ user'[v].on = user[v].on BY <1>2, <1>4
  <2>2. QED BY <1>0, <1>3, <1>7, <2>1, DealsStay
<1>9. StagesKept'
  <2>0. \A e \in Deals : A!Telling(e)' <=> A!Telling(e) BY <1>2, <1>3, <1>4 DEF A!Telling
  <2>1. A!StageIsTold' BY <1>0, <1>3, <1>7, <2>0 DEF StagesKept, A!StageIsTold
  <2>2. \A v \in Users \ {u} : Moving(v) /\ user[v].on = d => <<"deal", d>> \in clashed' BY <1>3 DEF Moving
  <2>3. \A v \in Users \ {u} : (Moving(v)' <=> Moving(v)) /\ user'[v] = user[v] BY <1>4 DEF Moving
  <2>4. ASSUME NEW v \in Users, NEW w \in Users, v # w, Moving(v)', Moving(w)', user'[v].on = user'[w].on
        PROVE  <<"deal", user'[v].on>> \in clashed'
    <3>1. CASE v = u BY <1>2, <1>4, <2>2, <2>3, <2>4, <3>1
    <3>2. CASE w = u BY <1>2, <1>4, <2>2, <2>3, <2>4, <3>2
    <3>3. CASE v # u /\ w # u BY <1>0, <1>7, <2>3, <2>4, <3>3 DEF StagesKept
    <3>4. QED BY <3>1, <3>2, <3>3
  <2>5. \A v \in Users : Moving(v)' => deals'[user'[v].on].stage # "none" BY <1>0, <1>2, <1>3, <1>4, <2>3 DEF StagesKept
  <2>6. ASSUME NEW v \in Users, Moving(v)' PROVE KnowsStage(v)'
    <3>1. CASE v = u BY <1>2, <1>3, <1>4, <3>1 DEF KnowsStage
    <3>2. CASE v # u
      <4>1. KnowsStage(v) /\ user'[v] = user[v] BY <1>0, <2>3, <2>6, <3>2 DEF StagesKept
      <4>2. QED BY <1>3, <1>7, <4>1 DEF KnowsStage
    <3>3. QED BY <3>1, <3>2
  <2>7. QED BY <2>1, <2>4, <2>5, <2>6 DEF StagesKept
<1>10. QED BY <1>5, <1>6, <1>8, <1>9 DEF RuleInv

LEMMA MoveDealHolds ==
    ASSUME RuleInv, NEW u \in Users, A!MoveDeal(u)
    PROVE  RuleInv'
<1>0. RulesTyped /\ DealsKept /\ StagesKept BY DEF RuleInv
<1> DEFINE d == user[u].on
           stage == user[u].after
           there == deals[d].stage # "gone"
           q == IF there THEN [user[u] EXCEPT !.kind = "tell"] ELSE A!Away
<1>1. d \in Deals /\ stage \in {"open", "closed"} /\ Moving(u) /\ user[u].kind = "move"
  BY <1>0, RequestIs DEF A!MoveDeal, Requests, Moving
<1>2. /\ deals' = IF there THEN [deals EXCEPT ![d].stage = stage] ELSE deals
      /\ untold' = IF there /\ A!Changed(u) THEN untold \ {d} ELSE untold
      /\ A!Enter(u, q)
      /\ UNCHANGED <<work, leads, heard, runs, answered, twice, active, limit, ran, mingled, unrecorded, hurried, clashed>>
  BY DEF A!MoveDeal, A!rulebook, A!replies
<1>3. /\ q \in Requests /\ q.kind \in {"none", "tell"}
      /\ there => q.kind = "tell" /\ q.on = d /\ q.before = user[u].before /\ q.after = stage
      /\ ~there => q = A!Away
  <2>1. user[u] \in Requests /\ user[u] \in UserRecords BY <1>0, RequestIs
  <2>2. CASE there BY <1>1, <2>1, <2>2 DEF Requests, UserRecords
  <2>3. CASE ~there BY <2>3, AwayIs
  <2>4. QED BY <2>2, <2>3
<1> HIDE DEF q
<1>4. user' \in [Users -> Requests] /\ user'[u] = q /\ \A v \in Users \ {u} : user'[v] = user[v] BY <1>0, <1>2, <1>3, EnterOne
<1>5. /\ deals' \in [Deals -> DealRecords] /\ deals'[d].stage = IF there THEN stage ELSE deals[d].stage
      /\ deals'[d].by = deals[d].by /\ deals'[d].lead = deals[d].lead
      /\ \A e \in Deals \ {d} : deals'[e] = deals[e]
  BY <1>0, <1>1, <1>2 DEF RulesTyped, DealRecords
<1>6. RulesTyped' BY <1>0, <1>2, <1>4, <1>5 DEF RulesTyped
<1>7. RepliesKept' /\ LeadsKept' /\ PlanKept' /\ A!ShortChains' BY <1>2, ElsewhereStays
<1>8. DealsKept'
  <2>1. \A e \in Deals : ByUser(e)' => ByUser(e) /\ deals'[e].lead = deals[e].lead BY <1>5 DEF ByUser
  <2>2. \A v \in Users : user'[v].kind = "convert" => user[v].kind = "convert" /\ user'[v].on = user[v].on BY <1>3, <1>4
  <2>3. QED BY <1>0, <1>2, <2>1, <2>2, DealsStay
<1>9. StagesKept'
  <2>1. \A v \in Users : Moving(v)' => /\ Moving(v) /\ user[v].on \in Deals /\ user'[v].on = user[v].on
                                       /\ v = u => there
    BY <1>0, <1>1, <1>3, <1>4, AwayIs, RequestIs DEF Moving, Requests
  <2>2. \A v \in Users \ {u} : Moving(v) /\ user[v].on = d => <<"deal", d>> \in clashed BY <1>0, <1>1 DEF StagesKept
  <2>3. A!StageIsTold'
    <3> SUFFICES ASSUME NEW e \in Deals, deals'[e].stage \in {"open", "closed"}, ~A!Telling(e)', e \notin untold',
                        <<"deal", e>> \notin clashed'
                 PROVE  heard'[e] = deals'[e].stage
      BY DEF A!StageIsTold
    <3>1. e # d BY <1>3, <1>4, <1>5 DEF A!Telling
    <3>2. ~A!Telling(e) BY <1>1, <1>4 DEF A!Telling
    <3>3. e \notin untold BY <1>2, <3>1
    <3>4. QED BY <1>0, <1>2, <1>5, <3>1, <3>2, <3>3 DEF StagesKept, A!StageIsTold
  <2>4. \A v, w \in Users : v # w /\ Moving(v)' /\ Moving(w)' /\ user'[v].on = user'[w].on => <<"deal", user'[v].on>> \in clashed'
    BY <1>0, <1>2, <2>1 DEF StagesKept
  <2>5. \A v \in Users : Moving(v)' => deals'[user'[v].on].stage # "none"
    <3> SUFFICES ASSUME NEW v \in Users, Moving(v)' PROVE deals'[user'[v].on].stage # "none" OBVIOUS
    <3>1. user'[v].on \in Deals /\ deals[user'[v].on].stage # "none" BY <1>0, <2>1 DEF StagesKept
    <3>2. QED BY <1>1, <1>5, <3>1
  <2>6. ASSUME there, <<"deal", d>> \notin clashed, d \notin untold', user[u].before = stage PROVE heard[d] = stage
    <3>1. d \notin untold BY <1>2, <2>6 DEF A!Changed
    <3>2. deals[d].stage = stage BY <1>0, <1>1, <2>6, <3>1 DEF StagesKept, KnowsStage
    <3>3. ~A!Telling(d) BY <1>1, <2>2, <2>6 DEF A!Telling, Moving
    <3>4. QED BY <1>0, <1>1, <2>6, <3>1, <3>2, <3>3 DEF StagesKept, A!StageIsTold
  <2>7. ASSUME NEW v \in Users, Moving(v)' PROVE KnowsStage(v)'
    <3>1. CASE v = u BY <1>2, <1>3, <1>4, <1>5, <2>1, <2>6, <2>7, <3>1 DEF KnowsStage
    <3>2. CASE v # u /\ user[v].on = d BY <1>2, <2>1, <2>2, <2>7, <3>2 DEF KnowsStage
    <3>3. CASE v # u /\ user[v].on # d
      <4>1. KnowsStage(v) /\ user'[v] = user[v] /\ user[v].on \in Deals \ {d} BY <1>0, <1>4, <2>1, <2>7, <3>3 DEF StagesKept
      <4>2. deals'[user[v].on] = deals[user[v].on] /\ (user[v].on \in untold => user[v].on \in untold') BY <1>2, <1>5, <4>1
      <4>3. QED BY <1>2, <4>1, <4>2 DEF KnowsStage
    <3>4. QED BY <3>1, <3>2, <3>3
  <2>8. QED BY <2>3, <2>4, <2>5, <2>7 DEF StagesKept
<1>10. QED BY <1>6, <1>7, <1>8, <1>9 DEF RuleInv

\* What is told disturbs no handler.
LEMMA ToldCalm ==
    ASSUME RulesTyped, NEW u \in Users, user[u].kind = "tell", A!Slot(IF A!Heard("updated") /\ A!Heard("stage") THEN 2 ELSE 1)
    PROVE  A!Told(u) \in [Handlers -> Works] /\ \A k \in Handlers : Calm(work[k], A!Told(u)[k])
<1> DEFINE d == user[u].on
           p == deals[d].person
           one == A!Event("updated", Nobody, p, 0, d, 0, 0)
           two == A!Event("stage", Nobody, p, 0, d, 0, 0)
           updated == A!Emit(work, one)
<1>1. d \in Deals /\ p \in A!People \cup {Nobody} BY RequestIs DEF Requests, RulesTyped, DealRecords
<1>2. /\ one \in Works /\ one.conversation = Nobody /\ one.step = "start" /\ one.todo = {}
      /\ two \in Works /\ two.conversation = Nobody /\ two.step = "start" /\ two.todo = {}
  <2>1. d \in Deals \cup {0} /\ 0 \in Leads \cup {0} /\ 0 \in Nat BY <1>1
  <2> HIDE DEF d, p
  <2>2. QED BY <1>1, <2>1, NobodysEvent
<1>3. one.trigger = "updated" /\ two.trigger = "stage" BY DEF A!Event, A!Idle
<1>4. A!Told(u) = IF A!Changed(u) THEN A!Emit(updated, two) ELSE updated BY DEF A!Told
<1> HIDE DEF d, p, one, two
<1>5. \E k \in Handlers : work[k] = A!Idle
  <2>1. ASSUME {k \in Handlers : work[k] = A!Idle} = {} PROVE FALSE BY <2>1, RulesCounted, FS_EmptySet DEF A!Slot
  <2>2. QED BY <2>1
<1>6. work \in [Handlers -> Works] /\ \A k \in Handlers : Calm(work[k], work[k]) BY CalmSelf DEF RulesTyped
<1>7. updated \in [Handlers -> Works] /\ \A k \in Handlers : Calm(work[k], updated[k]) BY <1>2, <1>5, <1>6, EmitsCalm
<1>8. ~A!Heard("stage") \/ \E k \in Handlers : updated[k] = A!Idle
  <2>1. CASE ~A!Heard("updated") BY <1>3, <1>5, <2>1 DEF A!Emit
  <2>2. CASE A!Heard("updated") /\ A!Heard("stage")
    <3>1. A!Slot(2) BY <2>2
    <3>2. PICK k \in Handlers : \A i \in Handlers \ {k} : updated[i] = work[i] BY <1>2, <1>5, <1>6, EmitsInto
    <3>3. PICK i \in Handlers \ {k} : work[i] = A!Idle BY <3>1, SlotsFree
    <3>4. QED BY <3>2, <3>3
  <2>3. QED BY <2>1, <2>2
<1> HIDE DEF updated
<1>9. CASE A!Changed(u) BY <1>2, <1>3, <1>4, <1>7, <1>8, <1>9, EmitsCalm
<1>10. CASE ~A!Changed(u) BY <1>4, <1>7, <1>10
<1>11. QED BY <1>9, <1>10

LEMMA TellDealHolds ==
    ASSUME RuleInv, NEW u \in Users, A!TellDeal(u)
    PROVE  RuleInv'
<1>0. RulesTyped /\ DealsKept /\ StagesKept BY DEF RuleInv
<1> DEFINE d == user[u].on
           stage == user[u].after
<1>1. d \in Deals /\ stage \in {"open", "closed"} /\ Moving(u) /\ user[u].kind = "tell"
  BY <1>0, RequestIs DEF A!TellDeal, Requests, Moving
<1>2. /\ work' = A!Told(u) /\ heard' = IF A!Changed(u) THEN [heard EXCEPT ![d] = stage] ELSE heard
      /\ A!Enter(u, A!Away)
      /\ UNCHANGED <<deals, leads, runs, answered, twice, active, limit, ran, mingled, unrecorded, hurried, clashed, untold>>
  BY DEF A!TellDeal, A!rulebook, A!crm, A!replies, A!excuses
<1>3. work' \in [Handlers -> Works] /\ \A k \in Handlers : Calm(work[k], work'[k])
  <2>1. A!Slot(IF A!Heard("updated") /\ A!Heard("stage") THEN 2 ELSE 1) BY DEF A!TellDeal
  <2>2. QED BY <1>0, <1>1, <1>2, <2>1, ToldCalm
<1>4. user' \in [Users -> Requests] /\ user'[u] = A!Away /\ \A v \in Users \ {u} : user'[v] = user[v]
  BY <1>0, <1>2, AwayIs, EnterOne
<1>5. \A k \in Handlers : CalmRun(work[k], work'[k]) /\ CalmLead(work[k], work'[k]) /\ CalmPlan(work[k], work'[k])
  BY <1>3 DEF Calm
<1>6. /\ heard' \in [Deals -> {"none", "open", "closed"}] /\ heard'[d] = IF A!Changed(u) THEN stage ELSE heard[d]
      /\ \A e \in Deals \ {d} : heard'[e] = heard[e]
  BY <1>0, <1>1, <1>2 DEF RulesTyped
<1>7. RulesTyped' BY <1>0, <1>2, <1>3, <1>4, <1>6 DEF RulesTyped
<1>8. RepliesKept' BY <1>0, <1>2, <1>5, RepliesStay DEF RuleInv
<1>9. LeadsKept' BY <1>2, <1>5, LeadsStay DEF RuleInv
<1>10. DealsKept'
  <2>1. \A e \in Deals : ByUser(e)' => ByUser(e) /\ deals'[e].lead = deals[e].lead BY <1>2 DEF ByUser
  <2>2. \A v \in Users : user'[v].kind = "convert" => user[v].kind = "convert" /\ user'[v].on = user[v].on BY <1>4, AwayIs
  <2>3. QED BY <1>0, <1>2, <2>1, <2>2, DealsStay
<1>11. StagesKept'
  <2>1. \A v \in Users : Moving(v)' => v # u /\ Moving(v) /\ user'[v] = user[v] /\ user[v].on \in Deals
    BY <1>0, <1>4, AwayIs, RequestIs DEF Moving, Requests
  <2>2. \A v \in Users : Moving(v)' /\ user[v].on = d => <<"deal", d>> \in clashed BY <1>0, <1>1, <2>1 DEF StagesKept
  <2>3. A!StageIsTold'
    <3> SUFFICES ASSUME NEW e \in Deals, deals'[e].stage \in {"open", "closed"}, ~A!Telling(e)', e \notin untold',
                        <<"deal", e>> \notin clashed'
                 PROVE  heard'[e] = deals'[e].stage
      BY DEF A!StageIsTold
    <3>1. CASE e = d
      <4>1. stage = deals[d].stage /\ (user[u].before = stage => heard[d] = stage)
        BY <1>0, <1>1, <1>2, <3>1 DEF StagesKept, KnowsStage
      <4>2. QED BY <1>2, <1>6, <3>1, <4>1 DEF A!Changed
    <3>2. CASE e # d
      <4>1. ~A!Telling(e) BY <1>4, <3>2 DEF A!Telling
      <4>2. QED BY <1>0, <1>2, <1>6, <3>2, <4>1 DEF StagesKept, A!StageIsTold
    <3>3. QED BY <3>1, <3>2
  <2>4. \A v, w \in Users : v # w /\ Moving(v)' /\ Moving(w)' /\ user'[v].on = user'[w].on => <<"deal", user'[v].on>> \in clashed'
    BY <1>0, <1>2, <2>1 DEF StagesKept
  <2>5. \A v \in Users : Moving(v)' => deals'[user'[v].on].stage # "none" BY <1>0, <1>2, <2>1 DEF StagesKept
  <2>6. ASSUME NEW v \in Users, Moving(v)' PROVE KnowsStage(v)'
    <3>1. CASE user[v].on = d BY <1>2, <2>1, <2>2, <2>6, <3>1 DEF KnowsStage
    <3>2. CASE user[v].on # d
      <4>1. KnowsStage(v) /\ user'[v] = user[v] /\ heard'[user[v].on] = heard[user[v].on]
        BY <1>0, <1>6, <2>1, <2>6, <3>2 DEF StagesKept
      <4>2. QED BY <1>2, <4>1 DEF KnowsStage
    <3>3. QED BY <3>1, <3>2
  <2>7. QED BY <2>3, <2>4, <2>5, <2>6 DEF StagesKept
<1>12. PlanKept' BY <1>2, <1>5, PlanStay DEF RuleInv, PlanKept
<1>13. A!ShortChains' BY <1>2 DEF RuleInv, A!ShortChains
<1>14. QED BY <1>7, <1>8, <1>9, <1>10, <1>11, <1>12, <1>13 DEF RuleInv

LEMMA UserFailsHolds ==
    ASSUME RuleInv, NEW u \in Users, A!RequestFails(u)
    PROVE  RuleInv'
<1>0. RulesTyped BY DEF RuleInv
<1>1. /\ A!Enter(u, A!Away)
      /\ untold' = IF user[u].kind = "tell" /\ A!Changed(u) THEN untold \cup {user[u].on} ELSE untold
      /\ UNCHANGED <<work, leads, deals, heard, runs, answered, twice, active, limit, ran, mingled, unrecorded, hurried, clashed>>
  BY DEF A!RequestFails, A!rulebook, A!crm, A!replies
<1>2. user' \in [Users -> Requests] /\ user'[u] = A!Away /\ \A v \in Users \ {u} : user'[v] = user[v]
  BY <1>0, <1>1, AwayIs, EnterOne
<1>3. \A v \in Users : /\ user'[v] = user[v] \/ user'[v].kind \in {"none", "mark"}
                       /\ user[v].kind = "tell" =>
                            user'[v] = user[v] \/ user[v].before = user[v].after \/ user[v].on \in untold'
  BY <1>1, <1>2, AwayIs DEF A!Changed
<1>4. work' \in [Handlers -> Works] /\ \A k \in Handlers : Calm(work[k], work'[k]) BY <1>0, <1>1, CalmSelf DEF RulesTyped
<1>5. leads' \in [Leads -> LeadRecords] /\ untold \subseteq untold' BY <1>0, <1>1 DEF RulesTyped
<1>6. QED BY <1>1, <1>2, <1>3, <1>4, <1>5, Undisturbed

LEMMA RemoveDealHolds ==
    ASSUME RuleInv, NEW d \in Deals, A!removeDeal(d)
    PROVE  RuleInv'
<1>0. RulesTyped /\ DealsKept /\ StagesKept BY DEF RuleInv
<1>1. /\ deals' = [deals EXCEPT ![d].stage = "gone"]
      /\ UNCHANGED <<work, user, heard, leads, runs, answered, twice, active, limit, ran, mingled, unrecorded, hurried, clashed, untold>>
  BY DEF A!removeDeal, A!rulebook, A!replies, A!excuses
<1>2. /\ deals' \in [Deals -> DealRecords] /\ deals'[d].stage = "gone" /\ deals'[d].by = deals[d].by /\ deals'[d].lead = deals[d].lead
      /\ \A e \in Deals \ {d} : deals'[e] = deals[e]
  BY <1>0, <1>1 DEF RulesTyped, DealRecords
<1>3. RulesTyped' BY <1>0, <1>1, <1>2 DEF RulesTyped
<1>4. RepliesKept' /\ LeadsKept' /\ PlanKept' /\ A!ShortChains' BY <1>1, ElsewhereStays
<1>5. DealsKept'
  <2>1. \A e \in Deals : ByUser(e)' => ByUser(e) /\ deals'[e].lead = deals[e].lead BY <1>2 DEF ByUser
  <2>2. QED BY <1>0, <1>1, <2>1, DealsStay
<1>6. StagesKept' BY <1>0, <1>1, <1>2, StagesStay
<1>7. QED BY <1>3, <1>4, <1>5, <1>6 DEF RuleInv

\* A message that comes while another of its conversation is at work mingles with it.
LEMMA MessageHolds ==
    ASSUME RuleInv, NEW c \in Conversations, A!MessageReceived(c)
    PROVE  RuleInv'
<1>0. RulesTyped /\ RepliesKept BY DEF RuleInv
<1> DEFINE event == A!Event("message", c, PersonOf[c], 0, 0, 0, 0)
<1>1. /\ work' = A!Emit(work, event) /\ A!Slot(1)
      /\ mingled' = IF \E j \in Handlers : work[j].trigger = "message" /\ work[j].conversation = c THEN mingled \cup {c} ELSE mingled
      /\ UNCHANGED <<user, leads, deals, heard, runs, answered, twice, active, limit, ran, unrecorded, hurried, clashed, untold>>
  BY DEF A!MessageReceived, A!rulebook, A!crm, A!replies
<1>2. event \in Works /\ event.conversation = c /\ event.step = "start" /\ event.todo = {}
  <2> DEFINE p == PersonOf[c]
  <2>1. p \in A!People \cup {Nobody} BY DEF A!People
  <2>2. event = A!Event("message", c, p, 0, 0, 0, 0) OBVIOUS
  <2> HIDE DEF event, p
  <2>3. QED BY <2>1, <2>2, EventIs
<1> HIDE DEF event
<1>3. work \in [Handlers -> Works] BY <1>0 DEF RulesTyped
<1>4. /\ A!Emit(work, event) \in [Handlers -> Works]
      /\ \E k \in Handlers : /\ work[k] = A!Idle /\ A!Emit(work, event)[k] \in {A!Idle, event}
                             /\ \A i \in Handlers \ {k} : A!Emit(work, event)[i] = work[i]
  BY <1>0, <1>1, <1>2, <1>3, Emitted
<1>5. PICK k \in Handlers : /\ work[k] = A!Idle /\ work'[k] \in {A!Idle, event} /\ \A i \in Handlers \ {k} : work'[i] = work[i]
  BY <1>1, <1>4
<1>6. work' \in [Handlers -> Works] BY <1>1, <1>4
<1>7. RulesTyped' BY <1>0, <1>1, <1>6 DEF RulesTyped
<1>8. work[k].step \notin Inside /\ work'[k].step \notin Inside /\ work'[k].todo = {} BY <1>2, <1>5, IdleWork DEF Inside
<1>9. RepliesKept'
  <2>1. ASSUME NEW i \in Handlers \ {k}, work[i].conversation = c PROVE c \in mingled'
    BY <1>0, <1>1, <2>1, WorkIs DEF Works
  <2>2. mingled \subseteq mingled' BY <1>1
  <2>3. ASSUME NEW i \in Handlers, NEW j \in Handlers, work'[i].conversation \in Conversations \ mingled',
               work'[j].conversation = work'[i].conversation, i # j
        PROVE  FALSE
    <3>1. work'[k].conversation \in {Nobody, c} BY <1>2, <1>5, IdleWork
    <3>2. CASE i = k BY <1>5, <2>1, <2>3, <3>1, <3>2, RulesAssumption
    <3>3. CASE j = k BY <1>5, <2>1, <2>3, <3>1, <3>3, RulesAssumption
    <3>4. CASE i # k /\ j # k BY <1>0, <1>5, <2>2, <2>3, <3>4 DEF RepliesKept
    <3>5. QED BY <3>2, <3>3, <3>4
  <2>4. \A i, j \in Handlers : work'[i].conversation \in Conversations \ mingled' /\ work'[j].conversation = work'[i].conversation
                               => i = j
    BY <2>3
  <2>5. \A x \in answered' :
          \/ Excused(x)' \/ x \in runs'
          \/ \E j \in Handlers : work'[j].step \in Inside /\ work'[j].said /\ PairOf(work'[j]) = x
    <3> SUFFICES ASSUME NEW x \in answered, ~(x[2] \in mingled \/ x \in unrecorded), x \notin runs
                 PROVE  \E j \in Handlers : work'[j].step \in Inside /\ work'[j].said /\ PairOf(work'[j]) = x
      BY <1>1, <2>2 DEF Excused
    <3>1. PICK j \in Handlers : work[j].step \in Inside /\ work[j].said /\ PairOf(work[j]) = x
      BY <1>0 DEF RepliesKept, Excused
    <3>2. QED BY <1>5, <1>8, <3>1
  <2>6. \A j \in Handlers : work'[j].step \in Inside /\ PairOf(work'[j]) \in answered'
                            /\ ~(PairOf(work'[j])[2] \in mingled' \/ PairOf(work'[j]) \in unrecorded') => work'[j].said
    <3> SUFFICES ASSUME NEW j \in Handlers, work'[j].step \in Inside, PairOf(work'[j]) \in answered',
                        ~(PairOf(work'[j])[2] \in mingled' \/ PairOf(work'[j]) \in unrecorded')
                 PROVE  work'[j].said
      OBVIOUS
    <3>1. work'[j] = work[j] BY <1>5, <1>8
    <3>2. ~Excused(PairOf(work[j])) BY <1>1, <2>2, <3>1 DEF Excused
    <3>3. QED BY <1>0, <1>1, <3>1, <3>2 DEF RepliesKept
  <2>7. \A x \in twice' : Excused(x)' BY <1>0, <1>1, <2>2 DEF RepliesKept, Excused
  <2>8. QED BY <2>4, <2>5, <2>6, <2>7 DEF RepliesKept, Excused, PairOf
<1>10. \A i \in Handlers : CalmLead(work[i], work'[i]) /\ CalmPlan(work[i], work'[i])
  <2> SUFFICES ASSUME NEW i \in Handlers PROVE CalmLead(work[i], work'[i]) /\ CalmPlan(work[i], work'[i]) OBVIOUS
  <2>1. CASE i = k BY <1>8, <2>1 DEF CalmLead, CalmPlan, Inside
  <2>2. CASE i # k BY <1>5, <2>2, CalmSelf DEF Calm
  <2>3. QED BY <2>1, <2>2
<1>11. LeadsKept' BY <1>1, <1>10, LeadsStay DEF RuleInv
<1>12. DealsKept' /\ StagesKept' BY <1>1, UsersStay
<1>13. PlanKept' BY <1>1, <1>10, PlanStay DEF RuleInv, PlanKept
<1>14. A!ShortChains' BY <1>1 DEF RuleInv, A!ShortChains
<1>15. QED BY <1>7, <1>9, <1>11, <1>12, <1>13, <1>14 DEF RuleInv

\* Rules or plan change: the count of rules that act begins again.
LEMMA RulebookHolds ==
    ASSUME RuleInv, active' \subseteq Rules, limit' \in Nat, ran' = {},
           work' = [j \in Handlers |-> [work[j] EXCEPT !.fresh = FALSE]],
           UNCHANGED <<user, leads, deals, heard, runs, answered, twice, mingled, unrecorded, hurried, clashed, untold>>
    PROVE  RuleInv'
<1>0. RulesTyped BY DEF RuleInv
<1>1. ASSUME NEW k \in Handlers PROVE work'[k] \in Works /\ ~work'[k].fresh /\ Calm(work[k], work'[k])
  <2>1. work[k] \in Works /\ work[k] \in WorkRecords /\ work'[k] = [work[k] EXCEPT !.fresh = FALSE] BY <1>0, WorkIs
  <2>2. work'[k] \in WorkRecords BY <2>1 DEF WorkRecords
  <2>3. /\ work'[k].step = work[k].step /\ work'[k].todo = work[k].todo /\ work'[k].said = work[k].said
        /\ work'[k].conversation = work[k].conversation /\ work'[k].trigger = work[k].trigger /\ work'[k].person = work[k].person
        /\ work'[k].hops = work[k].hops /\ work'[k].depth = work[k].depth /\ work'[k].acts = work[k].acts /\ ~work'[k].fresh
    BY <2>1 DEF WorkRecords
  <2>4. work'[k] \in Works BY <2>1, <2>2, <2>3 DEF Works
  <2>5. QED BY <2>3, <2>4 DEF Calm, CalmRun, CalmLead, CalmPlan
<1>2. work' \in [Handlers -> Works] BY <1>1
<1>3. RulesTyped' BY <1>0, <1>2 DEF RulesTyped
<1>4. RepliesKept' BY <1>0, <1>1, RepliesStay DEF RuleInv, Calm
<1>5. LeadsKept' BY <1>1, LeadsStay DEF RuleInv, Calm
<1>6. DealsKept' /\ StagesKept' BY UsersStay
<1>7. PlanKept' BY <1>1 DEF PlanKept
<1>8. A!ShortChains' BY DEF RuleInv, A!ShortChains
<1>9. QED BY <1>3, <1>4, <1>5, <1>6, <1>7, <1>8 DEF RuleInv

LEMMA ToggleHolds ==
    ASSUME RuleInv, NEW r \in Rules, A!toggle(r)
    PROVE  RuleInv'
<1>1. active' \subseteq Rules /\ limit' \in Nat BY DEF A!toggle, RuleInv, RulesTyped
<1>2. QED BY <1>1, RulebookHolds DEF A!toggle, A!crm, A!replies, A!excuses

LEMMA ChangePlanHolds ==
    ASSUME RuleInv, NEW n \in Plans, A!changePlan(n)
    PROVE  RuleInv'
<1>1. active' \subseteq Rules /\ limit' \in Nat BY RulesAssumption DEF A!changePlan, RuleInv, RulesTyped
<1>2. QED BY <1>1, RulebookHolds DEF A!changePlan, A!crm, A!replies, A!excuses

LEMMA CooldownEndsHolds ==
    ASSUME RuleInv, NEW pair \in runs, A!CooldownEnds(pair)
    PROVE  RuleInv'
<1>0. RulesTyped /\ RepliesKept BY DEF RuleInv
<1>1. /\ runs' = runs \ {pair} /\ answered' = answered \ {pair}
      /\ UNCHANGED <<work, user, leads, deals, heard, twice, active, limit, ran, mingled, unrecorded, hurried, clashed, untold>>
  BY DEF A!CooldownEnds, A!rulebook, A!crm, A!excuses
<1>2. RulesTyped' BY <1>0, <1>1 DEF RulesTyped
<1>3. RepliesKept' BY <1>0, <1>1 DEF RepliesKept, Excused, PairOf
<1>4. \A k \in Handlers : CalmLead(work[k], work'[k]) /\ CalmPlan(work[k], work'[k]) BY <1>1, CalmSelf DEF Calm
<1>5. LeadsKept' BY <1>1, <1>4, LeadsStay DEF RuleInv
<1>6. DealsKept' /\ StagesKept' BY <1>1, UsersStay
<1>7. PlanKept' BY <1>1, <1>4, PlanStay DEF RuleInv, PlanKept
<1>8. A!ShortChains' BY <1>1 DEF RuleInv, A!ShortChains
<1>9. QED BY <1>2, <1>3, <1>5, <1>6, <1>7, <1>8 DEF RuleInv

\* A crash cuts runs off, which excuses them.
LEMMA RuleCrashHolds ==
    ASSUME RuleInv, A!Crash
    PROVE  RuleInv'
<1>0. RulesTyped /\ RepliesKept BY DEF RuleInv
<1>1. /\ unrecorded' = unrecorded \cup {PairOf(work[j]) : j \in {k \in Handlers : work[k].step \in Inside}}
      /\ work' = [j \in Handlers |-> A!Idle] /\ user' = [u \in Users |-> A!Away]
      /\ untold' = untold \cup {user[u].on : u \in {v \in Users : user[v].kind = "tell" /\ A!Changed(v)}}
      /\ UNCHANGED <<leads, deals, heard, runs, answered, twice, active, limit, ran, mingled, hurried, clashed>>
  BY RuleIs DEF A!Crash, A!InRule, Inside, A!rulebook, A!crm, A!replies
<1>2. \A k \in Handlers : work'[k] = A!Idle BY <1>1
<1>3. \A u \in Users : user'[u].kind = "none" BY <1>1, AwayIs
<1>4. RulesTyped' BY <1>0, <1>1, IdleWork, AwayIs DEF RulesTyped
<1>5. unrecorded \subseteq unrecorded' /\ \A x : Excused(x) => Excused(x)' BY <1>1 DEF Excused
<1>6. RepliesKept'
  <2>1. \A x \in answered : Excused(x)' \/ x \in runs
    <3> SUFFICES ASSUME NEW x \in answered, ~Excused(x)', x \notin runs PROVE FALSE OBVIOUS
    <3>1. PICK j \in Handlers : work[j].step \in Inside /\ PairOf(work[j]) = x BY <1>0, <1>5 DEF RepliesKept
    <3>2. x \in unrecorded' BY <1>1, <3>1
    <3>3. QED BY <3>2 DEF Excused
  <2>2. \A x \in twice' : Excused(x)' BY <1>0, <1>1, <1>5 DEF RepliesKept
  <2>3. \A k \in Handlers : work'[k].step \notin Inside /\ work'[k].conversation \notin Conversations
    BY <1>2, IdleWork, RulesAssumption DEF Inside
  <2>4. QED BY <1>1, <2>1, <2>2, <2>3 DEF RepliesKept
<1>7. \A k \in Handlers : CalmLead(work[k], work'[k]) /\ CalmPlan(work[k], work'[k]) BY <1>2, IdleWork DEF CalmLead, CalmPlan
<1>8. LeadsKept' BY <1>1, <1>7, LeadsStay DEF RuleInv
<1>9. DealsKept'
  <2>1. \A d \in Deals : ByUser(d)' => ByUser(d) /\ deals'[d].lead = deals[d].lead BY <1>1 DEF ByUser
  <2>2. QED BY <1>1, <1>3, <2>1, DealsStay DEF RuleInv
<1>10. StagesKept'
  <2>1. \A u \in Users : Moving(u)' => user'[u] = user[u] BY <1>3 DEF Moving
  <2>2. \A u \in Users : user[u].kind = "tell" => user[u].before = user[u].after \/ user[u].on \in untold'
    BY <1>1 DEF A!Changed
  <2>3. untold \subseteq untold' BY <1>1
  <2>4. QED BY <1>0, <1>1, <2>1, <2>2, <2>3, StagesStay DEF RuleInv
<1>11. PlanKept' BY <1>1, <1>7, PlanStay DEF RuleInv, PlanKept
<1>12. A!ShortChains' BY <1>1 DEF RuleInv, A!ShortChains
<1>13. QED BY <1>4, <1>6, <1>8, <1>9, <1>10, <1>11, <1>12 DEF RuleInv

LEMMA RulesBegin == MCInit => RuleInv
<1> SUFFICES ASSUME MCInit PROVE RuleInv OBVIOUS
<1>1. /\ active \subseteq Rules /\ limit = Cardinality(Rules)
      /\ leads = [l \in Leads |-> A!NoLead] /\ deals = [d \in Deals |-> A!NoDeal]
      /\ work = [j \in Handlers |-> A!Idle] /\ user = [u \in Users |-> A!Away]
      /\ runs = {} /\ answered = {} /\ twice = {} /\ ran = {} /\ heard = [d \in Deals |-> "none"]
  BY RulesCounted, RulesAssumption DEF MCInit, A!Init
<1>2. limit \in Nat
  <2>1. IsFiniteSet(Rules) BY RulesAssumption, FS_Interval DEF Rules
  <2>2. QED BY <1>1, <2>1, FS_CardinalityType
<1>3. A!NoLead \in LeadRecords /\ A!NoLead.status = "none" /\ A!NoLead.hops = 0 BY DEF A!NoLead, LeadRecords
<1>4. A!NoDeal \in DealRecords /\ A!NoDeal.stage = "none" /\ A!NoDeal.by = "none" BY DEF A!NoDeal, DealRecords
<1>5. RulesTyped BY <1>1, <1>2, <1>3, <1>4, IdleWork, AwayIs DEF RulesTyped
<1>6. RepliesKept BY <1>1, IdleWork, RulesAssumption DEF RepliesKept, Inside
<1>7. LeadsKept BY <1>1, <1>3, IdleWork DEF LeadsKept, A!OneOpenLead
<1>8. DealsKept BY <1>1, <1>4, AwayIs DEF DealsKept, A!ConvertsOnce, ByUser
<1>9. StagesKept BY <1>1, <1>4, AwayIs DEF StagesKept, A!StageIsTold, Moving
<1>10. PlanKept BY <1>1, IdleWork DEF PlanKept
<1>11. A!ShortChains BY <1>1, <1>3, RulesAssumption DEF A!ShortChains
<1>12. QED BY <1>5, <1>6, <1>7, <1>8, <1>9, <1>10, <1>11 DEF RuleInv

LEMMA RulesGoOn == RuleInv /\ A!Next => RuleInv'
<1> SUFFICES ASSUME RuleInv, A!Next PROVE RuleInv' OBVIOUS
<1>1. ASSUME NEW c \in Conversations, A!MessageReceived(c) PROVE RuleInv' BY <1>1, MessageHolds
<1>2. ASSUME NEW p \in A!People, A!createLead(p) PROVE RuleInv' BY <1>2, CreateLeadHolds
<1>3. ASSUME NEW l \in Leads, NEW s \in {"open", "lost", "converted", "gone"}, A!editLead(l, s) PROVE RuleInv' BY <1>3, EditLeadHolds
<1>4. ASSUME NEW d \in Deals, A!removeDeal(d) PROVE RuleInv' BY <1>4, RemoveDealHolds
<1>5. ASSUME NEW r \in Rules, A!toggle(r) PROVE RuleInv' BY <1>5, ToggleHolds
<1>6. ASSUME NEW n \in Plans, A!changePlan(n) PROVE RuleInv' BY <1>6, ChangePlanHolds
<1>7. ASSUME NEW pair \in runs, A!CooldownEnds(pair) PROVE RuleInv' BY <1>7, CooldownEndsHolds
<1>8. ASSUME NEW j \in Handlers, A!Work(j) \/ A!ActionFails(j) \/ A!JobFails(j) PROVE RuleInv'
  BY <1>8, StartHolds, NextRuleHolds, ReplyHolds, OtherActionHolds, UpdateConversationHolds, UpdateLeadHolds, UpdateDealHolds,
     AskLeadHolds, MakeLeadHolds, AskDealHolds, MakeDealHolds, RecordRunHolds, ActionFailsHolds, JobFailsHolds DEF A!Work
<1>9. ASSUME NEW u \in Users, NEW l \in Leads, A!convertToDeal(u, l) PROVE RuleInv' BY <1>9, ConvertToDealHolds
<1>10. ASSUME NEW u \in Users, NEW d \in Deals, NEW s \in {"open", "closed"}, A!moveDeal(u, d, s) PROVE RuleInv'
  BY <1>10, MoveDealBegins
<1>11. ASSUME NEW u \in Users, A!Answer(u) \/ A!RequestFails(u) PROVE RuleInv'
  BY <1>11, ConvertDealHolds, MarkLeadHolds, MoveDealHolds, TellDealHolds, UserFailsHolds DEF A!Answer
<1>12. CASE A!Crash BY <1>12, RuleCrashHolds
<1>13. QED BY <1>1, <1>2, <1>3, <1>4, <1>5, <1>6, <1>7, <1>8, <1>9, <1>10, <1>11, <1>12 DEF A!Next

LEMMA RulesRest == RuleInv /\ UNCHANGED ruleVars => RuleInv'
<1> SUFFICES ASSUME RuleInv, UNCHANGED ruleVars PROVE RuleInv' OBVIOUS
<1>1. UNCHANGED <<active, limit, runs, leads, deals, work, user, answered, twice, ran, heard, mingled, unrecorded, hurried, clashed, untold>>
  BY DEF ruleVars
<1>2. work' \in [Handlers -> Works] /\ \A k \in Handlers : Calm(work[k], work'[k])
  BY <1>1, CalmSelf DEF RuleInv, RulesTyped
<1>3. leads' \in [Leads -> LeadRecords] BY <1>1 DEF RuleInv, RulesTyped
<1>4. QED BY <1>1, <1>2, <1>3, Undisturbed

\* The rules the plan runs are no more than it says: each is told by how many are older.
LEMMA WithinCounted ==
    ASSUME RulesTyped
    PROVE  IsFiniteSet(Within) /\ Cardinality(Within) <= limit
<1> DEFINE Older(r) == {s \in active : s < r}
           rank == [r \in Within |-> Cardinality(Older(r))]
<1>1. active \subseteq Rules /\ active \subseteq Nat /\ IsFiniteSet(active) /\ limit \in Nat
  <2>1. IsFiniteSet(Rules) BY RulesAssumption, FS_Interval DEF Rules
  <2>2. active \subseteq Rules /\ limit \in Nat BY DEF RulesTyped
  <2>3. Rules \subseteq Nat BY RulesAssumption DEF Rules
  <2>4. QED BY <2>1, <2>2, <2>3, FS_Subset
<1>2. ASSUME NEW r \in active PROVE IsFiniteSet(Older(r)) /\ Cardinality(Older(r)) \in Nat
  <2>1. Older(r) \subseteq active OBVIOUS
  <2> HIDE DEF Older
  <2>2. QED BY <1>1, <2>1, FS_Subset, FS_CardinalityType
<1>3. Within = {r \in active : Cardinality(Older(r)) < limit} BY RulesCounted DEF Within
<1>4. rank \in [Within -> 0..(limit - 1)]
  <2>1. ASSUME NEW r \in Within PROVE Cardinality(Older(r)) \in 0..(limit - 1)
    <3>1. r \in active /\ Cardinality(Older(r)) < limit BY <1>3
    <3>2. Cardinality(Older(r)) \in Nat BY <1>2, <3>1
    <3> HIDE DEF Older
    <3>3. QED BY <1>1, <3>1, <3>2
  <2> HIDE DEF Older
  <2>2. QED BY <2>1
<1>5. ASSUME NEW r \in active, NEW s \in active, r < s PROVE Cardinality(Older(r)) # Cardinality(Older(s))
  <2>1. Older(r) \subseteq Older(s) /\ r \in Older(s) /\ r \notin Older(r)
    <3>1. \A q \in active : q < r => q < s BY <1>1, <1>5
    <3>2. ~(r < r) BY <1>1
    <3>3. QED BY <1>5, <3>1, <3>2
  <2>2. IsFiniteSet(Older(s)) BY <1>2
  <2> HIDE DEF Older
  <2>3. QED BY <2>1, <2>2, FS_Subset
<1>6. \A r, s \in Within : rank[r] = rank[s] => r = s
  <2> SUFFICES ASSUME NEW r \in Within, NEW s \in Within, rank[r] = rank[s] PROVE r = s OBVIOUS
  <2>1. r \in active /\ s \in active /\ r \in Nat /\ s \in Nat BY <1>1, <1>3
  <2>2. Cardinality(Older(r)) = Cardinality(Older(s)) OBVIOUS
  <2>3. ~(r < s) /\ ~(s < r) BY <1>5, <2>1, <2>2
  <2>4. QED BY <2>1, <2>3
<1> HIDE DEF rank
<1>7. rank \in Injection(Within, 0..(limit - 1)) BY <1>4, <1>6 DEF Injection, IsInjective
<1>8. IsFiniteSet(0..(limit - 1)) /\ Cardinality(0..(limit - 1)) = limit
  BY <1>1, FS_Interval
<1>9. QED BY <1>7, <1>8, FS_Injection

LEMMA RulesHold == RuleInv => RulesInOrder
<1> SUFFICES ASSUME RuleInv PROVE A!RulesInOrder BY DEF RulesInOrder
<1>1. A!TypeOK
  <2>1. \A j \in Handlers : work[j].step \in {"act", "lead", "deal"} => work[j].todo # {} /\ A!Rule(j) \in Rules
    BY WorkIs, RuleOf DEF RuleInv, Works, Inside
  <2>2. \A l \in Leads : leads[l].status \in {"none", "open", "lost", "converted", "gone"}
    BY DEF RuleInv, RulesTyped, LeadRecords
  <2>3. \A d \in Deals : deals[d].stage \in {"none", "open", "closed", "gone"} /\ deals[d].lead \in Leads \cup {0}
    BY DEF RuleInv, RulesTyped, DealRecords
  <2>4. QED BY <2>1, <2>2, <2>3 DEF RuleInv, RulesTyped, A!TypeOK
<1>2. A!RepliesOnce BY DEF RuleInv, RepliesKept, Excused, A!RepliesOnce
<1>3. A!PlanBoundsRules
  <2>1. ran \subseteq Within BY DEF RuleInv, PlanKept
  <2>2. IsFiniteSet(Within) /\ Cardinality(Within) <= limit BY WithinCounted DEF RuleInv
  <2>3. Cardinality(ran) <= Cardinality(Within) /\ IsFiniteSet(ran) BY <2>1, <2>2, FS_Subset
  <2>4. Cardinality(ran) \in Nat /\ Cardinality(Within) \in Nat /\ limit \in Nat
    BY <2>2, <2>3, FS_CardinalityType DEF RuleInv, RulesTyped
  <2>5. Cardinality(ran) <= limit BY <2>2, <2>3, <2>4
  <2>6. QED BY <2>5, RulesCounted DEF A!PlanBoundsRules
<1>4. QED BY <1>1, <1>2, <1>3 DEF RuleInv, LeadsKept, DealsKept, StagesKept, A!RulesInOrder

\* However many rules, conversations, leads, deals and events at work there are, and
\* whatever the plan: unless two handlers or requests met, a rule answers a conversation
\* once within its cooldown, where no run that answered was cut off, a lead becomes one
\* deal, and a contact gets one open lead, where nobody opened one beside another; the
\* rules hear of each stage that users give a deal, where no rule set one since (which it
\* does silently) and no request failed before its event; no more rules act than the plan
\* runs, and a chain of leads ends within the depth of an event (process, runAction,
\* inCooldown, eligibleAutomations, convertToDeal, DealsService.update).
THEOREM RulesKept == MCSpec => []RulesInOrder
<1>1. MCInit => RuleInv BY RulesBegin
<1>2. RuleInv /\ [MCNext]_<<vars, crossed, lost, mailVars, ruleVars, part>> => RuleInv'
  <2> SUFFICES ASSUME RuleInv, [MCNext]_<<vars, crossed, lost, mailVars, ruleVars, part>> PROVE RuleInv' OBVIOUS
  <2>1. CASE Ruling BY <2>1, RulesGoOn DEF Ruling
  <2>2. CASE Quoting BY <2>2, RulesRest DEF Quoting
  <2>3. CASE Mailing BY <2>3, RulesRest DEF Mailing
  <2>4. CASE UNCHANGED <<vars, crossed, lost, mailVars, ruleVars, part>> BY <2>4, RulesRest
  <2>5. QED BY <2>1, <2>2, <2>3, <2>4 DEF MCNext
<1>3. RuleInv => RulesInOrder BY RulesHold
<1>4. QED BY <1>1, <1>2, <1>3, PTL DEF MCSpec
=============================================================================
