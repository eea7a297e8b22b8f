--------------------------- MODULE InvoiceProofs ---------------------------
(***************************************************************************)
(* What holds of Invoice for any payments, totals and number of requests:  *)
(* types, and that no payment is lost however requests interleave.  And    *)
(* what holds until a request writes on what another wrote meanwhile:      *)
(* amount, status and list agree, amounts are frozen once sent, void is    *)
(* final.                                                                  *)
(***************************************************************************)
EXTENDS Invoice, TLAPS

USE InvoiceAssumption

-----------------------------------------------------------------------------
(* Documents. *)

LEMMA SettleType ==
    ASSUME NEW d \in Docs
    PROVE  Settle(d) \in Docs
  BY SumAssumption DEF Settle, Docs, Statuses

LEMMA WithPaymentType ==
    ASSUME NEW d \in Docs, NEW p \in Payments
    PROVE  WithPayment(d, p) \in Docs
<1> DEFINE s == [d EXCEPT !.status = IF @ = "draft" THEN "sent" ELSE @,
                          !.payments = @ \cup {p}]
<1>1. s \in Docs BY DEF Docs, Statuses
<1>2. QED BY <1>1, SettleType DEF WithPayment

LEMMA MergedType ==
    ASSUME TypeOK, NEW w \in Workers
    PROVE  Merged(w) \in Docs
<1>1. doc \in Docs /\ loaded[w] \in Docs /\ edited[w] \in Docs BY DEF TypeOK
<1>2. QED BY <1>1 DEF Merged, Docs

\* Writing a list: payments and version.
LEMMA ListType ==
    ASSUME NEW d \in Docs, NEW list \in SUBSET Payments
    PROVE  [d EXCEPT !.payments = list, !.version = @ + 1] \in Docs
<1> DEFINE s == [d EXCEPT !.payments = list]
<1>1. s \in Docs /\ s.version \in Nat BY DEF Docs
<1>2. s.version = d.version BY DEF Docs
<1>3. [s EXCEPT !.version = s.version + 1] \in Docs
  <2> HIDE DEF s
  <2>1. QED BY <1>1 DEF Docs
<1>4. QED BY <1>2, <1>3

\* A list with a payment in it adds up to more than the list without it.
LEMMA SumWithout ==
    ASSUME NEW list \in SUBSET Payments, NEW p \in list
    PROVE  /\ Sum[list \ {p}] \in Nat /\ Sum[list] \in Nat
           /\ Sum[list] = Sum[list \ {p}] + Amount[p]
           /\ Sum[list \ {p}] < Sum[list]
<1> DEFINE rest == list \ {p}
<1>1. rest \in SUBSET Payments /\ p \in Payments \ rest /\ rest \cup {p} = list OBVIOUS
<1>2. Sum[rest \cup {p}] = Sum[rest] + Amount[p] BY <1>1, SumAssumption
<1>3. Sum[list] = Sum[rest] + Amount[p] BY <1>1, <1>2
<1>4. Sum[rest] \in Nat /\ Sum[list] \in Nat BY <1>1, SumAssumption
<1>5. Amount[p] \in Nat \ {0} BY <1>1
<1>6. QED BY <1>3, <1>4, <1>5

-----------------------------------------------------------------------------
(* Types. *)

LEMMA InitType == Init => TypeOK
<1> SUFFICES ASSUME Init PROVE TypeOK OBVIOUS
<1>1. doc \in Docs
  BY DEF Init, Docs, Statuses
<1>2. QED BY <1>1 DEF Init, TypeOK, PCs

\* What loading does to the types.
LEMMA LoadType ==
    ASSUME TypeOK, NEW w \in Workers, NEW changed \in Docs, NEW step \in PCs,
           Load(w, changed, step), registered' \subseteq Payments
    PROVE  TypeOK'
  BY DEF Load, TypeOK

LEMMA SaveType ==
    ASSUME TypeOK, NEW w \in Workers, NEW changed \in Docs, NEW step, NEW next \in PCs,
           Save(w, step, changed, next)
    PROVE  TypeOK'
  BY DEF Save, TypeOK

LEMMA NextType ==
    ASSUME TypeOK, [Next]_vars
    PROVE  TypeOK'
<1> USE DEF PCs
<1>0. doc \in Docs /\ doc.payments \subseteq Payments /\ doc.version \in Nat
      BY DEF TypeOK, Docs
<1>a. CASE UNCHANGED vars BY <1>a DEF vars, TypeOK
<1>b. ASSUME NEW w \in Workers, Step(w) PROVE TypeOK'
  <2>0. Merged(w) \in Docs /\ edited[w] \in Docs BY MergedType DEF TypeOK
  <2>1. ASSUME NEW p \in Payments, AddPayment(w, p) PROVE TypeOK'
    <3>1. WithPayment(doc, p) \in Docs BY <1>0, WithPaymentType
    <3>2. registered' \subseteq Payments BY <2>1 DEF AddPayment, TypeOK
    <3>3. QED BY <2>1, <3>1, <3>2, LoadType DEF AddPayment
  <2>2. ASSUME NEW p \in Payments, RemovePayment(w, p) PROVE TypeOK'
    <3>1. [doc EXCEPT !.payments = @ \ {p}] \in Docs BY <1>0 DEF Docs
    <3>2. Settle([doc EXCEPT !.payments = @ \ {p}]) \in Docs BY <3>1, SettleType
    <3>3. registered' \subseteq Payments BY <2>2 DEF RemovePayment, TypeOK
    <3>4. QED BY <2>2, <3>2, <3>3, LoadType DEF RemovePayment
  <2>3. CASE SavePayment(w)
    <3>1. [Merged(w) EXCEPT !.payments = @ \cup (edited[w].payments \ loaded[w].payments),
                            !.version = @ + 1] \in Docs
      <4>1. Merged(w).payments \cup (edited[w].payments \ loaded[w].payments) \in SUBSET Payments
            BY <2>0 DEF Docs
      <4>2. QED BY <2>0, <4>1, ListType
    <3>2. QED BY <2>3, <3>1, SaveType DEF SavePayment
  <2>4. CASE CloseDeal(w) BY <2>4 DEF CloseDeal, TypeOK
  <2>5. CASE EmitPaid(w) BY <2>5 DEF EmitPaid, TypeOK
  <2>6. CASE SaveRemoval(w)
    <3>1. [Merged(w) EXCEPT !.payments = edited[w].payments, !.version = @ + 1] \in Docs
      <4>1. edited[w].payments \in SUBSET Payments BY <2>0 DEF Docs
      <4>2. QED BY <2>0, <4>1, ListType
    <3>2. QED BY <2>6, <3>1, SaveType DEF SaveRemoval
  <2>7. ASSUME NEW t \in Totals, Update(w, t) PROVE TypeOK'
    <3>1. [doc EXCEPT !.total = t] \in Docs BY <1>0 DEF Docs
    <3>2. registered' \subseteq Payments BY <2>7 DEF Update, TypeOK
    <3>3. QED BY <2>7, <3>1, <3>2, LoadType DEF Update
  <2>8. CASE SaveLines(w)
    <3>1. [Merged(w) EXCEPT !.version = @ + 1] \in Docs BY <2>0 DEF Docs
    <3>2. QED BY <2>8, <3>1, SaveType DEF SaveLines
  <2>9. CASE SaveTotal(w) BY <2>9, <2>0, SaveType DEF SaveTotal
  <2>10. ASSUME NEW s \in {"sent", "void"}, SetStatus(w, s) PROVE TypeOK'
    <3>1. [doc EXCEPT !.status = s] \in Docs BY <1>0 DEF Docs, Statuses
    <3>2. registered' \subseteq Payments BY <2>10 DEF SetStatus, TypeOK
    <3>3. QED BY <2>10, <3>1, <3>2, LoadType DEF SetStatus
  <2>11. CASE SaveStatus(w) BY <2>11, <2>0, SaveType DEF SaveStatus
  <2>12. CASE Send(w)
    <3>1. [doc EXCEPT !.status = IF @ = "draft" THEN "sent" ELSE @] \in Docs
          BY <1>0 DEF Docs, Statuses
    <3>2. registered' \subseteq Payments BY <2>12 DEF Send, TypeOK
    <3>3. QED BY <2>12, <3>1, <3>2, LoadType DEF Send
  <2>13. CASE Mail(w)
    <3>1. loaded[w].total \in Totals BY DEF TypeOK, Docs
    <3>2. QED BY <2>13, <3>1 DEF Mail, TypeOK
  <2>14. CASE SaveSent(w) BY <2>14, <2>0, SaveType DEF SaveSent
  <2>15. CASE Remove(w)
    <3>1. registered' \subseteq Payments BY <2>15 DEF Remove, TypeOK
    <3>2. QED BY <2>15, <1>0, <3>1, LoadType DEF Remove
  <2>16. CASE Delete(w) BY <2>16 DEF Delete, TypeOK
  <2>17. CASE Fail(w) BY <2>17 DEF Fail, TypeOK
  <2>18. QED BY <1>b, <2>1, <2>2, <2>3, <2>4, <2>5, <2>6, <2>7, <2>8, <2>9, <2>10, <2>11,
               <2>12, <2>13, <2>14, <2>15, <2>16, <2>17 DEF Step
<1>c. QED BY <1>a, <1>b DEF Next

\* Every variable keeps its type, whatever requests do.
THEOREM TypeInvariant == Spec => []TypeOK
<1>1. Init => TypeOK BY InitType
<1>2. TypeOK /\ [Next]_vars => TypeOK' BY NextType
<1>3. QED BY <1>1, <1>2, PTL DEF Spec

-----------------------------------------------------------------------------
(* The ledger, with any number of requests at a time. *)

\* What a request that is about to write the list knows of it.
Paying(w) ==
    pc[w] = "pay" => \E p \in registered : /\ p \notin loaded[w].payments
                                           /\ edited[w].payments = loaded[w].payments \cup {p}

Removing(w) ==
    pc[w] = "unpay" => /\ loaded[w].version <= doc.version
                       /\ Current(w) => loaded[w].payments = doc.payments
                       /\ \E p \in loaded[w].payments :
                              edited[w].payments = loaded[w].payments \ {p}

Ledger ==
    /\ doc.payments \subseteq registered
    /\ \A w \in Workers : Paying(w) /\ Removing(w)

\* A save moves the version on or leaves list and version alone.
Moves ==
    \/ doc'.version = doc.version + 1
    \/ doc'.version = doc.version /\ doc'.payments = doc.payments

\* A request that is not this one keeps what it knows.
LEMMA Others ==
    ASSUME TypeOK, NEW v \in Workers, Paying(v), Removing(v),
           loaded'[v] = loaded[v], edited'[v] = edited[v], pc'[v] = pc[v],
           registered \subseteq registered', Moves
    PROVE  Paying(v)' /\ Removing(v)'
<1>1. Paying(v)' BY DEF Paying
<1>2. loaded[v].version \in Nat /\ doc.version \in Nat BY DEF TypeOK, Docs
<1>3. Removing(v)' BY <1>2 DEF Removing, Moves, Current
<1>4. QED BY <1>1, <1>3

LEMMA MergedLists ==
    ASSUME TypeOK, NEW w \in Workers
    PROVE  Merged(w).payments = doc.payments /\ Merged(w).version = doc.version
  BY DEF Merged, TypeOK, Docs

\* Saving something else leaves the ledger alone.
LEMMA SaveLedger ==
    ASSUME TypeOK, Ledger, NEW w \in Workers, Moves, doc'.payments \subseteq registered',
           UNCHANGED <<loaded, edited, registered>>,
           NEW next \in PCs \ {"pay", "unpay"}, pc' = [pc EXCEPT ![w] = next]
    PROVE  Ledger'
<1>1. ASSUME NEW v \in Workers PROVE Paying(v)' /\ Removing(v)'
  <2>1. CASE v = w BY <2>1 DEF Paying, Removing, TypeOK
  <2>2. CASE v # w
    <3>1. pc'[v] = pc[v] BY <2>2 DEF TypeOK
    <3>2. QED BY <3>1, Others DEF Ledger
  <2>3. QED BY <2>1, <2>2
<1>2. QED BY <1>1 DEF Ledger

\* Loading anything but a payment to register or to remove.
LEMMA LoadLedger ==
    ASSUME TypeOK, Ledger, NEW w \in Workers, NEW changed \in Docs, NEW step \in PCs,
           Load(w, changed, step), registered \subseteq registered',
           step = "pay" => \E p \in registered' : /\ p \notin doc.payments
                                                 /\ changed.payments = doc.payments \cup {p},
           step = "unpay" => \E p \in doc.payments : changed.payments = doc.payments \ {p}
    PROVE  Ledger'
<1>1. ASSUME NEW v \in Workers PROVE Paying(v)' /\ Removing(v)'
  <2>1. CASE v = w
    <3>1. pc'[w] = step /\ loaded'[w] = doc /\ edited'[w] = changed /\ doc' = doc
          BY DEF Load, TypeOK
    <3>2. doc.version \in Nat BY DEF TypeOK, Docs
    <3>3. QED BY <2>1, <3>1, <3>2 DEF Paying, Removing
  <2>2. CASE v # w
    <3>1. pc'[v] = pc[v] /\ loaded'[v] = loaded[v] /\ edited'[v] = edited[v] /\ doc' = doc
          BY <2>2 DEF TypeOK, Load
    <3>2. QED BY <3>1, Others DEF Ledger, Moves
  <2>3. QED BY <2>1, <2>2
<1>2. doc' = doc BY DEF Load
<1>3. QED BY <1>1, <1>2 DEF Ledger

\* What an operation does to the list it loads.
LEMMA SettleKeepsList ==
    ASSUME NEW d \in Docs
    PROVE  Settle(d).payments = d.payments
  BY DEF Settle, Docs

LEMMA WithPaymentList ==
    ASSUME NEW d \in Docs, NEW p \in Payments
    PROVE  WithPayment(d, p).payments = d.payments \cup {p}
<1> DEFINE s == [d EXCEPT !.status = IF @ = "draft" THEN "sent" ELSE @,
                          !.payments = @ \cup {p}]
<1>1. s \in Docs /\ s.payments = d.payments \cup {p} BY DEF Docs, Statuses
<1>2. QED BY <1>1, SettleKeepsList DEF WithPayment

LEMMA SavePaymentLedger ==
    ASSUME TypeOK, Ledger, NEW w \in Workers, SavePayment(w)
    PROVE  /\ \E p \in registered : doc'.payments = doc.payments \cup {p}
           /\ Ledger'
<1>0. Merged(w) \in Docs BY MergedType
<1>1. PICK p \in registered : /\ p \notin loaded[w].payments
                              /\ edited[w].payments = loaded[w].payments \cup {p}
      BY DEF SavePayment, Save, Ledger, Paying
<1>2. edited[w].payments \ loaded[w].payments = {p} BY <1>1
<1>3. doc'.payments = doc.payments \cup {p} /\ doc'.version = doc.version + 1
      BY <1>0, <1>2, MergedLists DEF SavePayment, Save, Docs
<1>4. doc'.payments \subseteq registered' BY <1>3 DEF SavePayment, Save, Ledger
<1> DEFINE next == IF edited[w].status = "paid" THEN "close" ELSE "idle"
<1>5. next \in PCs \ {"pay", "unpay"} /\ pc' = [pc EXCEPT ![w] = next]
      BY DEF SavePayment, Save, PCs
<1> HIDE DEF next
<1>6. Ledger' BY <1>3, <1>4, <1>5, SaveLedger DEF Moves, SavePayment, Save
<1>7. QED BY <1>3, <1>6

LEMMA SaveRemovalLedger ==
    ASSUME TypeOK, Ledger, NEW w \in Workers, SaveRemoval(w)
    PROVE  /\ \E p \in doc.payments : /\ p \notin edited[w].payments
                                      /\ doc'.payments = doc.payments \ {p}
           /\ Ledger'
<1>0. Merged(w) \in Docs BY MergedType
<1>1. PICK p \in doc.payments : edited[w].payments = doc.payments \ {p}
      BY DEF SaveRemoval, Save, Ledger, Removing
<1>2. doc'.payments = doc.payments \ {p} /\ doc'.version = doc.version + 1
      BY <1>0, <1>1, MergedLists DEF SaveRemoval, Save, Docs
<1>3. doc'.payments \subseteq registered' BY <1>2 DEF SaveRemoval, Save, Ledger
<1>4. "idle" \in PCs \ {"pay", "unpay"} BY DEF PCs
<1>5. Ledger' BY <1>2, <1>3, <1>4, SaveLedger DEF Moves, SaveRemoval, Save
<1>6. QED BY <1>1, <1>2, <1>5

\* A step of any other kind writes no list.
LEMMA OtherStepsLedger ==
    ASSUME TypeOK, Ledger, NEW w \in Workers, Step(w), ~SavePayment(w), ~SaveRemoval(w)
    PROVE  doc'.payments = doc.payments /\ Ledger'
<1> USE DEF PCs
<1>0. doc \in Docs /\ Merged(w) \in Docs BY MergedType DEF TypeOK
<1>k. doc'.payments = doc.payments => doc'.payments \subseteq registered \cup registered'
      BY DEF Ledger
<1>1. ASSUME NEW p \in Payments, AddPayment(w, p)
      PROVE  doc'.payments = doc.payments /\ Ledger'
  <2>1. WithPayment(doc, p) \in Docs /\ WithPayment(doc, p).payments = doc.payments \cup {p}
        BY <1>0, WithPaymentType, WithPaymentList
  <2>2. p \in registered' /\ p \notin doc.payments /\ registered \subseteq registered'
        BY <1>1 DEF AddPayment, Ledger
  <2>3. Load(w, WithPayment(doc, p), "pay") BY <1>1 DEF AddPayment
  <2>4. Ledger' BY <2>1, <2>2, <2>3, LoadLedger
  <2>5. QED BY <2>3, <2>4 DEF Load
<1>2. ASSUME NEW p \in Payments, RemovePayment(w, p)
      PROVE  doc'.payments = doc.payments /\ Ledger'
  <2> DEFINE d == [doc EXCEPT !.payments = @ \ {p}]
  <2>1. d \in Docs /\ d.payments = doc.payments \ {p} BY <1>0 DEF Docs
  <2>2. Settle(d) \in Docs /\ Settle(d).payments = doc.payments \ {p}
        BY <2>1, SettleType, SettleKeepsList
  <2>3. Load(w, Settle(d), "unpay") /\ p \in doc.payments /\ registered' = registered
        BY <1>2 DEF RemovePayment
  <2> HIDE DEF d
  <2>4. Ledger' BY <2>2, <2>3, LoadLedger
  <2>5. QED BY <2>3, <2>4 DEF Load
<1>3. ASSUME NEW changed \in Docs, NEW step \in PCs \ {"pay", "unpay"},
             Load(w, changed, step), registered' = registered
      PROVE  doc'.payments = doc.payments /\ Ledger'
  <2>1. Ledger' BY <1>3, LoadLedger
  <2>2. QED BY <1>3, <2>1 DEF Load
<1>4. ASSUME NEW changed \in Docs, NEW step,
             changed.payments = doc.payments, changed.version \in {doc.version, doc.version + 1},
             Save(w, step, changed, "idle")
      PROVE  doc'.payments = doc.payments /\ Ledger'
  <2>1. Moves /\ doc'.payments = doc.payments /\ registered' = registered
        BY <1>4 DEF Moves, Save
  <2>2. Ledger' BY <1>4, <2>1, <1>k, SaveLedger DEF Save
  <2>3. QED BY <2>1, <2>2
<1>5. ASSUME UNCHANGED <<doc, loaded, edited, registered>>,
             NEW next \in PCs \ {"pay", "unpay"}, pc' = [pc EXCEPT ![w] = next]
      PROVE  doc'.payments = doc.payments /\ Ledger'
  <2>1. Ledger' BY <1>5, SaveLedger DEF Moves, Ledger
  <2>2. QED BY <1>5, <2>1
<1>6. ASSUME NEW t \in Totals, Update(w, t) PROVE doc'.payments = doc.payments /\ Ledger'
  <2>1. [doc EXCEPT !.total = t] \in Docs BY <1>0 DEF Docs
  <2>2. QED BY <1>3, <1>6, <2>1 DEF Update
<1>7. ASSUME NEW s \in {"sent", "void"}, SetStatus(w, s)
      PROVE  doc'.payments = doc.payments /\ Ledger'
  <2>1. [doc EXCEPT !.status = s] \in Docs BY <1>0 DEF Docs, Statuses
  <2>2. QED BY <1>3, <1>7, <2>1 DEF SetStatus
<1>8. CASE Send(w)
  <2>1. [doc EXCEPT !.status = IF @ = "draft" THEN "sent" ELSE @] \in Docs
        BY <1>0 DEF Docs, Statuses
  <2>2. QED BY <1>3, <1>8, <2>1 DEF Send
<1>9. CASE Remove(w) BY <1>0, <1>3, <1>9 DEF Remove
<1>10. CASE SaveLines(w)
  <2> DEFINE c == [Merged(w) EXCEPT !.version = @ + 1]
  <2>1. c \in Docs /\ c.payments = doc.payments /\ c.version = doc.version + 1
        BY <1>0, MergedLists DEF Docs
  <2>2. Save(w, "update", c, "idle") BY <1>10 DEF SaveLines
  <2> HIDE DEF c
  <2>3. QED BY <1>4, <2>1, <2>2
<1>11. CASE SaveTotal(w) BY <1>0, <1>4, <1>11, MergedLists DEF SaveTotal
<1>12. CASE SaveStatus(w) BY <1>0, <1>4, <1>12, MergedLists DEF SaveStatus
<1>13. CASE SaveSent(w) BY <1>0, <1>4, <1>13, MergedLists DEF SaveSent
<1>14. CASE CloseDeal(w) \/ EmitPaid(w) \/ Mail(w) \/ Delete(w) \/ Fail(w)
       BY <1>5, <1>14 DEF CloseDeal, EmitPaid, Mail, Delete, Fail
<1>15. QED BY <1>1, <1>2, <1>6, <1>7, <1>8, <1>9, <1>10, <1>11, <1>12, <1>13, <1>14 DEF Step

\* One step of NoPaymentLost.
ListStep ==
    \E w \in Workers : \/ doc'.payments = doc.payments
                       \/ \E p \in registered : /\ pc[w] = "pay"
                                                /\ doc'.payments = doc.payments \cup {p}
                       \/ \E p \in doc.payments : /\ pc[w] = "unpay"
                                                  /\ p \notin edited[w].payments
                                                  /\ doc'.payments = doc.payments \ {p}

LEMMA NextLedger ==
    ASSUME TypeOK, Ledger, [Next]_vars
    PROVE  Ledger' /\ [ListStep]_vars
<1>1. CASE UNCHANGED vars
  <2>1. Ledger' BY <1>1 DEF vars, Ledger, Paying, Removing, Current
  <2>2. QED BY <1>1, <2>1
<1>2. ASSUME NEW w \in Workers, Step(w) PROVE Ledger' /\ ListStep
  <2>1. CASE SavePayment(w)
    <3>1. pc[w] = "pay" BY <2>1 DEF SavePayment, Save
    <3>2. QED BY <2>1, <3>1, SavePaymentLedger DEF ListStep
  <2>2. CASE SaveRemoval(w)
    <3>1. pc[w] = "unpay" BY <2>2 DEF SaveRemoval, Save
    <3>2. QED BY <2>2, <3>1, SaveRemovalLedger DEF ListStep
  <2>3. CASE ~SavePayment(w) /\ ~SaveRemoval(w)
        BY <1>2, <2>3, OtherStepsLedger DEF ListStep
  <2>4. QED BY <2>1, <2>2, <2>3
<1>3. QED BY <1>1, <1>2 DEF Next

LEMMA InitLedger == Init => Ledger
<1> SUFFICES ASSUME Init PROVE Ledger OBVIOUS
<1>1. doc.payments = {} BY DEF Init
<1>2. QED BY <1>1 DEF Init, Ledger, Paying, Removing

\* However requests interleave, the list changes by the one payment the saving
\* request is about: no payment is lost, none comes back.
THEOREM PaymentsAreKept == Spec => NoPaymentLost
<1>1. Init => TypeOK /\ Ledger BY InitType, InitLedger
<1>2. TypeOK /\ Ledger /\ [Next]_vars => TypeOK' /\ Ledger' BY NextType, NextLedger
<1>3. TypeOK /\ Ledger /\ [Next]_vars => [ListStep]_vars BY NextLedger
<1>4. Spec => [][ListStep]_vars BY <1>1, <1>2, <1>3, PTL DEF Spec
<1>5. QED BY <1>4 DEF NoPaymentLost, ListStep

-----------------------------------------------------------------------------
(* The books, while no request wrote on what another had written. *)

\* Amount, status and list of a document agree.
Books(d) ==
    /\ d.paid = Sum[d.payments]
    /\ d.paid <= d.total
    /\ d.status = "paid" <=> (d.paid >= d.total /\ d.total > 0)
    /\ d.status = "partial" <=> (d.paid > 0 /\ d.paid < d.total)
    /\ d.status \in {"draft", "void"} => d.payments = {}

\* What a request is about to save keeps the books and the rules of what it loaded.
Ready(w) ==
    /\ pc[w] \in {"pay", "unpay", "update", "status", "mail", "mailed", "delete"} =>
          /\ Books(edited[w])
          /\ loaded[w].status = "void" => edited[w].status = "void"
          /\ loaded[w].status # "draft" => edited[w].total = loaded[w].total
    /\ pc[w] = "pay" => loaded[w].payments \subseteq edited[w].payments
    /\ pc[w] \in {"update", "status", "mail", "mailed"} => edited[w].payments = loaded[w].payments
    /\ pc[w] = "delete" => loaded[w].status = "draft"
    /\ pc[w] \in {"close", "emit"} => doc.status = "paid"

InOrder == Books(doc) /\ \A w \in Workers : Ready(w)

LEMMA PositiveSum ==
    ASSUME NEW list \in SUBSET Payments
    PROVE  list # {} <=> Sum[list] > 0
<1>1. CASE list = {} BY <1>1, SumAssumption
<1>2. CASE list # {}
  <2>1. PICK p \in list : TRUE BY <1>2
  <2>2. Sum[list] \in Nat /\ Sum[list \ {p}] \in Nat /\ Sum[list \ {p}] < Sum[list] BY SumWithout
  <2>3. QED BY <1>2, <2>2
<1>3. QED BY <1>1, <1>2

\* Settling a list that fits the total puts the books in order.
LEMMA SettledBooks ==
    ASSUME NEW d \in Docs, Sum[d.payments] <= d.total, d.status \notin {"draft", "void"}
    PROVE  /\ Books(Settle(d))
           /\ Settle(d).total = d.total
           /\ Settle(d).payments = d.payments
<1> DEFINE sum == Sum[d.payments]
<1>1. sum \in Nat /\ d.total \in Nat BY SumAssumption DEF Docs
<1>2. d.status \in {"sent", "partial", "paid"} BY DEF Docs, Statuses
<1>3. /\ Settle(d).paid = sum /\ Settle(d).total = d.total /\ Settle(d).payments = d.payments
      /\ Settle(d).status = IF sum >= d.total /\ d.total > 0 THEN "paid"
                            ELSE IF sum > 0 THEN "partial"
                            ELSE IF d.status \in {"paid", "partial"} THEN "sent" ELSE d.status
      BY DEF Settle, Docs
<1>6. sum <= d.total OBVIOUS
<1> HIDE DEF sum
<1>4. Settle(d).status \notin {"draft", "void"} BY <1>2, <1>3
<1>5. /\ Settle(d).status = "paid" <=> (sum >= d.total /\ d.total > 0)
      /\ Settle(d).status = "partial" <=> (sum > 0 /\ sum < d.total)
  <2>1. CASE sum >= d.total /\ d.total > 0 BY <1>1, <1>3, <2>1
  <2>2. CASE ~(sum >= d.total /\ d.total > 0) /\ sum > 0
    <3>1. sum < d.total BY <1>1, <1>6, <2>2
    <3>2. QED BY <1>3, <2>2, <3>1
  <2>3. CASE ~(sum >= d.total /\ d.total > 0) /\ ~(sum > 0)
    <3>1. Settle(d).status = "sent" BY <1>2, <1>3, <2>3
    <3>2. QED BY <2>3, <3>1
  <2>4. QED BY <2>1, <2>2, <2>3
<1>7. Settle(d).paid = Sum[Settle(d).payments] BY <1>3 DEF sum
<1>8. QED BY <1>3, <1>4, <1>5, <1>6, <1>7 DEF Books

LEMMA WithPaymentBooks ==
    ASSUME NEW d \in Docs, Books(d), NEW p \in Payments, p \notin d.payments,
           Amount[p] <= d.total - d.paid, d.status # "void"
    PROVE  /\ Books(WithPayment(d, p))
           /\ WithPayment(d, p).total = d.total
           /\ WithPayment(d, p).payments = d.payments \cup {p}
<1> DEFINE s == [d EXCEPT !.status = IF @ = "draft" THEN "sent" ELSE @,
                          !.payments = @ \cup {p}]
<1>1. /\ s \in Docs /\ s.payments = d.payments \cup {p} /\ s.total = d.total
      /\ s.status \notin {"draft", "void"}
      BY DEF Docs, Statuses
<1>2. d.payments \in SUBSET Payments /\ d.total \in Nat /\ d.paid \in Nat BY DEF Docs
<1>3. Sum[d.payments \cup {p}] = Sum[d.payments] + Amount[p] BY <1>2, SumAssumption
<1>4. Sum[d.payments] \in Nat /\ Amount[p] \in Nat BY <1>2, SumAssumption
<1>5. Sum[d.payments] + Amount[p] <= d.total BY <1>2, <1>4 DEF Books
<1>6. Sum[s.payments] <= s.total BY <1>1, <1>3, <1>5
<1> HIDE DEF s
<1>7. WithPayment(d, p) = Settle(s) BY DEF WithPayment, s
<1>8. QED BY <1>1, <1>6, <1>7, SettledBooks

LEMMA WithoutPaymentBooks ==
    ASSUME NEW d \in Docs, Books(d), NEW p \in d.payments
    PROVE  /\ Books(Settle([d EXCEPT !.payments = @ \ {p}]))
           /\ Settle([d EXCEPT !.payments = @ \ {p}]).total = d.total
           /\ d.status # "void"
<1> DEFINE s == [d EXCEPT !.payments = @ \ {p}]
<1>1. s \in Docs /\ s.payments = d.payments \ {p} /\ s.total = d.total /\ s.status = d.status
      BY DEF Docs
<1>2. d.status \notin {"draft", "void"} BY DEF Books
<1>3. d.payments \in SUBSET Payments /\ d.total \in Nat BY DEF Docs
<1>4. /\ Sum[d.payments \ {p}] \in Nat /\ Sum[d.payments] \in Nat
      /\ Sum[d.payments \ {p}] < Sum[d.payments]
      BY <1>3, SumWithout
<1>5. Sum[d.payments] <= d.total BY DEF Books
<1>6. Sum[s.payments] <= s.total BY <1>1, <1>3, <1>4, <1>5
<1> HIDE DEF s
<1>7. Books(Settle(s)) /\ Settle(s).total = s.total BY <1>1, <1>2, <1>6, SettledBooks
<1>8. QED BY <1>1, <1>2, <1>7 DEF s

\* The books are a matter of four fields.
LEMMA SameBooks ==
    ASSUME NEW d \in Docs, NEW e \in Docs, Books(e), d.paid = e.paid, d.total = e.total,
           d.status = e.status, d.payments = e.payments
    PROVE  Books(d)
  BY DEF Books

LEMMA LoadInOrder ==
    ASSUME TypeOK, InOrder, NEW w \in Workers, NEW changed \in Docs,
           NEW step \in {"pay", "unpay", "update", "status", "mail", "delete"},
           Load(w, changed, step), Books(changed),
           doc.status = "void" => changed.status = "void",
           doc.status # "draft" => changed.total = doc.total,
           step = "pay" => doc.payments \subseteq changed.payments,
           step \in {"update", "status", "mail"} => changed.payments = doc.payments,
           step = "delete" => doc.status = "draft"
    PROVE  InOrder'
<1>1. /\ pc'[w] = step /\ loaded'[w] = doc /\ edited'[w] = changed /\ doc' = doc
      BY DEF Load, TypeOK
<1>2. Ready(w)' BY <1>1 DEF Ready
<1>3. ASSUME NEW v \in Workers \ {w} PROVE Ready(v)'
  <2>1. pc'[v] = pc[v] /\ loaded'[v] = loaded[v] /\ edited'[v] = edited[v] /\ doc' = doc BY DEF Load, TypeOK
  <2>2. QED BY <2>1 DEF Ready, InOrder
<1>4. Books(doc)' BY <1>1 DEF InOrder
<1>5. QED BY <1>2, <1>3, <1>4 DEF InOrder

\* Where nobody wrote since the load, what is saved is what was edited.
LEMMA MergedAlone ==
    ASSUME TypeOK, NEW w \in Workers, loaded[w] = doc
    PROVE  /\ Merged(w) \in Docs
           /\ Merged(w).status = edited[w].status
           /\ Merged(w).paid = edited[w].paid
           /\ Merged(w).total = edited[w].total
           /\ Merged(w).payments = doc.payments
           /\ Merged(w).version = doc.version
<1>1. doc \in Docs /\ edited[w] \in Docs BY DEF TypeOK
<1>2. Merged(w).status = edited[w].status BY <1>1 DEF Merged, Docs
<1>3. Merged(w).paid = edited[w].paid BY <1>1 DEF Merged, Docs
<1>4. Merged(w).total = edited[w].total BY <1>1 DEF Merged, Docs
<1>5. QED BY <1>2, <1>3, <1>4, MergedType, MergedLists

LEMMA SaveInOrder ==
    ASSUME TypeOK, InOrder, ~crossed', NEW w \in Workers,
           NEW step \in {"pay", "unpay", "update", "status", "mailed"},
           NEW changed \in Docs, NEW next \in {"idle", "close"},
           changed.status = Merged(w).status, changed.paid = Merged(w).paid,
           changed.total = Merged(w).total, changed.payments = edited[w].payments,
           next = "close" => edited[w].status = "paid",
           Save(w, step, changed, next)
    PROVE  InOrder' /\ RuleStep
<1>1. /\ doc' = changed /\ pc[w] = step /\ pc'[w] = next /\ UNCHANGED <<exists, notified>>
      BY DEF Save, TypeOK
<1>2. Ready(w) BY DEF InOrder
<1>3. loaded[w] = doc BY DEF Save, Outdated
<1>4. Books(edited[w]) /\ edited[w] \in Docs BY <1>1, <1>2 DEF Ready, TypeOK
<1>5. changed.status = edited[w].status /\ changed.paid = edited[w].paid
      /\ changed.total = edited[w].total
      BY <1>3, MergedAlone
<1>6. Books(changed) BY <1>4, <1>5, SameBooks
<1>7. Ready(w)' BY <1>1, <1>5 DEF Ready
<1>8. ASSUME NEW v \in Workers \ {w} PROVE Ready(v)'
  <2>1. pc'[v] = pc[v] /\ loaded'[v] = loaded[v] /\ edited'[v] = edited[v] BY DEF Save, TypeOK
  <2>2. pc[v] \notin {"close", "emit"} BY DEF Save, Announcing
  <2>3. QED BY <2>1, <2>2 DEF Ready, InOrder
<1>9. InOrder' BY <1>1, <1>6, <1>7, <1>8 DEF InOrder
<1>10. RuleStep BY <1>1, <1>2, <1>3, <1>5 DEF RuleStep, Ready
<1>11. QED BY <1>9, <1>10

\* Steps that leave the document alone.
LEMMA QuietInOrder ==
    ASSUME TypeOK, InOrder, NEW w \in Workers,
           UNCHANGED <<doc, loaded, edited>>,
           NEW next \in {"idle", "emit", "mailed"}, pc' = [pc EXCEPT ![w] = next],
           next = "emit" => pc[w] = "close", next = "mailed" => pc[w] = "mail"
    PROVE  InOrder'
<1>1. pc'[w] = next /\ \A v \in Workers \ {w} : pc'[v] = pc[v] BY DEF TypeOK
<1>2. Ready(w) BY DEF InOrder
<1>3. Ready(w)' BY <1>1, <1>2 DEF Ready
<1>4. \A v \in Workers \ {w} : Ready(v)' BY <1>1 DEF Ready, InOrder
<1>5. QED BY <1>3, <1>4 DEF InOrder

LEMMA NextInOrder ==
    ASSUME TypeOK, InOrder, Ledger, ~crossed', NEW w \in Workers, Step(w)
    PROVE  InOrder' /\ RuleStep
<1>0. doc \in Docs /\ Books(doc) /\ edited[w] \in Docs /\ Ready(w) BY DEF TypeOK, InOrder
<1>S. ASSUME NEW changed, NEW step, NEW next, Save(w, step, changed, next) PROVE pc[w] = step /\ loaded[w] = doc
      BY <1>S DEF Save, Outdated
<1>L. ASSUME NEW changed, NEW step, Load(w, changed, step) PROVE RuleStep
      BY <1>L DEF Load, RuleStep
<1>1. ASSUME NEW p \in Payments, AddPayment(w, p) PROVE InOrder' /\ RuleStep
  <2>1. /\ Amount[p] <= doc.total - doc.paid /\ doc.status # "void" /\ p \notin doc.payments
        /\ Load(w, WithPayment(doc, p), "pay")
        BY <1>1 DEF AddPayment, Ledger
  <2>2. /\ Books(WithPayment(doc, p)) /\ WithPayment(doc, p).total = doc.total
        /\ WithPayment(doc, p).payments = doc.payments \cup {p}
        BY <1>0, <2>1, WithPaymentBooks
  <2>3. WithPayment(doc, p) \in Docs BY <1>0, WithPaymentType
  <2>4. InOrder' BY <2>1, <2>2, <2>3, LoadInOrder
  <2>5. QED BY <1>L, <2>1, <2>4
<1>2. ASSUME NEW p \in Payments, RemovePayment(w, p) PROVE InOrder' /\ RuleStep
  <2> DEFINE s == Settle([doc EXCEPT !.payments = @ \ {p}])
  <2>1. p \in doc.payments /\ Load(w, s, "unpay") BY <1>2 DEF RemovePayment
  <2>2. Books(s) /\ s.total = doc.total /\ doc.status # "void" BY <1>0, <2>1, WithoutPaymentBooks
  <2>3. [doc EXCEPT !.payments = @ \ {p}] \in Docs BY <1>0 DEF Docs
  <2>4. s \in Docs BY <2>3, SettleType
  <2> HIDE DEF s
  <2>5. InOrder' BY <2>1, <2>2, <2>4, LoadInOrder
  <2>6. QED BY <1>L, <2>1, <2>5
<1>3. CASE SavePayment(w)
  <2> DEFINE c == [Merged(w) EXCEPT !.payments = @ \cup (edited[w].payments \ loaded[w].payments),
                                    !.version = @ + 1]
  <2> DEFINE next == IF edited[w].status = "paid" THEN "close" ELSE "idle"
  <2>1. pc[w] = "pay" /\ Save(w, "pay", c, next) BY <1>3 DEF SavePayment, Save
  <2>2. loaded[w] = doc /\ doc.payments \subseteq edited[w].payments BY <1>0, <1>S, <2>1 DEF Ready
  <2>3. doc.payments \cup (edited[w].payments \ loaded[w].payments) = edited[w].payments BY <2>2
  <2>4. Merged(w) \in Docs /\ Merged(w).payments = doc.payments BY <2>2, MergedAlone
  <2>5. edited[w].payments \in SUBSET Payments BY <1>0 DEF Docs
  <2>6. c = [Merged(w) EXCEPT !.payments = edited[w].payments, !.version = @ + 1] BY <2>3, <2>4
  <2>7. c \in Docs BY <2>4, <2>5, <2>6, ListType
  <2>8. c.status = Merged(w).status /\ c.paid = Merged(w).paid /\ c.total = Merged(w).total
        /\ c.payments = edited[w].payments
        BY <2>4, <2>6 DEF Docs
  <2>9. next \in {"idle", "close"} /\ (next = "close" => edited[w].status = "paid") OBVIOUS
  <2> HIDE DEF c, next
  <2>10. QED BY <2>1, <2>7, <2>8, <2>9, SaveInOrder
<1>4. CASE SaveRemoval(w)
  <2> DEFINE c == [Merged(w) EXCEPT !.payments = edited[w].payments, !.version = @ + 1]
  <2>1. Save(w, "unpay", c, "idle") BY <1>4 DEF SaveRemoval
  <2>2. Merged(w) \in Docs BY MergedType
  <2>3. edited[w].payments \in SUBSET Payments BY <1>0 DEF Docs
  <2>4. c \in Docs BY <2>2, <2>3, ListType
  <2>5. c.status = Merged(w).status /\ c.paid = Merged(w).paid /\ c.total = Merged(w).total
        /\ c.payments = edited[w].payments
        BY <2>2 DEF Docs
  <2> HIDE DEF c
  <2>6. QED BY <2>1, <2>4, <2>5, SaveInOrder
<1>5. ASSUME NEW t \in Totals, Update(w, t) PROVE InOrder' /\ RuleStep
  <2> DEFINE c == [doc EXCEPT !.total = t]
  <2>1. doc.status = "draft" /\ Load(w, c, "update") BY <1>5 DEF Update
  <2>2. /\ c \in Docs /\ c.status = "draft" /\ c.payments = doc.payments /\ c.paid = doc.paid
        /\ c.total \in Nat
        BY <1>0, <2>1 DEF Docs
  <2>3. doc.payments = {} /\ doc.paid = 0 BY <1>0, <2>1, SumAssumption DEF Books
  <2> HIDE DEF c
  <2>4. doc.total \in Nat BY <1>0 DEF Docs
  <2>5. Books(c) BY <1>0, <2>1, <2>2, <2>3, <2>4, SumAssumption DEF Books
  <2>6. InOrder' BY <2>1, <2>2, <2>5, LoadInOrder
  <2>7. QED BY <1>L, <2>1, <2>6
<1>6. ASSUME NEW s \in {"sent", "void"}, SetStatus(w, s) PROVE InOrder' /\ RuleStep
  <2> DEFINE c == [doc EXCEPT !.status = s]
  <2>1. (s = "sent" /\ doc.status = "draft") \/ (s = "void" /\ doc.paid = 0) BY <1>6 DEF SetStatus
  <2>2. Load(w, c, "status") BY <1>6 DEF SetStatus
  <2>3. /\ c \in Docs /\ c.status = s /\ c.payments = doc.payments /\ c.paid = doc.paid
        /\ c.total = doc.total
        BY <1>0 DEF Docs, Statuses
  <2>4. doc.payments = {} /\ doc.paid = 0
        BY <1>0, <2>1, PositiveSum, SumAssumption DEF Books, Docs
  <2> HIDE DEF c
  <2>5. doc.total \in Nat BY <1>0 DEF Docs
  <2>6. Books(c)
    <3>1. c.paid = Sum[c.payments] /\ c.paid <= c.total BY <2>3, <2>4, <2>5, SumAssumption
    <3>2. ~(c.paid >= c.total /\ c.total > 0) /\ ~(c.paid > 0) BY <2>3, <2>4, <2>5
    <3>3. c.status \notin {"paid", "partial"} BY <2>3
    <3>4. QED BY <2>3, <2>4, <3>1, <3>2, <3>3 DEF Books
  <2>7. doc.status = "void" => s = "void" BY <2>1
  <2>8. InOrder' BY <2>2, <2>3, <2>6, <2>7, LoadInOrder
  <2>9. QED BY <1>L, <2>2, <2>8
<1>7. CASE Send(w)
  <2> DEFINE c == [doc EXCEPT !.status = IF @ = "draft" THEN "sent" ELSE @]
  <2>1. doc.status # "void" /\ Load(w, c, "mail") BY <1>7 DEF Send
  <2>2. /\ c \in Docs /\ c.status = (IF doc.status = "draft" THEN "sent" ELSE doc.status)
        /\ c.payments = doc.payments /\ c.paid = doc.paid /\ c.total = doc.total
        BY <1>0 DEF Docs, Statuses
  <2> HIDE DEF c
  <2>3. Books(c)
    <3>1. CASE doc.status = "draft" BY <1>0, <2>2, <3>1 DEF Books
    <3>2. CASE doc.status # "draft" BY <1>0, <2>2, <3>2 DEF Books
    <3>3. QED BY <3>1, <3>2
  <2>4. InOrder' BY <2>1, <2>2, <2>3, LoadInOrder
  <2>5. QED BY <1>L, <2>1, <2>4
<1>8. CASE Remove(w)
  <2>1. doc.status = "draft" /\ Load(w, doc, "delete") BY <1>8 DEF Remove
  <2>2. InOrder' BY <1>0, <2>1, LoadInOrder
  <2>3. QED BY <1>L, <2>1, <2>2
<1>9. CASE SaveLines(w)
  <2> DEFINE c == [Merged(w) EXCEPT !.version = @ + 1]
  <2>1. pc[w] = "update" /\ Save(w, "update", c, "idle") BY <1>9 DEF SaveLines, Save
  <2>2. loaded[w] = doc /\ edited[w].payments = doc.payments BY <1>0, <1>S, <2>1 DEF Ready
  <2>3. Merged(w) \in Docs /\ Merged(w).payments = doc.payments BY <2>2, MergedAlone
  <2>4. c \in Docs /\ c.status = Merged(w).status /\ c.paid = Merged(w).paid
        /\ c.total = Merged(w).total /\ c.payments = edited[w].payments
        BY <2>2, <2>3 DEF Docs
  <2> HIDE DEF c
  <2>5. QED BY <2>1, <2>4, SaveInOrder
<1>10. ASSUME NEW step \in {"update", "status", "mailed"}, Save(w, step, Merged(w), "idle")
       PROVE  InOrder' /\ RuleStep
  <2>1. pc[w] = step /\ loaded[w] = doc BY <1>10, <1>S
  <2>2. edited[w].payments = doc.payments BY <1>0, <2>1 DEF Ready
  <2>3. Merged(w) \in Docs /\ Merged(w).payments = edited[w].payments BY <2>1, <2>2, MergedAlone
  <2>4. QED BY <1>10, <2>3, SaveInOrder
<1>11. CASE SaveTotal(w) \/ SaveStatus(w) \/ SaveSent(w)
       BY <1>10, <1>11 DEF SaveTotal, SaveStatus, SaveSent
<1>12. CASE CloseDeal(w) BY <1>12, QuietInOrder DEF CloseDeal, RuleStep
<1>13. CASE EmitPaid(w)
  <2>1. doc.status = "paid" BY <1>0, <1>13 DEF EmitPaid, Ready
  <2>2. InOrder' BY <1>13, QuietInOrder DEF EmitPaid
  <2>3. QED BY <1>13, <2>1, <2>2 DEF EmitPaid, RuleStep
<1>14. CASE Mail(w) BY <1>14, QuietInOrder DEF Mail, RuleStep
<1>15. CASE Delete(w)
  <2>1. doc.status = "draft" BY <1>0, <1>15 DEF Delete, Outdated, Ready
  <2>2. InOrder' BY <1>15, QuietInOrder DEF Delete
  <2>3. QED BY <1>15, <2>1, <2>2 DEF Delete, RuleStep
<1>16. CASE Fail(w) BY <1>16, QuietInOrder DEF Fail, RuleStep
<1>17. QED BY <1>1, <1>2, <1>3, <1>4, <1>5, <1>6, <1>7, <1>8, <1>9, <1>11, <1>12, <1>13,
              <1>14, <1>15, <1>16 DEF Step

LEMMA InitInOrder == Init => InOrder
<1> SUFFICES ASSUME Init PROVE InOrder OBVIOUS
<1>1. doc.status = "draft" /\ doc.total \in Nat /\ doc.paid = 0 /\ doc.payments = {}
      BY DEF Init
<1>2. Books(doc) BY <1>1, SumAssumption DEF Books
<1>3. QED BY <1>2 DEF Init, InOrder, Ready

LEMMA UnchangedInOrder ==
    ASSUME InOrder, UNCHANGED vars
    PROVE  InOrder'
  BY DEF vars, InOrder, Ready

\* A crossing is not forgotten.
LEMMA CrossedStays ==
    ASSUME TypeOK, crossed, [Next]_vars
    PROVE  crossed'
<1>1. CASE UNCHANGED vars BY <1>1 DEF vars
<1>2. ASSUME NEW w \in Workers, Step(w) PROVE crossed'
  BY <1>2 DEF Step, AddPayment, RemovePayment, Update, SetStatus, Send, Remove, Load,
              SavePayment, SaveRemoval, SaveLines, SaveTotal, SaveStatus, SaveSent, Save,
              CloseDeal, EmitPaid, Mail, Delete, Fail
<1>3. QED BY <1>1, <1>2 DEF Next

\* The invariant, until requests cross.
InOrderUntil == TypeOK /\ Ledger /\ (crossed \/ InOrder)

LEMMA InOrderStays == InOrderUntil /\ [Next]_vars => InOrderUntil' /\ [RuleStep]_vars
<1> SUFFICES ASSUME InOrderUntil, [Next]_vars PROVE InOrderUntil' /\ [RuleStep]_vars OBVIOUS
<1>1. TypeOK /\ Ledger /\ TypeOK' /\ Ledger' BY NextType, NextLedger DEF InOrderUntil
<1>2. CASE crossed' BY <1>1, <1>2 DEF InOrderUntil, RuleStep
<1>3. CASE ~crossed'
  <2>1. InOrder BY <1>1, <1>3, CrossedStays DEF InOrderUntil
  <2>2. CASE UNCHANGED vars BY <1>1, <2>1, <2>2, UnchangedInOrder DEF InOrderUntil
  <2>3. CASE Next BY <1>1, <1>3, <2>1, <2>3, NextInOrder DEF Next, InOrderUntil
  <2>4. QED BY <2>2, <2>3
<1>4. QED BY <1>2, <1>3

-----------------------------------------------------------------------------
(* How the books mend, whatever crossed before. *)

\* Amount and status of a document are those of its list.
SettledDoc(d) ==
    /\ d.paid = Sum[d.payments]
    /\ d.status = "paid" <=> (d.paid >= d.total /\ d.total > 0)
    /\ d.paid > 0 <=> d.status \in {"paid", "partial"}

\* A request that changes the list has settled what it is about to save.
Amended == \A w \in Workers : pc[w] \in {"pay", "unpay"} => SettledDoc(edited[w])

LEMMA SettleSettles ==
    ASSUME NEW d \in Docs
    PROVE  SettledDoc(Settle(d))
<1> DEFINE sum == Sum[d.payments]
<1>1. sum \in Nat /\ d.total \in Nat BY SumAssumption DEF Docs
<1>2. /\ Settle(d).paid = sum /\ Settle(d).total = d.total /\ Settle(d).payments = d.payments
      /\ Settle(d).status = IF sum >= d.total /\ d.total > 0 THEN "paid"
                            ELSE IF sum > 0 THEN "partial"
                            ELSE IF d.status \in {"paid", "partial"} THEN "sent" ELSE d.status
      BY DEF Settle, Docs
<1>3. Settle(d).paid = Sum[Settle(d).payments] BY <1>2
<1> HIDE DEF sum
<1>4. CASE sum >= d.total /\ d.total > 0
  <2>1. sum > 0 BY <1>1, <1>4
  <2>2. QED BY <1>2, <1>3, <1>4, <2>1 DEF SettledDoc
<1>5. CASE ~(sum >= d.total /\ d.total > 0) /\ sum > 0 BY <1>2, <1>3, <1>5 DEF SettledDoc
<1>6. CASE ~(sum >= d.total /\ d.total > 0) /\ ~(sum > 0)
  <2>1. Settle(d).status \notin {"paid", "partial"} BY <1>2, <1>6
  <2>2. QED BY <1>2, <1>3, <1>6, <2>1 DEF SettledDoc
<1>7. QED BY <1>4, <1>5, <1>6

LEMMA WithPaymentSettles ==
    ASSUME NEW d \in Docs, NEW p \in Payments
    PROVE  SettledDoc(WithPayment(d, p))
<1> DEFINE s == [d EXCEPT !.status = IF @ = "draft" THEN "sent" ELSE @,
                          !.payments = @ \cup {p}]
<1>1. s \in Docs BY DEF Docs, Statuses
<1>2. QED BY <1>1, SettleSettles DEF WithPayment

LEMMA InitAmended == Init => Amended
  BY DEF Init, Amended

\* Loading what is not a change of the list leaves the others as they are.
LEMMA LoadAmended ==
    ASSUME TypeOK, Amended, NEW w \in Workers, NEW changed, NEW step, Load(w, changed, step),
           step \in {"pay", "unpay"} => SettledDoc(changed)
    PROVE  Amended' /\ MendStep
<1>1. \A v \in Workers : IF v = w THEN pc'[v] = step /\ edited'[v] = changed
                                  ELSE pc'[v] = pc[v] /\ edited'[v] = edited[v]
      BY DEF Load, TypeOK
<1>2. Amended' BY <1>1 DEF Amended, SettledDoc
<1>3. doc' = doc BY DEF Load
<1>4. QED BY <1>2, <1>3 DEF MendStep

LEMMA QuietAmended ==
    ASSUME TypeOK, Amended, NEW w \in Workers, edited' = edited,
           NEW next \in PCs \ {"pay", "unpay"}, pc' = [pc EXCEPT ![w] = next]
    PROVE  Amended'
<1>1. \A v \in Workers : IF v = w THEN pc'[v] = next ELSE pc'[v] = pc[v] BY DEF TypeOK
<1>2. QED BY <1>1 DEF Amended

\* What is saved of a payment, on the document as it was loaded, is what was settled.
LEMMA ListSaved ==
    ASSUME TypeOK, Amended, NEW w \in Workers, NEW step \in {"pay", "unpay"},
           NEW changed \in Docs, NEW next \in PCs \ {"pay", "unpay"},
           Save(w, step, changed, next),
           ~Outdated(w) => /\ changed.status = edited[w].status /\ changed.paid = edited[w].paid
                           /\ changed.total = edited[w].total
                           /\ changed.payments = edited[w].payments
    PROVE  Amended' /\ MendStep
<1>1. pc[w] = step /\ doc' = changed BY DEF Save
<1>2. Amended' BY QuietAmended DEF Save
<1>3. ~Outdated(w) => Settled' BY <1>1 DEF Amended, SettledDoc, Settled, ListIsTheTruth
<1>4. \A v \in Workers \ {w} : pc'[v] = pc[v] BY DEF Save, TypeOK
<1>5. QED BY <1>2, <1>3, <1>4 DEF MendStep

\* A step of another kind is no change of the list.
LEMMA OthersMend ==
    ASSUME TypeOK, Amended, NEW w \in Workers, pc[w] \notin {"pay", "unpay"} \/ doc' = doc,
           edited' = edited, NEW next \in PCs \ {"pay", "unpay"}, pc' = [pc EXCEPT ![w] = next]
    PROVE  Amended' /\ MendStep
<1>1. Amended' BY QuietAmended
<1>2. \A v \in Workers \ {w} : pc'[v] = pc[v] BY DEF TypeOK
<1>3. QED BY <1>1, <1>2 DEF MendStep

LEMMA NextAmended ==
    ASSUME TypeOK, Ledger, Amended, NEW w \in Workers, Step(w)
    PROVE  Amended' /\ MendStep
<1> USE DEF PCs
<1>0. doc \in Docs /\ Merged(w) \in Docs /\ edited[w] \in Docs BY MergedType DEF TypeOK
<1>1. ASSUME NEW p \in Payments, AddPayment(w, p) PROVE Amended' /\ MendStep
  <2>1. SettledDoc(WithPayment(doc, p)) BY <1>0, WithPaymentSettles
  <2>2. Load(w, WithPayment(doc, p), "pay") BY <1>1 DEF AddPayment
  <2>3. QED BY <2>1, <2>2, LoadAmended
<1>2. ASSUME NEW p \in Payments, RemovePayment(w, p) PROVE Amended' /\ MendStep
  <2>1. [doc EXCEPT !.payments = @ \ {p}] \in Docs BY <1>0 DEF Docs
  <2>2. SettledDoc(Settle([doc EXCEPT !.payments = @ \ {p}])) BY <2>1, SettleSettles
  <2>3. Load(w, Settle([doc EXCEPT !.payments = @ \ {p}]), "unpay") BY <1>2 DEF RemovePayment
  <2>4. QED BY <2>2, <2>3, LoadAmended
<1>3. CASE SavePayment(w)
  <2> DEFINE c == [Merged(w) EXCEPT !.payments = @ \cup (edited[w].payments \ loaded[w].payments),
                                    !.version = @ + 1]
  <2> DEFINE next == IF edited[w].status = "paid" THEN "close" ELSE "idle"
  <2>1. pc[w] = "pay" /\ Save(w, "pay", c, next) BY <1>3 DEF SavePayment, Save
  <2>2. PICK p \in registered : /\ p \notin loaded[w].payments
                                /\ edited[w].payments = loaded[w].payments \cup {p}
        BY <2>1 DEF Ledger, Paying
  <2>3. Merged(w).payments \cup (edited[w].payments \ loaded[w].payments) \in SUBSET Payments
        BY <1>0 DEF Docs
  <2>4. c \in Docs BY <1>0, <2>3, ListType
  <2>5. ASSUME ~Outdated(w)
        PROVE  /\ c.status = edited[w].status /\ c.paid = edited[w].paid
               /\ c.total = edited[w].total /\ c.payments = edited[w].payments
    <3>1. loaded[w] = doc BY <2>5 DEF Outdated
    <3>2. c.payments = edited[w].payments BY <1>0, <2>2, <3>1, MergedAlone DEF Docs
    <3>3. QED BY <1>0, <3>1, <3>2, MergedAlone DEF Docs
  <2>6. next \in PCs \ {"pay", "unpay"} OBVIOUS
  <2> HIDE DEF c, next
  <2>7. QED BY <2>1, <2>4, <2>5, <2>6, ListSaved
<1>4. CASE SaveRemoval(w)
  <2> DEFINE c == [Merged(w) EXCEPT !.payments = edited[w].payments, !.version = @ + 1]
  <2>1. Save(w, "unpay", c, "idle") BY <1>4 DEF SaveRemoval
  <2>2. edited[w].payments \in SUBSET Payments BY <1>0 DEF Docs
  <2>3. c \in Docs BY <1>0, <2>2, ListType
  <2>4. ASSUME ~Outdated(w)
        PROVE  /\ c.status = edited[w].status /\ c.paid = edited[w].paid
               /\ c.total = edited[w].total /\ c.payments = edited[w].payments
    <3>1. loaded[w] = doc BY <2>4 DEF Outdated
    <3>2. QED BY <1>0, <3>1, MergedAlone DEF Docs
  <2> HIDE DEF c
  <2>5. QED BY <2>1, <2>3, <2>4, ListSaved
<1>5. ASSUME NEW changed, NEW step \in {"update", "status", "mail", "delete"}, Load(w, changed, step)
      PROVE  Amended' /\ MendStep
      BY <1>5, LoadAmended
<1>6. CASE \E t \in Totals : Update(w, t) BY <1>5, <1>6 DEF Update
<1>7. CASE \E s \in {"sent", "void"} : SetStatus(w, s) BY <1>5, <1>7 DEF SetStatus
<1>8. CASE Send(w) BY <1>5, <1>8 DEF Send
<1>9. CASE Remove(w) BY <1>5, <1>9 DEF Remove
<1>10. ASSUME NEW changed, NEW step \in {"update", "status", "mailed"}, Save(w, step, changed, "idle")
       PROVE  Amended' /\ MendStep
       BY <1>10, OthersMend DEF Save
<1>11. CASE SaveLines(w) \/ SaveTotal(w) \/ SaveStatus(w) \/ SaveSent(w)
       BY <1>10, <1>11 DEF SaveLines, SaveTotal, SaveStatus, SaveSent
<1>12. CASE CloseDeal(w) BY <1>12, OthersMend DEF CloseDeal
<1>13. CASE EmitPaid(w) BY <1>13, OthersMend DEF EmitPaid
<1>14. CASE Mail(w) BY <1>14, OthersMend DEF Mail
<1>15. CASE Delete(w) BY <1>15, OthersMend DEF Delete
<1>16. CASE Fail(w) BY <1>16, OthersMend DEF Fail
<1>17. QED BY <1>1, <1>2, <1>3, <1>4, <1>6, <1>7, <1>8, <1>9, <1>11, <1>12, <1>13,
              <1>14, <1>15, <1>16 DEF Step

LEMMA AmendedStays ==
    ASSUME TypeOK, Ledger, Amended, [Next]_vars
    PROVE  Amended' /\ [MendStep]_vars
<1>1. CASE UNCHANGED vars
  <2>1. Amended' BY <1>1 DEF vars, Amended
  <2>2. QED BY <1>1, <2>1
<1>2. CASE Next BY <1>2, NextAmended DEF Next
<1>3. QED BY <1>1, <1>2

-----------------------------------------------------------------------------

\* However many requests interleave, and whatever fails, until one of them writes on what
\* another had written since it was loaded (which nothing in the code prevents): the paid
\* amount is what the list adds up to, never more than the total, the status says so, and
\* void invoices hold no payments.
THEOREM BooksAgree == Spec => []BooksBalance
<1>1. Init => InOrderUntil BY InitType, InitLedger, InitInOrder DEF InOrderUntil
<1>2. InOrderUntil /\ [Next]_vars => InOrderUntil' BY InOrderStays
<1>3. InOrderUntil => BooksBalance
      BY DEF InOrderUntil, InOrder, Books, BooksBalance, ListIsTheTruth, StatusFollowsPayments, NeverOverpaid,
             VoidHoldsNoPayments
<1>4. QED BY <1>1, <1>2, <1>3, PTL DEF Spec

\* With the same exception: amounts are frozen once sent, only drafts are deleted, void is
\* final, and INVOICE_PAID is emitted for a paid invoice.  Without it: a payment that is
\* registered or removed on the document as it is puts amount and status right, whatever
\* requests did to one another before.
THEOREM RulesKept == Spec => IssuedStays
<1> DEFINE Inv == InOrderUntil /\ Amended
<1>1. Init => Inv BY InitType, InitLedger, InitInOrder, InitAmended DEF InOrderUntil
<1>2. Inv /\ [Next]_vars => Inv' /\ [RuleStep /\ MendStep]_vars
      BY InOrderStays, AmendedStays DEF InOrderUntil
<1> HIDE DEF Inv
<1>3. Spec => [][RuleStep /\ MendStep]_vars BY <1>1, <1>2, PTL DEF Spec
<1>4. QED BY <1>3 DEF IssuedStays
=============================================================================
