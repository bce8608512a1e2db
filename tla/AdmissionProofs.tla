-------------------------- MODULE AdmissionProofs --------------------------
(* Theorems of Admission, for all authors, costs, capacities and bounds. *)
EXTENDS Admission, FiniteSetTheorems, TLAPS

-----------------------------------------------------------------------------
(* Amounts                                                                  *)

\* One unit more costs the price more; more units cost no less.
LEMMA Price ==
  ASSUME NEW cost \in Nat, NEW m \in Int, NEW n \in Int
  PROVE  /\ cost * m \in Int
         /\ cost * (m + 1) = cost * m + cost
         /\ m <= n => cost * m <= cost * n
BY Z3

\* The invoices of a that were paid, and those that were credited.
PaidOf(a) == {i \in settled : owner[i] = a}
CreditedOf(a) == {i \in Invoices : owner[i] = a /\ credits[i] = 1}

\* Sets of invoices have a size; a smaller set is no larger.
LEMMA Sizes ==
  /\ \A I \in SUBSET Invoices : IsFiniteSet(I) /\ Cardinality(I) \in Nat
  /\ \A I, J \in SUBSET Invoices : I \subseteq J => Cardinality(I) <= Cardinality(J)
<1>1. IsFiniteSet(Invoices)
  BY FS_Interval, AdmissionAssumption DEF AdmissionAssumption, Invoices
<1>2. \A I \in SUBSET Invoices : IsFiniteSet(I)
  BY <1>1, FS_Subset
<1>3. QED
  BY <1>2, FS_CardinalityType, FS_Subset

-----------------------------------------------------------------------------
(* The inductive invariant                                                  *)

\* How the tables, the messages and the tasks refer to one another.
LinkInv ==
  /\ \A i \in Invoices : i <= issued <=> owner[i] \in Authors
  /\ \A i \in Invoices : owner[i] \in Authors => owner[i] \in accounts
  /\ settled \subseteq 1..issued
  /\ \A k \in 1..Len(messages) : messages[k].kind = "paid" => messages[k].invoice \in settled
  /\ payment.at = "idle" => payment = PaymentIdle
  /\ payment.at # "idle" => payment.author \in Authors
  /\ payment.at \in {"ask", "admit"} => /\ payment.invoice \in 1..issued
                                        /\ payment.author = owner[payment.invoice]
  /\ payment.at = "issue" => payment.author \in accounts
  /\ payment.at = "admit" => payment.invoice \in settled
  /\ writer.at \in {"write", "charge"} => writer.author \in Authors

\* A credit is for a payment, and the status is there to prevent a second.
CreditInv ==
  \A i \in Invoices : credits[i] # 0 =>
    credits[i] = 1 /\ i \in settled /\ status[i] \in {"Paid", "Expired"}

\* Events of a that have been published, and are or will be charged.
Used(a) == published[a] - waived[a]
\* Of these the one that is about to be charged.
Due(a) == IF writer = [at |-> "charge", author |-> a] THEN 1 ELSE 0
Fee(a) == IF a \in admitted THEN AdmissionCost ELSE 0

\* The balance is no more than the credits leave.
BalanceInv(a) ==
  balance[a] + CostPerEvent * (Used(a) - Due(a)) + Fee(a)
    <= AdmissionCost * Cardinality(CreditedOf(a))

\* What a got was paid.
ServedInv(a) ==
  IF a \in admitted
  THEN AdmissionCost + CostPerEvent * Used(a) <= AdmissionCost * Cardinality(PaidOf(a))
  ELSE published[a] = 0

\* The event the writer has decided to take was paid, whatever happens to the
\* balance until it is published.
TakenInv(a) ==
  writer = [at |-> "write", author |-> a] =>
    /\ a \in admitted
    /\ AdmissionCost + CostPerEvent * (Used(a) + 1) <= AdmissionCost * Cardinality(PaidOf(a))

MoneyInv == \A a \in Authors \ Whitelist : BalanceInv(a) /\ ServedInv(a) /\ TakenInv(a)

IInv == TypeOK /\ LinkInv /\ CreditInv /\ MoneyInv

LEMMA InvImplies == IInv => PaidFor /\ CreditedOnce
<1> SUFFICES ASSUME IInv PROVE PaidFor /\ CreditedOnce
  OBVIOUS
<1>1. PaidFor
  BY DEF IInv, MoneyInv, ServedInv, Used, PaidOf, PaidFor
<1>2. CreditedOnce
  BY DEF IInv, TypeOK, CreditInv, CreditedOnce
<1>3. QED
  BY <1>1, <1>2

LEMMA InitInv == Init => IInv
<1> SUFFICES ASSUME Init PROVE IInv
  OBVIOUS
<1>1. TypeOK
  <2>1. owner \in [Invoices -> Authors \cup {NoAuthor}] /\ status \in [Invoices -> Statuses]
    BY DEF Init, Statuses
  <2>2. messages \in Seq(Messages) /\ Len(messages) <= Capacity
    BY AdmissionAssumption DEF Init, AdmissionAssumption
  <2>3. /\ payment \in [at : {"idle", "bill", "issue", "ask", "admit"},
                         author : Authors \cup {NoAuthor}, invoice : 0..MaxInvoices]
        /\ writer \in [at : {"idle", "write", "charge", "dead"},
                        author : Authors \cup {NoAuthor}]
    BY AdmissionAssumption DEF Init, PaymentIdle, WriterIdle, AdmissionAssumption
  <2>4. /\ hooks \in [Invoices -> 0..MaxHooks] /\ credits \in [Invoices -> Nat]
        /\ published \in [Authors -> 0..MaxEvents] /\ waived \in [Authors -> Nat]
    BY AdmissionAssumption DEF Init, AdmissionAssumption
  <2>5. /\ admitted \subseteq accounts /\ accounts \subseteq Authors
        /\ settled \subseteq Invoices /\ failed \in BOOLEAN
    BY Zenon DEF Init
  <2>6. balance \in [Authors -> Int] /\ issued \in 0..MaxInvoices
    BY AdmissionAssumption DEF Init, AdmissionAssumption
  <2>7. QED
    BY <2>1, <2>2, <2>3, <2>4, <2>5, <2>6 DEF TypeOK
<1>2. LinkInv /\ CreditInv
  BY AdmissionAssumption DEF AdmissionAssumption, Init, LinkInv, CreditInv, PaymentIdle, WriterIdle, Invoices
<1>3. ASSUME NEW a \in Authors \ Whitelist PROVE BalanceInv(a) /\ ServedInv(a) /\ TakenInv(a)
  <2>1. Used(a) = 0 /\ Due(a) = 0 /\ Fee(a) = 0 /\ balance[a] = 0
    BY DEF Init, Used, Due, Fee, WriterIdle
  <2>2. CreditedOf(a) = {}
    BY DEF Init, CreditedOf
  <2>3. Cardinality(CreditedOf(a)) = 0
    BY <2>2, FS_EmptySet
  <2>4. BalanceInv(a)
    BY <2>1, <2>3, AdmissionAssumption DEF BalanceInv, AdmissionAssumption
  <2>5. QED
    BY <2>4 DEF Init, ServedInv, TakenInv, WriterIdle
<1>4. QED
  BY <1>1, <1>2, <1>3 DEF IInv, MoneyInv

-----------------------------------------------------------------------------
(* The shape of the state and its references                                *)

\* Messages name an author, or an invoice that was paid.
LEMMA MessageKinds ==
  /\ \A a \in Authors : NewAccount(a) \in Messages /\ CheckAccount(a) \in Messages
  /\ \A i \in Invoices : InvoicePaid(i) \in Messages
BY DEF NewAccount, CheckAccount, InvoicePaid, Messages

LEMMA PaymentIdleTyped ==
  PaymentIdle \in [at : {"idle", "bill", "issue", "ask", "admit"},
                   author : Authors \cup {NoAuthor}, invoice : 0..MaxInvoices]
BY AdmissionAssumption DEF PaymentIdle, AdmissionAssumption

\* The channel after a message keeps its capacity and its references.
LEMMA SendKeeps ==
  ASSUME TypeOK, LinkInv, NEW m \in Messages, Send(m),
         m.kind = "paid" => m.invoice \in settled
  PROVE  /\ messages' \in Seq(Messages) /\ Len(messages') <= Capacity
         /\ failed' \in BOOLEAN
         /\ \A k \in 1..Len(messages') :
              messages'[k].kind = "paid" => messages'[k].invoice \in settled
<1>1. CASE Len(messages) < Capacity
  <2>1. messages' = Append(messages, m) /\ failed' = failed
    BY <1>1 DEF Send
  <2>2. QED
    BY <1>1, <2>1, AdmissionAssumption DEF TypeOK, LinkInv, AdmissionAssumption
<1>2. CASE ~(Len(messages) < Capacity)
  <2>1. messages' = Append(Tail(messages), m) /\ failed' = TRUE
    BY <1>2 DEF Send
  <2>2. messages # <<>> /\ messages \in Seq(Messages) /\ Len(messages) = Capacity
    BY <1>2, AdmissionAssumption DEF TypeOK, AdmissionAssumption
  <2>3. /\ Tail(messages) \in Seq(Messages) /\ Len(Tail(messages)) = Len(messages) - 1
        /\ \A k \in 1..Len(Tail(messages)) : Tail(messages)[k] = messages[k + 1]
    BY <2>2
  <2>4. messages' \in Seq(Messages) /\ Len(messages') <= Capacity
    BY <2>1, <2>2, <2>3
  <2>5. \A k \in 1..Len(messages') :
          messages'[k].kind = "paid" => messages'[k].invoice \in settled
    BY <2>1, <2>2, <2>3 DEF LinkInv
  <2>6. QED
    BY <2>1, <2>4, <2>5
<1>3. QED
  BY <1>1, <1>2

\* A step that only sends.
LEMMA SendingKeeps ==
  ASSUME TypeOK, LinkInv, NEW m \in Messages, Send(m),
         m.kind = "paid" => m.invoice \in settled,
         UNCHANGED <<ledgerVars, invoiceVars, payment, writer, settled, credits, historyVars>>,
         hooks' \in [Invoices -> 0..MaxHooks]
  PROVE  TypeOK' /\ LinkInv'
<1>1. /\ messages' \in Seq(Messages) /\ Len(messages') <= Capacity
      /\ failed' \in BOOLEAN
      /\ \A k \in 1..Len(messages') :
           messages'[k].kind = "paid" => messages'[k].invoice \in settled
  BY SendKeeps
<1>2. TypeOK'
  BY <1>1 DEF TypeOK, ledgerVars, invoiceVars, historyVars
<1>3. LinkInv'
  BY <1>1 DEF LinkInv, ledgerVars, invoiceVars, historyVars
<1>4. QED
  BY <1>2, <1>3

\* An author visits a page or posts.
LEMMA AuthorStep ==
  ASSUME TypeOK, LinkInv, NEW a \in Authors,
         VisitPage(a) \/ AdmitFree(a) \/ AdmitPaid(a) \/ RefuseStranger(a)
  PROVE  TypeOK' /\ LinkInv'
<1>1. CASE VisitPage(a)
  <2>1. PICK m \in {CheckAccount(a), NewAccount(a)} : Send(m)
    BY <1>1 DEF VisitPage
  <2>2. m \in Messages /\ m.kind # "paid"
    <3>1. m \in Messages
      BY <2>1, MessageKinds
    <3>2. m.kind # "paid"
      BY <2>1 DEF CheckAccount, NewAccount
    <3>3. QED
      BY <3>1, <3>2
  <2>3. /\ UNCHANGED <<ledgerVars, invoiceVars, payment, writer, settled, credits, historyVars>>
        /\ hooks' \in [Invoices -> 0..MaxHooks]
    BY <1>1 DEF VisitPage, processorVars, TypeOK
  <2>4. QED
    BY <2>1, <2>2, <2>3, SendingKeeps
<1>2. CASE RefuseStranger(a)
  <2>1. PICK m \in {CheckAccount(a), NewAccount(a)} : Send(m)
    BY <1>2 DEF RefuseStranger
  <2>2. m \in Messages /\ m.kind # "paid"
    <3>1. m \in Messages
      BY <2>1, MessageKinds
    <3>2. m.kind # "paid"
      BY <2>1 DEF CheckAccount, NewAccount
    <3>3. QED
      BY <3>1, <3>2
  <2>3. /\ UNCHANGED <<ledgerVars, invoiceVars, payment, writer, settled, credits, historyVars>>
        /\ hooks' \in [Invoices -> 0..MaxHooks]
    BY <1>2 DEF RefuseStranger, processorVars, TypeOK
  <2>4. QED
    BY <2>1, <2>2, <2>3, SendingKeeps
<1>3. CASE AdmitFree(a) \/ AdmitPaid(a)
  <2>1. /\ writer' = [at |-> "write", author |-> a]
        /\ UNCHANGED <<ledgerVars, invoiceVars, messages, payment, processorVars, credits,
                       historyVars, failed>>
    BY <1>3 DEF AdmitFree, AdmitPaid
  <2>2. TypeOK'
    BY <2>1 DEF TypeOK, ledgerVars, invoiceVars, processorVars, historyVars
  <2>3. LinkInv'
    BY <2>1 DEF LinkInv, ledgerVars, invoiceVars, processorVars, historyVars
  <2>4. QED
    BY <2>2, <2>3
<1>4. QED
  BY <1>1, <1>2, <1>3

\* The writer with an event.
LEMMA WriterStep ==
  ASSUME TypeOK, LinkInv, DropEvent \/ PublishEvent \/ ChargeEvent \/ ChargeFails
  PROVE  TypeOK' /\ LinkInv'
<1>1. writer.author \in Authors
  BY DEF LinkInv, DropEvent, PublishEvent, ChargeEvent, ChargeFails
<1>2. UNCHANGED <<accounts, admitted, invoiceVars, messages, payment, processorVars, credits>>
  BY DEF DropEvent, PublishEvent, ChargeEvent, ChargeFails, ledgerVars
<1>3. /\ writer' \in [at : {"idle", "write", "charge", "dead"},
                      author : Authors \cup {NoAuthor}]
      /\ writer'.at \in {"write", "charge"} => writer'.author \in Authors
  <2>1. CASE DropEvent \/ ChargeEvent \/ ChargeFails
    BY <2>1 DEF DropEvent, ChargeEvent, ChargeFails, WriterIdle
  <2>2. CASE PublishEvent
    <3>1. writer' \in {[writer EXCEPT !.at = "charge"], WriterIdle}
      BY <2>2 DEF PublishEvent
    <3>2. [writer EXCEPT !.at = "charge"] = [at |-> "charge", author |-> writer.author]
      BY DEF TypeOK
    <3>3. QED
      BY <1>1, <3>1, <3>2 DEF WriterIdle
  <2>3. QED
    BY <2>1, <2>2
<1>4. published' \in [Authors -> 0..MaxEvents]
  <2>1. CASE PublishEvent
    <3>1. published[writer.author] + 1 \in 0..MaxEvents
      BY <1>1, <2>1, AdmissionAssumption DEF PublishEvent, TypeOK, AdmissionAssumption
    <3>2. QED
      BY <1>1, <2>1, <3>1 DEF PublishEvent, TypeOK
  <2>2. CASE DropEvent \/ ChargeEvent \/ ChargeFails
    BY <2>2 DEF DropEvent, ChargeEvent, ChargeFails, TypeOK, historyVars
  <2>3. QED
    BY <2>1, <2>2
<1>5. balance' \in [Authors -> Int] /\ waived' \in [Authors -> Nat]
  <2>1. CASE ChargeEvent
    <3>1. balance[writer.author] - CostPerEvent \in Int
      BY <1>1, AdmissionAssumption DEF TypeOK, AdmissionAssumption
    <3>2. QED
      BY <1>1, <2>1, <3>1 DEF ChargeEvent, TypeOK, historyVars
  <2>2. CASE ChargeFails
    <3>1. waived[writer.author] + 1 \in Nat
      BY <1>1 DEF TypeOK
    <3>2. QED
      BY <1>1, <2>2, <3>1 DEF ChargeFails, TypeOK, ledgerVars
  <2>3. CASE DropEvent \/ PublishEvent
    BY <2>3 DEF DropEvent, PublishEvent, TypeOK, historyVars, ledgerVars
  <2>4. QED
    BY <2>1, <2>2, <2>3
<1>6. failed' \in BOOLEAN
  BY DEF DropEvent, PublishEvent, ChargeEvent, ChargeFails, TypeOK
<1>7. TypeOK'
  BY <1>2, <1>3, <1>4, <1>5, <1>6 DEF TypeOK, invoiceVars, processorVars
<1>8. LinkInv'
  BY <1>2, <1>3 DEF LinkInv, invoiceVars, processorVars
<1>9. QED
  BY <1>7, <1>8

\* The payment task and one message.
LEMMA ReceiveStep ==
  ASSUME TypeOK, LinkInv, Receive
  PROVE  TypeOK' /\ LinkInv'
<1> DEFINE m == Head(messages)
<1>1. /\ m \in Messages
      /\ m.kind = "paid" => m.invoice \in settled
      /\ messages \in Seq(Messages) /\ messages # <<>>
  BY DEF Receive, TypeOK, LinkInv
<1>2. /\ messages' \in Seq(Messages) /\ Len(messages') <= Capacity
      /\ \A k \in 1..Len(messages') :
           messages'[k].kind = "paid" => messages'[k].invoice \in settled
  <2>1. messages' = Tail(messages)
    BY DEF Receive
  <2>2. /\ Tail(messages) \in Seq(Messages) /\ Len(Tail(messages)) = Len(messages) - 1
        /\ \A k \in 1..Len(Tail(messages)) : Tail(messages)[k] = messages[k + 1]
    BY <1>1
  <2>3. Len(messages) \in Nat /\ Len(messages) <= Capacity
    BY <1>1 DEF TypeOK
  <2>4. \A k \in 1..Len(Tail(messages)) : k + 1 \in 1..Len(messages)
    BY <2>2, <2>3
  <2>5. \A k \in 1..Len(Tail(messages)) :
          Tail(messages)[k].kind = "paid" => Tail(messages)[k].invoice \in settled
    BY <2>2, <2>4 DEF LinkInv
  <2>6. messages' \in Seq(Messages) /\ Len(messages') <= Capacity
    BY <2>1, <2>2, <2>3, AdmissionAssumption DEF AdmissionAssumption
  <2>7. QED
    BY <2>1, <2>5, <2>6
<1>3. /\ UNCHANGED <<ledgerVars, invoiceVars, writer, processorVars, credits, historyVars>>
      /\ failed' \in BOOLEAN
  BY DEF Receive, TypeOK
<1>4. (\E a \in Authors : payment' = Bill(a)) \/ (\E i \in 1..issued : payment' = AskAbout(i))
  <2>1. CASE m.kind = "paid"
    <3>1. m.invoice \in 1..issued /\ payment' = AskAbout(m.invoice)
      BY <1>1, <2>1 DEF Receive, LinkInv
    <3>2. QED
      BY <3>1
  <2>2. CASE m.kind # "paid"
    <3>1. m.author \in Authors
      BY <1>1, <2>2 DEF Messages
    <3>2. CASE m.kind = "check" /\ Unpaid(m.author) # {}
      <4>1. \/ \E i \in OpenInvoice(m.author) : payment' = AskAbout(i)
            \/ payment' = Bill(m.author)
        BY <3>2 DEF Receive
      <4>2. OpenInvoice(m.author) \subseteq 1..issued
        BY <3>1 DEF OpenInvoice, Unpaid, LinkInv, Invoices
      <4>3. QED
        BY <3>1, <4>1, <4>2
    <3>3. CASE m.kind = "new" \/ Unpaid(m.author) = {}
      <4>1. payment' = Bill(m.author)
        BY <2>2, <3>3 DEF Receive, OpenInvoice
      <4>2. QED
        BY <3>1, <4>1
    <3>4. QED
      BY <1>1, <2>2, <3>2, <3>3 DEF Messages
  <2>3. QED
    BY <2>1, <2>2
<1>5. /\ payment' \in [at : {"idle", "bill", "issue", "ask", "admit"},
                       author : Authors \cup {NoAuthor}, invoice : 0..MaxInvoices]
      /\ payment'.author \in Authors /\ payment'.at \in {"bill", "ask"}
      /\ payment'.at = "ask" => /\ payment'.invoice \in 1..issued
                                /\ payment'.author = owner[payment'.invoice]
  <2>1. CASE \E a \in Authors : payment' = Bill(a)
    BY <2>1, AdmissionAssumption DEF Bill, AdmissionAssumption
  <2>2. CASE \E i \in 1..issued : payment' = AskAbout(i)
    <3>1. PICK i \in 1..issued : payment' = AskAbout(i)
      BY <2>2
    <3>2. i \in Invoices /\ owner[i] \in Authors
      BY <3>1, AdmissionAssumption DEF TypeOK, LinkInv, Invoices, AdmissionAssumption
    <3>3. QED
      <4>1. payment' = [at |-> "ask", author |-> owner[i], invoice |-> i]
        BY <3>1 DEF AskAbout
      <4>2. i \in 0..MaxInvoices
        BY <3>2, AdmissionAssumption DEF Invoices, AdmissionAssumption
      <4>3. QED
        BY <3>1, <3>2, <4>1, <4>2
  <2>3. QED
    BY <1>4, <2>1, <2>2
<1>6. TypeOK'
  BY <1>2, <1>3, <1>5 DEF TypeOK, ledgerVars, invoiceVars, processorVars, historyVars
<1>7. LinkInv'
  BY <1>2, <1>3, <1>5 DEF LinkInv, ledgerVars, invoiceVars, processorVars, historyVars
<1>8. QED
  BY <1>6, <1>7

\* The payment task at work.
LEMMA BillingStep ==
  ASSUME TypeOK, LinkInv, OpenAccount \/ PaymentFails \/ AdmitAccount
  PROVE  TypeOK' /\ LinkInv'
<1>1. UNCHANGED <<invoiceVars, messages, writer, processorVars, credits, historyVars>>
  BY DEF OpenAccount, PaymentFails, AdmitAccount
<1>2. payment' = PaymentIdle \/ payment' = [payment EXCEPT !.at = "issue"]
  BY Zenon DEF OpenAccount, PaymentFails, AdmitAccount
<1>3. payment.author \in Authors
  <2>1. payment.at # "idle"
    BY DEF OpenAccount, PaymentFails, AdmitAccount, LinkInv
  <2>2. QED
    BY <2>1 DEF LinkInv
<1>4. /\ payment' \in [at : {"idle", "bill", "issue", "ask", "admit"},
                       author : Authors \cup {NoAuthor}, invoice : 0..MaxInvoices]
      /\ payment'.at # "idle" => payment'.author \in Authors
      /\ payment'.at = "idle" => payment' = PaymentIdle
      /\ payment'.at \notin {"ask", "admit"}
  <2>1. CASE payment' = PaymentIdle
    BY <2>1, AdmissionAssumption DEF PaymentIdle, AdmissionAssumption
  <2>2. CASE payment' = [payment EXCEPT !.at = "issue"]
    <3>1. payment' = [at |-> "issue", author |-> payment.author, invoice |-> payment.invoice]
      BY <2>2 DEF TypeOK
    <3>2. payment.invoice \in 0..MaxInvoices
      BY DEF TypeOK
    <3>3. QED
      BY <1>3, <3>1, <3>2
  <2>3. QED
    BY <1>2, <2>1, <2>2
<1>5. /\ admitted' \subseteq accounts' /\ accounts' \subseteq Authors
      /\ balance' \in [Authors -> Int] /\ failed' \in BOOLEAN
  <2>1. CASE OpenAccount \/ PaymentFails
    BY <1>3, <2>1 DEF OpenAccount, PaymentFails, TypeOK, ledgerVars
  <2>2. CASE AdmitAccount
    <3>1. balance[payment.author] - AdmissionCost \in Int
      BY <1>3, AdmissionAssumption DEF TypeOK, AdmissionAssumption
    <3>2. balance' \in [Authors -> Int]
      BY <1>3, <2>2, <3>1 DEF AdmitAccount, TypeOK
    <3>3. payment.author \in accounts
      BY <1>3, <2>2, AdmissionAssumption DEF AdmitAccount, LinkInv, TypeOK, Invoices,
         AdmissionAssumption
    <3>4. QED
      BY <2>2, <3>2, <3>3 DEF AdmitAccount, TypeOK
  <2>3. QED
    BY <2>1, <2>2
<1>6. TypeOK'
  BY <1>1, <1>4, <1>5 DEF TypeOK, invoiceVars, processorVars, historyVars
<1>7. LinkInv'
  <2>1. /\ accounts \subseteq accounts'
        /\ payment'.at = "issue" => payment'.author \in accounts'
    <3>1. CASE OpenAccount
      <4>1. payment' = PaymentIdle \/ payment'.author = payment.author
        BY <1>2 DEF TypeOK
      <4>2. QED
        BY <3>1, <4>1 DEF OpenAccount, PaymentIdle
    <3>2. CASE PaymentFails \/ AdmitAccount
      BY <3>2 DEF PaymentFails, AdmitAccount, ledgerVars, PaymentIdle
    <3>3. QED
      BY <3>1, <3>2
  <2>2. QED
    BY <1>1, <1>4, <2>1 DEF LinkInv, invoiceVars, processorVars, historyVars
<1>8. QED
  BY <1>6, <1>7

LEMMA IssueStep ==
  ASSUME TypeOK, LinkInv, IssueInvoice
  PROVE  TypeOK' /\ LinkInv'
<1> DEFINE n == issued + 1
<1>1. UNCHANGED <<ledgerVars, messages, writer, processorVars, credits, historyVars, failed>>
  BY DEF IssueInvoice
<1>2. n \in Invoices /\ issued' = n /\ issued' \in 0..MaxInvoices
  BY AdmissionAssumption DEF IssueInvoice, TypeOK, Invoices, AdmissionAssumption
<1>3. payment.author \in Authors /\ payment.author \in accounts
  BY DEF IssueInvoice, LinkInv
<1>4. owner' = [owner EXCEPT ![n] = payment.author] /\ status' = [status EXCEPT ![n] = "Unpaid"]
  BY DEF IssueInvoice
<1>5. payment' = PaymentIdle
  BY DEF IssueInvoice
<1>6. TypeOK'
  <2>1. /\ owner' \in [Invoices -> Authors \cup {NoAuthor}]
        /\ status' \in [Invoices -> Statuses]
    BY <1>2, <1>3, <1>4 DEF TypeOK, Statuses
  <2>2. payment' \in [at : {"idle", "bill", "issue", "ask", "admit"},
                      author : Authors \cup {NoAuthor}, invoice : 0..MaxInvoices]
    BY <1>5, AdmissionAssumption DEF PaymentIdle, AdmissionAssumption
  <2>3. QED
    BY <1>1, <1>2, <2>1, <2>2 DEF TypeOK, ledgerVars, processorVars, historyVars
<1>7. LinkInv'
  <2>1. \A i \in Invoices : i <= issued' <=> owner'[i] \in Authors
    <3> SUFFICES ASSUME NEW i \in Invoices PROVE i <= issued' <=> owner'[i] \in Authors
      OBVIOUS
    <3>1. CASE i = n
      BY <1>2, <1>3, <1>4, <3>1 DEF TypeOK, Invoices
    <3>2. CASE i # n
      <4>1. owner'[i] = owner[i] /\ (i <= issued' <=> i <= issued)
        BY <1>2, <1>4, <3>2 DEF TypeOK, Invoices
      <4>2. QED
        BY <4>1 DEF LinkInv
    <3>3. QED
      BY <3>1, <3>2
  <2>2. \A i \in Invoices : owner'[i] \in Authors => owner'[i] \in accounts'
    BY <1>1, <1>3, <1>4 DEF TypeOK, LinkInv, ledgerVars
  <2>3. settled' \subseteq 1..issued'
    BY <1>1, <1>2 DEF TypeOK, LinkInv, processorVars
  <2>4. QED
    BY <1>1, <1>5, <2>1, <2>2, <2>3 DEF LinkInv, PaymentIdle, processorVars
<1>8. QED
  BY <1>6, <1>7

LEMMA CheckStep ==
  ASSUME TypeOK, LinkInv, NEW answer \in {"Unpaid", "Paid", "Expired"}, CheckInvoice(answer)
  PROVE  TypeOK' /\ LinkInv'
<1> DEFINE i == payment.invoice
<1>1. UNCHANGED <<accounts, admitted, issued, owner, messages, writer, processorVars, historyVars>>
  BY DEF CheckInvoice
<1>2. i \in Invoices /\ i \in 1..issued /\ owner[i] \in Authors /\ payment.author = owner[i]
  BY AdmissionAssumption DEF CheckInvoice, TypeOK, LinkInv, Invoices, AdmissionAssumption
<1>3. status' \in [Invoices -> Statuses] /\ failed' \in BOOLEAN
  BY <1>2 DEF CheckInvoice, TypeOK, Statuses
<1>4. balance' \in [Authors -> Int]
  <2>1. balance[owner[i]] + AdmissionCost \in Int
    BY <1>2, AdmissionAssumption DEF TypeOK, AdmissionAssumption
  <2>2. QED
    BY <1>2, <2>1 DEF CheckInvoice, TypeOK
<1>5. credits' \in [Invoices -> Nat]
  <2>1. credits[i] + 1 \in Nat
    BY <1>2 DEF TypeOK
  <2>2. QED
    BY <1>2, <2>1 DEF CheckInvoice, TypeOK
<1>6. /\ payment' \in [at : {"idle", "bill", "issue", "ask", "admit"},
                       author : Authors \cup {NoAuthor}, invoice : 0..MaxInvoices]
      /\ \/ payment' = PaymentIdle
         \/ /\ payment' = [at |-> "admit", author |-> owner[i], invoice |-> i]
            /\ i \in settled
  <2>1. CASE payment' = PaymentIdle
    BY <2>1, PaymentIdleTyped
  <2>2. CASE payment' # PaymentIdle
    <3>1. payment' = [payment EXCEPT !.at = "admit"] /\ answer = "Paid"
      BY <2>2 DEF CheckInvoice, Admits
    <3>2. payment' = [at |-> "admit", author |-> owner[i], invoice |-> i]
      BY <1>2, <3>1 DEF TypeOK
    <3>3. i \in settled
      BY <3>1 DEF CheckInvoice, Answers
    <3>4. payment.invoice \in 0..MaxInvoices
      BY DEF TypeOK
    <3>5. QED
      BY <1>2, <3>2, <3>3, <3>4
  <2>3. QED
    BY <2>1, <2>2
<1>7. TypeOK'
  BY <1>1, <1>3, <1>4, <1>5, <1>6 DEF TypeOK, processorVars, historyVars
<1>8. LinkInv'
  BY <1>1, <1>2, <1>6 DEF LinkInv, PaymentIdle, processorVars
<1>9. QED
  BY <1>7, <1>8

\* Authors who pay, the processor, and a restart.
LEMMA OutsideStep ==
  ASSUME TypeOK, LinkInv,
         (\E i \in Invoices : Settle(i) \/ Webhook(i) \/ WebhookLost(i)) \/ Restart
  PROVE  TypeOK' /\ LinkInv'
<1>1. ASSUME NEW i \in Invoices, Settle(i) PROVE TypeOK' /\ LinkInv'
  <2>1. i \in 1..issued /\ settled' = settled \cup {i}
    BY <1>1 DEF Settle, TypeOK, Invoices
  <2>2. UNCHANGED <<ledgerVars, invoiceVars, messages, payment, writer, hooks, credits,
                    historyVars, failed>>
    BY <1>1 DEF Settle
  <2>3. TypeOK'
    BY <2>1, <2>2 DEF TypeOK, ledgerVars, invoiceVars, historyVars
  <2>4. LinkInv'
    BY <2>1, <2>2 DEF LinkInv, ledgerVars, invoiceVars
  <2>5. QED
    BY <2>3, <2>4
<1>2. ASSUME NEW i \in Invoices, i \in settled, hooks[i] < MaxHooks
      PROVE  [hooks EXCEPT ![i] = @ + 1] \in [Invoices -> 0..MaxHooks]
  <2>1. hooks[i] + 1 \in 0..MaxHooks
    BY <1>2, AdmissionAssumption DEF TypeOK, AdmissionAssumption
  <2>2. QED
    BY <1>2, <2>1 DEF TypeOK
<1>3. ASSUME NEW i \in Invoices, Webhook(i) PROVE TypeOK' /\ LinkInv'
  <2>1. InvoicePaid(i) \in Messages /\ Send(InvoicePaid(i))
    BY <1>3, MessageKinds DEF Webhook
  <2>2. InvoicePaid(i).invoice \in settled
    BY <1>3 DEF Webhook, InvoicePaid
  <2>3. /\ UNCHANGED <<ledgerVars, invoiceVars, payment, writer, settled, credits, historyVars>>
        /\ hooks' \in [Invoices -> 0..MaxHooks]
    BY <1>2, <1>3 DEF Webhook
  <2>4. QED
    BY <2>1, <2>2, <2>3, SendingKeeps
<1>4. ASSUME NEW i \in Invoices, WebhookLost(i) PROVE TypeOK' /\ LinkInv'
  <2>1. /\ UNCHANGED <<ledgerVars, invoiceVars, messages, payment, writer, settled, credits,
                       historyVars>>
        /\ hooks' \in [Invoices -> 0..MaxHooks] /\ failed' = TRUE
    BY <1>2, <1>4 DEF WebhookLost
  <2>2. TypeOK'
    BY <2>1 DEF TypeOK, ledgerVars, invoiceVars, historyVars
  <2>3. LinkInv'
    BY <2>1 DEF LinkInv, ledgerVars, invoiceVars
  <2>4. QED
    BY <2>2, <2>3
<1>5. CASE Restart
  <2>1. /\ messages' = <<>> /\ payment' = PaymentIdle /\ writer' = WriterIdle /\ failed' = TRUE
        /\ UNCHANGED <<ledgerVars, invoiceVars, processorVars, credits, published>>
    BY <1>5 DEF Restart
  <2>2. waived' \in [Authors -> Nat]
    <3>1. CASE writer.at = "charge"
      <4>1. writer.author \in Authors /\ waived[writer.author] + 1 \in Nat
        BY <3>1 DEF LinkInv, TypeOK
      <4>2. QED
        BY <1>5, <3>1, <4>1 DEF Restart, TypeOK
    <3>2. CASE writer.at # "charge"
      BY <1>5, <3>2 DEF Restart, TypeOK
    <3>3. QED
      BY <3>1, <3>2
  <2>3. messages' \in Seq(Messages) /\ Len(messages') <= Capacity
    BY <2>1, AdmissionAssumption DEF AdmissionAssumption
  <2>4. /\ payment' \in [at : {"idle", "bill", "issue", "ask", "admit"},
                         author : Authors \cup {NoAuthor}, invoice : 0..MaxInvoices]
        /\ writer' \in [at : {"idle", "write", "charge", "dead"},
                        author : Authors \cup {NoAuthor}]
    BY <2>1, AdmissionAssumption DEF PaymentIdle, WriterIdle, AdmissionAssumption
  <2>5. TypeOK'
    BY <2>1, <2>2, <2>3, <2>4 DEF TypeOK, ledgerVars, invoiceVars, processorVars
  <2>6. LinkInv'
    BY <2>1 DEF LinkInv, PaymentIdle, WriterIdle, ledgerVars, invoiceVars, processorVars
  <2>7. QED
    BY <2>5, <2>6
<1>6. QED
  BY <1>1, <1>3, <1>4, <1>5

LEMMA ShapeNext ==
  ASSUME TypeOK, LinkInv, [Next]_vars
  PROVE  TypeOK' /\ LinkInv'
<1>1. CASE \E a \in Authors : VisitPage(a) \/ AdmitFree(a) \/ AdmitPaid(a) \/ RefuseStranger(a)
  BY <1>1, AuthorStep
<1>2. CASE DropEvent \/ PublishEvent \/ ChargeEvent \/ ChargeFails
  BY <1>2, WriterStep
<1>3. CASE PaymentStep
  BY <1>3, ReceiveStep, BillingStep, IssueStep, CheckStep DEF PaymentStep
<1>4. CASE (\E i \in Invoices : Settle(i) \/ Webhook(i) \/ WebhookLost(i)) \/ Restart
  BY <1>4, OutsideStep
<1>5. CASE UNCHANGED vars
  <2>1. TypeOK'
    BY <1>5 DEF vars, TypeOK
  <2>2. LinkInv'
    BY <1>5 DEF vars, LinkInv
  <2>3. QED
    BY <2>1, <2>2
<1>6. QED
  BY <1>1, <1>2, <1>3, <1>4, <1>5 DEF Next

-----------------------------------------------------------------------------
(* Money                                                                    *)

LEMMA Numbers ==
  ASSUME TypeOK, NEW a \in Authors
  PROVE  /\ Used(a) \in Int /\ Due(a) \in {0, 1} /\ Fee(a) \in Nat /\ balance[a] \in Int
         /\ AdmissionCost \in Nat /\ CostPerEvent \in Nat
         /\ Cardinality(PaidOf(a)) \in Nat /\ Cardinality(CreditedOf(a)) \in Nat
         /\ PaidOf(a) \in SUBSET Invoices /\ CreditedOf(a) \in SUBSET Invoices
<1>1. PaidOf(a) \in SUBSET Invoices /\ CreditedOf(a) \in SUBSET Invoices
  BY DEF PaidOf, CreditedOf, TypeOK
<1>2. Used(a) \in Int /\ balance[a] \in Int
  BY DEF Used, TypeOK
<1>3. Due(a) \in {0, 1} /\ Fee(a) \in Nat /\ AdmissionCost \in Nat /\ CostPerEvent \in Nat
  BY AdmissionAssumption DEF Due, Fee, AdmissionAssumption
<1>4. QED
  BY <1>1, <1>2, <1>3, Sizes

\* Only paid invoices are credited.
LEMMA CreditedArePaid ==
  ASSUME TypeOK, CreditInv, NEW a \in Authors
  PROVE  /\ Cardinality(CreditedOf(a)) <= Cardinality(PaidOf(a))
         /\ AdmissionCost * Cardinality(CreditedOf(a)) <= AdmissionCost * Cardinality(PaidOf(a))
<1>1. CreditedOf(a) \subseteq PaidOf(a)
  BY DEF CreditedOf, PaidOf, CreditInv
<1>2. Cardinality(CreditedOf(a)) <= Cardinality(PaidOf(a))
  BY <1>1, Numbers, Sizes
<1>3. QED
  BY <1>2, Numbers, Price

\* Steps that move no money, and in which the writer takes no paid event.
LEMMA NoMoneyMoves ==
  ASSUME TypeOK, CreditInv, MoneyInv,
         UNCHANGED <<admitted, balance, owner, status, credits, settled, published, waived>>,
         \/ writer' = writer
         \/ /\ writer.at # "charge" /\ writer'.at # "charge"
            /\ writer'.at = "write" => writer'.author \in Whitelist
  PROVE  CreditInv' /\ MoneyInv'
<1>1. CreditInv'
  BY DEF CreditInv
<1>2. ASSUME NEW a \in Authors \ Whitelist
      PROVE  BalanceInv(a)' /\ ServedInv(a)' /\ TakenInv(a)'
  <2>1. BalanceInv(a) /\ ServedInv(a) /\ TakenInv(a)
    BY <1>2 DEF MoneyInv
  <2>2. Used(a)' = Used(a) /\ Fee(a)' = Fee(a)
    BY DEF Used, Fee
  <2>3. PaidOf(a)' = PaidOf(a) /\ CreditedOf(a)' = CreditedOf(a)
    BY DEF PaidOf, CreditedOf
  <2>4. Due(a)' = Due(a)
    BY DEF Due
  <2>5. BalanceInv(a)'
    BY <2>1, <2>2, <2>3, <2>4 DEF BalanceInv
  <2>6. ServedInv(a)'
    BY <2>1, <2>2, <2>3 DEF ServedInv
  <2>7. TakenInv(a)'
    BY <1>2, <2>1, <2>2, <2>3 DEF TakenInv
  <2>8. QED
    BY <2>5, <2>6, <2>7
<1>3. QED
  BY <1>1, <1>2 DEF MoneyInv

\* The writer takes an event: the balance it has read pays for it.
LEMMA AdmitPaidKeeps ==
  ASSUME IInv, NEW b \in Authors, AdmitPaid(b)
  PROVE  CreditInv' /\ MoneyInv'
<1> USE DEF IInv
<1>1. /\ writer = WriterIdle /\ writer' = [at |-> "write", author |-> b]
      /\ b \in Authors \ Whitelist /\ b \in admitted /\ balance[b] >= CostPerEvent
  BY DEF AdmitPaid, MayPublish
<1>2. UNCHANGED <<admitted, balance, owner, status, credits, settled, published, waived>>
  BY DEF AdmitPaid, ledgerVars, invoiceVars, processorVars, historyVars
<1>3. CreditInv'
  BY <1>2 DEF CreditInv
<1>4. ASSUME NEW a \in Authors \ Whitelist
      PROVE  BalanceInv(a)' /\ ServedInv(a)' /\ TakenInv(a)'
  <2>1. BalanceInv(a) /\ ServedInv(a)
    BY <1>4 DEF MoneyInv
  <2>2. Used(a)' = Used(a) /\ Fee(a)' = Fee(a)
    BY <1>2 DEF Used, Fee
  <2>3. PaidOf(a)' = PaidOf(a) /\ CreditedOf(a)' = CreditedOf(a)
    BY <1>2 DEF PaidOf, CreditedOf
  <2>4. Due(a)' = 0 /\ Due(a) = 0
    BY <1>1 DEF Due, WriterIdle
  <2>5. BalanceInv(a)' /\ ServedInv(a)'
    BY <1>2, <2>1, <2>2, <2>3, <2>4 DEF BalanceInv, ServedInv
  <2>6. TakenInv(a)'
    <3>1. CASE a = b
      <4>1. balance[a] + CostPerEvent * Used(a) + AdmissionCost
              <= AdmissionCost * Cardinality(CreditedOf(a))
        BY <1>1, <2>1, <2>4, <3>1, Numbers DEF BalanceInv, Fee
      <4>2. CostPerEvent * (Used(a) + 1) = CostPerEvent * Used(a) + CostPerEvent
        BY Numbers, Price
      <4>3. /\ CostPerEvent * Used(a) \in Int
            /\ AdmissionCost * Cardinality(CreditedOf(a)) \in Int
            /\ AdmissionCost * Cardinality(PaidOf(a)) \in Int
        BY Numbers, Price
      <4>4. AdmissionCost + CostPerEvent * (Used(a) + 1)
              <= AdmissionCost * Cardinality(PaidOf(a))
        BY <1>1, <3>1, <4>1, <4>2, <4>3, Numbers, CreditedArePaid
      <4>5. QED
        BY <1>1, <1>2, <2>2, <2>3, <3>1, <4>4 DEF TakenInv
    <3>2. CASE a # b
      BY <1>1, <3>2 DEF TakenInv
    <3>3. QED
      BY <3>1, <3>2
  <2>7. QED
    BY <2>5, <2>6
<1>5. QED
  BY <1>3, <1>4 DEF MoneyInv

\* An event is published: it was paid when the writer took it.
LEMMA PublishKeeps ==
  ASSUME IInv, PublishEvent
  PROVE  CreditInv' /\ MoneyInv'
<1> USE DEF IInv
<1> DEFINE b == writer.author
<1>1. /\ UNCHANGED <<admitted, balance, owner, status, credits, settled, waived>>
      /\ writer.at = "write" /\ b \in Authors /\ writer = [at |-> "write", author |-> b]
  BY DEF PublishEvent, ledgerVars, invoiceVars, processorVars, LinkInv, TypeOK
<1>2. CreditInv'
  BY <1>1 DEF CreditInv
<1>3. ASSUME NEW a \in Authors \ Whitelist
      PROVE  BalanceInv(a)' /\ ServedInv(a)' /\ TakenInv(a)'
  <2>1. BalanceInv(a) /\ ServedInv(a) /\ TakenInv(a)
    BY <1>3 DEF MoneyInv
  <2>2. Fee(a)' = Fee(a) /\ PaidOf(a)' = PaidOf(a) /\ CreditedOf(a)' = CreditedOf(a)
    BY <1>1 DEF Fee, PaidOf, CreditedOf
  <2>3. Due(a) = 0
    BY <1>1 DEF Due
  <2>4. TakenInv(a)'
    BY <1>1 DEF PublishEvent, TakenInv, WriterIdle
  <2>5. CASE a = b
    <3>1. Used(a)' = Used(a) + 1
      BY <1>1, <1>3, <2>5 DEF PublishEvent, Used, TypeOK
    <3>2. a \in admitted
          /\ AdmissionCost + CostPerEvent * (Used(a) + 1) <= AdmissionCost * Cardinality(PaidOf(a))
      BY <1>1, <2>1, <2>5 DEF TakenInv
    <3>3. ServedInv(a)'
      BY <1>1, <2>2, <3>1, <3>2 DEF ServedInv
    <3>4. CASE CostPerEvent > 0
      <4>1. writer' = [at |-> "charge", author |-> a]
        BY <1>1, <1>3, <2>5, <3>4 DEF PublishEvent
      <4>2. Due(a)' = 1
        BY <4>1 DEF Due
      <4>3. Used(a)' - Due(a)' = Used(a) - Due(a)
        BY <2>3, <3>1, <4>2, Numbers
      <4>4. BalanceInv(a)'
        BY <1>1, <2>1, <2>2, <4>3 DEF BalanceInv
      <4>5. QED
        BY <2>4, <3>3, <4>4
    <3>5. CASE CostPerEvent = 0
      <4>1. writer' = WriterIdle
        BY <3>5 DEF PublishEvent
      <4>2. Due(a)' = 0
        BY <4>1 DEF Due, WriterIdle
      <4>3. /\ CostPerEvent * (Used(a)' - Due(a)') = 0
            /\ CostPerEvent * (Used(a) - Due(a)) = 0
        BY <2>3, <3>1, <3>5, <4>2, Numbers
      <4>4. BalanceInv(a)'
        BY <1>1, <2>1, <2>2, <4>3 DEF BalanceInv
      <4>5. QED
        BY <2>4, <3>3, <4>4
    <3>6. QED
      BY <3>4, <3>5, Numbers
  <2>6. CASE a # b
    <3>1. published'[a] = published[a] /\ Used(a)' = Used(a)
      BY <1>1, <1>3, <2>6 DEF PublishEvent, Used, TypeOK
    <3>2. Due(a)' = 0
      BY <1>1, <2>6 DEF PublishEvent, Due, WriterIdle
    <3>3. BalanceInv(a)'
      BY <1>1, <2>1, <2>2, <2>3, <3>1, <3>2 DEF BalanceInv
    <3>4. ServedInv(a)'
      BY <1>1, <2>1, <2>2, <3>1 DEF ServedInv
    <3>5. QED
      BY <2>4, <3>3, <3>4
  <2>7. QED
    BY <2>5, <2>6
<1>4. QED
  BY <1>2, <1>3 DEF MoneyInv

\* The charge that was due is made, or lost with the writer or the relay.
LEMMA ChargeKeeps ==
  ASSUME IInv,
         \/ ChargeEvent
         \/ ChargeFails
         \/ Restart /\ writer.at = "charge"
  PROVE  CreditInv' /\ MoneyInv'
<1> USE DEF IInv
<1> DEFINE b == writer.author
<1>1. /\ UNCHANGED <<admitted, owner, status, credits, settled, published>>
      /\ b \in Authors /\ writer = [at |-> "charge", author |-> b]
      /\ writer'.at \notin {"write", "charge"}
  BY DEF ChargeEvent, ChargeFails, Restart, ledgerVars, invoiceVars, processorVars, historyVars,
     LinkInv, TypeOK, WriterIdle
<1>2. CreditInv'
  BY <1>1 DEF CreditInv
<1>3. ASSUME NEW a \in Authors \ Whitelist
      PROVE  BalanceInv(a)' /\ ServedInv(a)' /\ TakenInv(a)'
  <2>1. BalanceInv(a) /\ ServedInv(a)
    BY <1>3 DEF MoneyInv
  <2>2. Fee(a)' = Fee(a) /\ PaidOf(a)' = PaidOf(a) /\ CreditedOf(a)' = CreditedOf(a)
    BY <1>1 DEF Fee, PaidOf, CreditedOf
  <2>3. TakenInv(a)' /\ Due(a)' = 0
    BY <1>1 DEF TakenInv, Due
  <2>4. CostPerEvent * (Used(a) - 1 + 1) = CostPerEvent * (Used(a) - 1) + CostPerEvent
    BY Numbers, Price
  <2>5. CostPerEvent * (Used(a) - 1) \in Int /\ CostPerEvent * Used(a) \in Int
        /\ AdmissionCost * Cardinality(CreditedOf(a)) \in Int
        /\ AdmissionCost * Cardinality(PaidOf(a)) \in Int
    BY Numbers, Price
  <2>6. CASE a = b
    <3>1. Due(a) = 1
      BY <1>1, <2>6 DEF Due
    <3>2. balance[a] + CostPerEvent * (Used(a) - 1) + Fee(a)
            <= AdmissionCost * Cardinality(CreditedOf(a))
      BY <2>1, <3>1 DEF BalanceInv
    <3>3. CASE ChargeEvent
      <4>1. balance'[a] = balance[a] - CostPerEvent /\ Used(a)' = Used(a)
        BY <1>3, <2>6, <3>3 DEF ChargeEvent, TypeOK, Used, historyVars
      <4>2. Used(a) - 1 + 1 = Used(a) /\ Used(a) - 0 = Used(a)
        BY Numbers
      <4>3. balance'[a] + CostPerEvent * Used(a) + Fee(a)
              <= AdmissionCost * Cardinality(CreditedOf(a))
        BY <2>4, <2>5, <3>2, <4>1, <4>2, Numbers
      <4>4. BalanceInv(a)'
        BY <2>2, <2>3, <4>1, <4>2, <4>3 DEF BalanceInv
      <4>5. ServedInv(a)'
        BY <1>1, <2>1, <2>2, <4>1 DEF ServedInv
      <4>6. QED
        BY <2>3, <4>4, <4>5
    <3>4. CASE ChargeFails \/ Restart
      <4>1. waived'[a] = waived[a] + 1 /\ balance' = balance
        BY <1>1, <1>3, <2>6, <3>4 DEF ChargeFails, Restart, TypeOK, ledgerVars
      <4>2. Used(a)' = Used(a) - 1
        BY <1>1, <1>3, <4>1 DEF Used, TypeOK
      <4>3. Used(a)' - 0 = Used(a) - 1
        BY <4>2, Numbers
      <4>4. BalanceInv(a)'
        BY <2>2, <2>3, <3>2, <4>1, <4>3 DEF BalanceInv
      <4>5. CostPerEvent * Used(a)' <= CostPerEvent * Used(a)
        BY <4>2, Numbers, Price
      <4>6. ServedInv(a)'
        BY <1>1, <2>1, <2>2, <2>5, <4>2, <4>5, Numbers DEF ServedInv
      <4>7. QED
        BY <2>3, <4>4, <4>6
    <3>5. QED
      BY <3>3, <3>4
  <2>7. CASE a # b
    <3>1. balance'[a] = balance[a] /\ waived'[a] = waived[a]
      BY <1>1, <1>3, <2>7 DEF ChargeEvent, ChargeFails, Restart, TypeOK, ledgerVars, historyVars
    <3>2. Used(a)' = Used(a) /\ Due(a) = 0
      BY <1>1, <2>7, <3>1 DEF Used, Due
    <3>3. BalanceInv(a)'
      BY <2>1, <2>2, <2>3, <3>1, <3>2 DEF BalanceInv
    <3>4. ServedInv(a)'
      BY <1>1, <2>1, <2>2, <3>2 DEF ServedInv
    <3>5. QED
      BY <2>3, <3>3, <3>4
  <2>8. QED
    BY <2>6, <2>7
<1>4. QED
  BY <1>2, <1>3 DEF MoneyInv

\* A new invoice is neither paid nor credited.
LEMMA IssueKeeps ==
  ASSUME IInv, IssueInvoice
  PROVE  CreditInv' /\ MoneyInv'
<1> USE DEF IInv
<1> DEFINE n == issued + 1
<1>1. /\ UNCHANGED <<admitted, balance, credits, settled, published, waived, writer>>
      /\ owner' = [owner EXCEPT ![n] = payment.author]
      /\ status' = [status EXCEPT ![n] = "Unpaid"]
  BY DEF IssueInvoice, ledgerVars, processorVars, historyVars
<1>2. n \notin settled
  BY DEF LinkInv, TypeOK
<1>3. n \in Invoices => credits[n] = 0
  BY <1>2 DEF CreditInv, TypeOK
<1>4. CreditInv'
  BY <1>1, <1>3 DEF CreditInv, TypeOK
<1>5. ASSUME NEW a \in Authors \ Whitelist
      PROVE  BalanceInv(a)' /\ ServedInv(a)' /\ TakenInv(a)'
  <2>1. BalanceInv(a) /\ ServedInv(a) /\ TakenInv(a)
    BY <1>5 DEF MoneyInv
  <2>2. Used(a)' = Used(a) /\ Fee(a)' = Fee(a) /\ Due(a)' = Due(a)
    BY <1>1 DEF Used, Fee, Due
  <2>3. PaidOf(a)' = PaidOf(a)
    BY <1>1, <1>2 DEF PaidOf, TypeOK
  <2>4. CreditedOf(a)' = CreditedOf(a)
    BY <1>1, <1>3 DEF CreditedOf, TypeOK
  <2>5. BalanceInv(a)'
    BY <1>1, <2>1, <2>2, <2>4 DEF BalanceInv
  <2>6. ServedInv(a)' /\ TakenInv(a)'
    BY <1>1, <2>1, <2>2, <2>3 DEF ServedInv, TakenInv
  <2>7. QED
    BY <2>5, <2>6
<1>6. QED
  BY <1>4, <1>5 DEF MoneyInv

\* The processor's answer: the account is credited with what was paid, once.
LEMMA CheckKeeps ==
  ASSUME IInv, NEW answer \in {"Unpaid", "Paid", "Expired"}, CheckInvoice(answer)
  PROVE  CreditInv' /\ MoneyInv'
<1> USE DEF IInv
<1> DEFINE i == payment.invoice
<1>1. /\ UNCHANGED <<admitted, owner, settled, published, waived, writer>>
      /\ status' = [status EXCEPT ![i] = answer]
      /\ answer \in Answers(i)
  BY DEF CheckInvoice, processorVars, historyVars
<1>2. i \in Invoices /\ owner[i] \in Authors
  BY AdmissionAssumption DEF CheckInvoice, TypeOK, LinkInv, Invoices, AdmissionAssumption
<1>3. CASE Credits(i, answer)
  <2>1. /\ balance' = [balance EXCEPT ![owner[i]] = @ + AdmissionCost]
        /\ credits' = [credits EXCEPT ![i] = @ + 1]
    BY <1>3 DEF CheckInvoice
  <2>2. status[i] = "Unpaid" /\ answer = "Paid" /\ credits[i] = 0 /\ i \in settled
    BY <1>1, <1>2, <1>3 DEF Credits, CreditInv, Answers
  <2>3. CreditInv'
    BY <1>1, <1>2, <2>1, <2>2 DEF CreditInv, TypeOK
  <2>4. ASSUME NEW a \in Authors \ Whitelist
        PROVE  BalanceInv(a)' /\ ServedInv(a)' /\ TakenInv(a)'
    <3>1. BalanceInv(a) /\ ServedInv(a) /\ TakenInv(a)
      BY <2>4 DEF MoneyInv
    <3>2. /\ Used(a)' = Used(a) /\ Fee(a)' = Fee(a) /\ Due(a)' = Due(a)
          /\ PaidOf(a)' = PaidOf(a)
      BY <1>1 DEF Used, Fee, Due, PaidOf
    <3>3. ServedInv(a)' /\ TakenInv(a)'
      BY <1>1, <3>1, <3>2 DEF ServedInv, TakenInv
    <3>4. CASE a = owner[i]
      <4>1. CreditedOf(a)' = CreditedOf(a) \cup {i} /\ i \notin CreditedOf(a)
        BY <1>1, <1>2, <2>1, <2>2, <3>4 DEF CreditedOf, TypeOK
      <4>2. Cardinality(CreditedOf(a)') = Cardinality(CreditedOf(a)) + 1
        BY <4>1, Numbers, Sizes, FS_AddElement
      <4>3. AdmissionCost * (Cardinality(CreditedOf(a)) + 1)
              = AdmissionCost * Cardinality(CreditedOf(a)) + AdmissionCost
        BY Numbers, Price
      <4>4. balance'[a] = balance[a] + AdmissionCost
        BY <2>1, <3>4 DEF TypeOK
      <4>5. /\ CostPerEvent * (Used(a) - Due(a)) \in Int
            /\ AdmissionCost * Cardinality(CreditedOf(a)) \in Int
        BY Numbers, Price
      <4>6. balance'[a] + CostPerEvent * (Used(a) - Due(a)) + Fee(a)
              <= AdmissionCost * (Cardinality(CreditedOf(a)) + 1)
        BY <3>1, <4>3, <4>4, <4>5, Numbers DEF BalanceInv
      <4>7. BalanceInv(a)'
        BY <3>2, <4>2, <4>6 DEF BalanceInv
      <4>8. QED
        BY <3>3, <4>7
    <3>5. CASE a # owner[i]
      <4>1. CreditedOf(a)' = CreditedOf(a) /\ balance'[a] = balance[a]
        BY <1>1, <1>2, <2>1, <3>5 DEF CreditedOf, TypeOK
      <4>2. BalanceInv(a)'
        BY <3>1, <3>2, <4>1 DEF BalanceInv
      <4>3. QED
        BY <3>3, <4>2
    <3>6. QED
      BY <3>4, <3>5
  <2>5. QED
    BY <2>3, <2>4 DEF MoneyInv
<1>4. CASE ~Credits(i, answer)
  <2>1. balance' = balance /\ credits' = credits
    BY <1>4 DEF CheckInvoice
  <2>2. CreditInv'
    <3>1. credits[i] # 0 => answer \in {"Paid", "Expired"}
      BY <1>1, <1>2 DEF CreditInv, Answers
    <3>2. QED
      BY <1>1, <1>2, <2>1, <3>1 DEF CreditInv, TypeOK
  <2>3. ASSUME NEW a \in Authors \ Whitelist
        PROVE  BalanceInv(a)' /\ ServedInv(a)' /\ TakenInv(a)'
    <3>1. BalanceInv(a) /\ ServedInv(a) /\ TakenInv(a)
      BY <2>3 DEF MoneyInv
    <3>2. /\ Used(a)' = Used(a) /\ Fee(a)' = Fee(a) /\ Due(a)' = Due(a)
          /\ PaidOf(a)' = PaidOf(a) /\ CreditedOf(a)' = CreditedOf(a)
      BY <1>1, <2>1 DEF Used, Fee, Due, PaidOf, CreditedOf
    <3>3. BalanceInv(a)'
      BY <2>1, <3>1, <3>2 DEF BalanceInv
    <3>4. ServedInv(a)' /\ TakenInv(a)'
      BY <1>1, <3>1, <3>2 DEF ServedInv, TakenInv
    <3>5. QED
      BY <3>3, <3>4
  <2>4. QED
    BY <2>2, <2>3 DEF MoneyInv
<1>5. QED
  BY <1>3, <1>4

\* The admission fee is taken; an account that is admitted again pays again.
LEMMA AdmitKeeps ==
  ASSUME IInv, AdmitAccount
  PROVE  CreditInv' /\ MoneyInv'
<1> USE DEF IInv
<1> DEFINE b == payment.author
<1>1. /\ UNCHANGED <<owner, status, credits, settled, published, waived, writer>>
      /\ admitted' = admitted \cup {b}
      /\ balance' = [balance EXCEPT ![b] = @ - AdmissionCost]
  BY DEF AdmitAccount, invoiceVars, processorVars, historyVars
<1>2. b \in Authors /\ payment.invoice \in PaidOf(b)
  BY DEF AdmitAccount, LinkInv, PaidOf
<1>3. CreditInv'
  BY <1>1 DEF CreditInv
<1>4. ASSUME NEW a \in Authors \ Whitelist
      PROVE  BalanceInv(a)' /\ ServedInv(a)' /\ TakenInv(a)'
  <2>1. BalanceInv(a) /\ ServedInv(a) /\ TakenInv(a)
    BY <1>4 DEF MoneyInv
  <2>2. /\ Used(a)' = Used(a) /\ Due(a)' = Due(a)
        /\ PaidOf(a)' = PaidOf(a) /\ CreditedOf(a)' = CreditedOf(a)
    BY <1>1 DEF Used, Due, PaidOf, CreditedOf
  <2>3. TakenInv(a)'
    BY <1>1, <2>1, <2>2 DEF TakenInv
  <2>4. /\ CostPerEvent * (Used(a) - Due(a)) \in Int
        /\ AdmissionCost * Cardinality(CreditedOf(a)) \in Int
        /\ AdmissionCost * Cardinality(PaidOf(a)) \in Int
        /\ CostPerEvent * Used(a) \in Int
    BY Numbers, Price
  <2>5. CASE a = b
    <3>1. balance'[a] = balance[a] - AdmissionCost
      BY <1>1, <1>2, <2>5 DEF TypeOK
    <3>2. Fee(a)' = AdmissionCost /\ Fee(a) >= 0
      BY <1>1, <2>5, Numbers DEF Fee
    <3>3. balance'[a] + CostPerEvent * (Used(a) - Due(a)) + AdmissionCost
            <= AdmissionCost * Cardinality(CreditedOf(a))
      BY <2>1, <2>4, <3>1, <3>2, Numbers DEF BalanceInv
    <3>4. BalanceInv(a)'
      BY <2>2, <3>2, <3>3 DEF BalanceInv
    <3>5. AdmissionCost + CostPerEvent * Used(a) <= AdmissionCost * Cardinality(PaidOf(a))
      <4>1. CASE a \in admitted
        BY <2>1, <4>1 DEF ServedInv
      <4>2. CASE a \notin admitted
        <5>1. Used(a) <= 0
          BY <1>4, <2>1, <4>2 DEF ServedInv, Used, TypeOK
        <5>2. CostPerEvent * Used(a) <= CostPerEvent * 0 /\ CostPerEvent * 0 = 0
          BY <5>1, Numbers, Price
        <5>3. 1 <= Cardinality(PaidOf(a))
          <6>1. {payment.invoice} \subseteq PaidOf(a)
            BY <1>2, <2>5
          <6>2. Cardinality({payment.invoice}) = 1
            BY FS_Singleton
          <6>3. {payment.invoice} \in SUBSET Invoices
            BY <6>1, Numbers
          <6>4. QED
            BY <6>1, <6>2, <6>3, Numbers, Sizes
        <5>4. AdmissionCost * 1 <= AdmissionCost * Cardinality(PaidOf(a))
          BY <5>3, Numbers, Price
        <5>5. QED
          BY <2>4, <5>2, <5>4, Numbers
      <4>3. QED
        BY <4>1, <4>2
    <3>6. ServedInv(a)'
      BY <1>1, <2>2, <2>5, <3>5 DEF ServedInv
    <3>7. QED
      BY <2>3, <3>4, <3>6
  <2>6. CASE a # b
    <3>1. balance'[a] = balance[a] /\ Fee(a)' = Fee(a) /\ (a \in admitted' <=> a \in admitted)
      BY <1>1, <1>2, <2>6 DEF TypeOK, Fee
    <3>2. BalanceInv(a)'
      BY <2>1, <2>2, <3>1 DEF BalanceInv
    <3>3. ServedInv(a)'
      BY <1>1, <2>1, <2>2, <3>1 DEF ServedInv
    <3>4. QED
      BY <2>3, <3>2, <3>3
  <2>7. QED
    BY <2>5, <2>6
<1>5. QED
  BY <1>3, <1>4 DEF MoneyInv

\* A payment only adds to what was paid.
LEMMA SettleKeeps ==
  ASSUME IInv, NEW i \in Invoices, Settle(i)
  PROVE  CreditInv' /\ MoneyInv'
<1> USE DEF IInv
<1>1. /\ UNCHANGED <<admitted, balance, owner, status, credits, published, waived, writer>>
      /\ settled' = settled \cup {i}
  BY DEF Settle, ledgerVars, invoiceVars, historyVars
<1>2. CreditInv'
  BY <1>1 DEF CreditInv
<1>3. ASSUME NEW a \in Authors \ Whitelist
      PROVE  BalanceInv(a)' /\ ServedInv(a)' /\ TakenInv(a)'
  <2>1. BalanceInv(a) /\ ServedInv(a) /\ TakenInv(a)
    BY <1>3 DEF MoneyInv
  <2>2. /\ Used(a)' = Used(a) /\ Fee(a)' = Fee(a) /\ Due(a)' = Due(a)
        /\ CreditedOf(a)' = CreditedOf(a)
    BY <1>1 DEF Used, Fee, Due, CreditedOf
  <2>3. PaidOf(a) \subseteq PaidOf(a)' /\ PaidOf(a)' \in SUBSET Invoices
    BY <1>1, Numbers DEF PaidOf, TypeOK
  <2>4. /\ Cardinality(PaidOf(a)) <= Cardinality(PaidOf(a)')
        /\ Cardinality(PaidOf(a)') \in Nat
    BY <2>3, Numbers, Sizes
  <2>5. AdmissionCost * Cardinality(PaidOf(a)) <= AdmissionCost * Cardinality(PaidOf(a)')
    BY <2>4, Numbers, Price
  <2>6. /\ AdmissionCost * Cardinality(PaidOf(a)) \in Int
        /\ AdmissionCost * Cardinality(PaidOf(a)') \in Int
        /\ CostPerEvent * Used(a) \in Int
        /\ CostPerEvent * (Used(a) + 1) \in Int
    BY <2>4, Numbers, Price
  <2>7. BalanceInv(a)'
    BY <1>1, <2>1, <2>2 DEF BalanceInv
  <2>8. ServedInv(a)'
    BY <1>1, <2>1, <2>2, <2>5, <2>6, Numbers DEF ServedInv
  <2>9. TakenInv(a)'
    BY <1>1, <2>1, <2>2, <2>5, <2>6, Numbers DEF TakenInv
  <2>10. QED
    BY <2>7, <2>8, <2>9
<1>4. QED
  BY <1>2, <1>3 DEF MoneyInv

LEMMA MoneyNext ==
  ASSUME IInv, [Next]_vars
  PROVE  CreditInv' /\ MoneyInv'
<1>1. ASSUME NEW a \in Authors, VisitPage(a) \/ RefuseStranger(a)
      PROVE  CreditInv' /\ MoneyInv'
  <2>1. UNCHANGED <<admitted, balance, owner, status, credits, settled, published, waived, writer>>
    BY <1>1 DEF VisitPage, RefuseStranger, ledgerVars, invoiceVars, processorVars, historyVars
  <2>2. QED
    BY <2>1, NoMoneyMoves DEF IInv
<1>2. ASSUME NEW a \in Authors, AdmitFree(a)
      PROVE  CreditInv' /\ MoneyInv'
  <2>1. /\ UNCHANGED <<admitted, balance, owner, status, credits, settled, published, waived>>
        /\ writer.at # "charge" /\ writer'.at # "charge" /\ writer'.author \in Whitelist
    BY <1>2 DEF AdmitFree, ledgerVars, invoiceVars, processorVars, historyVars, WriterIdle
  <2>2. QED
    BY <2>1, NoMoneyMoves DEF IInv
<1>3. ASSUME NEW a \in Authors, AdmitPaid(a)
      PROVE  CreditInv' /\ MoneyInv'
  BY <1>3, AdmitPaidKeeps
<1>4. CASE DropEvent \/ (Restart /\ writer.at # "charge")
  <2>1. /\ UNCHANGED <<admitted, balance, owner, status, credits, settled, published, waived>>
        /\ writer.at # "charge" /\ writer' = WriterIdle
    BY <1>4 DEF DropEvent, Restart, ledgerVars, invoiceVars, processorVars, historyVars
  <2>2. QED
    BY <2>1, NoMoneyMoves DEF IInv, WriterIdle
<1>5. CASE PublishEvent
  BY <1>5, PublishKeeps
<1>6. CASE ChargeEvent \/ ChargeFails \/ (Restart /\ writer.at = "charge")
  BY <1>6, ChargeKeeps
<1>7. CASE Receive \/ OpenAccount \/ PaymentFails
  <2>1. UNCHANGED <<admitted, balance, owner, status, credits, settled, published, waived, writer>>
    BY <1>7 DEF Receive, OpenAccount, PaymentFails, ledgerVars, invoiceVars, processorVars,
       historyVars
  <2>2. QED
    BY <2>1, NoMoneyMoves DEF IInv
<1>8. CASE IssueInvoice
  BY <1>8, IssueKeeps
<1>9. ASSUME NEW answer \in {"Unpaid", "Paid", "Expired"}, CheckInvoice(answer)
      PROVE  CreditInv' /\ MoneyInv'
  BY <1>9, CheckKeeps
<1>10. CASE AdmitAccount
  BY <1>10, AdmitKeeps
<1>11. ASSUME NEW i \in Invoices, Settle(i)
       PROVE  CreditInv' /\ MoneyInv'
  BY <1>11, SettleKeeps
<1>12. ASSUME NEW i \in Invoices, Webhook(i) \/ WebhookLost(i)
       PROVE  CreditInv' /\ MoneyInv'
  <2>1. UNCHANGED <<admitted, balance, owner, status, credits, settled, published, waived, writer>>
    BY <1>12 DEF Webhook, WebhookLost, ledgerVars, invoiceVars, historyVars
  <2>2. QED
    BY <2>1, NoMoneyMoves DEF IInv
<1>13. CASE UNCHANGED vars
  <2>1. UNCHANGED <<admitted, balance, owner, status, credits, settled, published, waived, writer>>
    BY <1>13 DEF vars
  <2>2. QED
    BY <2>1, NoMoneyMoves DEF IInv
<1>14. QED
  BY <1>1, <1>2, <1>3, <1>4, <1>5, <1>6, <1>7, <1>8, <1>9, <1>10, <1>11, <1>12, <1>13
     DEF Next, PaymentStep

\* The invariant holds in every state of every behaviour.
LEMMA Invariance == Spec => []IInv
<1>1. IInv /\ [Next]_vars => IInv'
  BY ShapeNext, MoneyNext DEF IInv
<1>2. QED
  BY InitInv, <1>1, PTL DEF Spec

-----------------------------------------------------------------------------
(* Open invoices                                                            *)

\* The status of an invoice is of one that was issued, and "Paid" only of one that
\* was; without a failure none is given up, and a new one is on its way only to
\* an author who has none open.
OpenInv ==
  /\ \A i \in Invoices : status[i] = "none" <=> i > issued
  /\ \A i \in Invoices : status[i] = "Paid" => i \in settled
  /\ ~failed =>
       /\ \A i \in Invoices : status[i] # "Expired"
       /\ \A i, j \in Invoices :
            status[i] = "Unpaid" /\ status[j] = "Unpaid" /\ owner[i] = owner[j] => i = j
       /\ payment.at = "issue" =>
            \A i \in Invoices : owner[i] = payment.author => status[i] # "Unpaid"

\* Steps that leave the invoices alone and start no new one.
LEMMA NoInvoiceMoves ==
  ASSUME OpenInv, UNCHANGED <<issued, owner, status>>, settled \subseteq settled',
         failed => failed', payment' = payment \/ payment'.at # "issue"
  PROVE  OpenInv'
BY DEF OpenInv

LEMMA IssueOpens ==
  ASSUME TypeOK, LinkInv, OpenInv, IssueInvoice
  PROVE  OpenInv'
<1> DEFINE n == issued + 1
<1>1. /\ n \in Invoices /\ issued' = n /\ issued \in Nat
      /\ owner' = [owner EXCEPT ![n] = payment.author]
      /\ status' = [status EXCEPT ![n] = "Unpaid"]
      /\ settled' = settled /\ failed' = failed
  BY AdmissionAssumption DEF IssueInvoice, TypeOK, Invoices, processorVars, AdmissionAssumption
<1>2. /\ owner'[n] = payment.author /\ status'[n] = "Unpaid"
      /\ \A i \in Invoices \ {n} : owner'[i] = owner[i] /\ status'[i] = status[i]
  BY <1>1 DEF TypeOK
<1>3. \A i \in Invoices : status'[i] = "none" <=> i > issued'
  BY <1>1, <1>2 DEF OpenInv, Invoices
<1>4. \A i \in Invoices : status'[i] = "Paid" => i \in settled'
  BY <1>1, <1>2 DEF OpenInv
<1>5. ASSUME ~failed'
      PROVE  /\ \A i \in Invoices : status'[i] # "Expired"
             /\ \A i, j \in Invoices :
                  status'[i] = "Unpaid" /\ status'[j] = "Unpaid" /\ owner'[i] = owner'[j]
                    => i = j
  <2>1. \A i \in Invoices : owner[i] = payment.author => status[i] # "Unpaid"
    BY <1>1, <1>5 DEF OpenInv, IssueInvoice
  <2>2. QED
    BY <1>1, <1>2, <1>5, <2>1 DEF OpenInv
<1>6. payment'.at # "issue"
  BY DEF IssueInvoice, PaymentIdle
<1>7. QED
  BY <1>3, <1>4, <1>5, <1>6 DEF OpenInv

LEMMA CheckOpens ==
  ASSUME TypeOK, LinkInv, OpenInv,
         NEW answer \in {"Unpaid", "Paid", "Expired"}, CheckInvoice(answer)
  PROVE  OpenInv'
<1> DEFINE n == payment.invoice
<1>1. /\ n \in Invoices /\ n \in 1..issued
      /\ UNCHANGED <<issued, owner, settled>>
      /\ status' = [status EXCEPT ![n] = answer]
      /\ failed' = (failed \/ answer = "Expired")
      /\ answer \in Answers(n)
  BY AdmissionAssumption DEF CheckInvoice, TypeOK, LinkInv, Invoices, processorVars,
     AdmissionAssumption
<1>2. /\ status'[n] = answer
      /\ \A i \in Invoices \ {n} : status'[i] = status[i]
  BY <1>1 DEF TypeOK
<1>3. \A i \in Invoices : status'[i] = "none" <=> i > issued'
  BY <1>1, <1>2 DEF OpenInv, TypeOK, Invoices
<1>4. \A i \in Invoices : status'[i] = "Paid" => i \in settled'
  BY <1>1, <1>2 DEF OpenInv, Answers
<1>5. ASSUME ~failed'
      PROVE  /\ \A i \in Invoices : status'[i] # "Expired"
             /\ \A i \in Invoices : status'[i] = "Unpaid" => status[i] = "Unpaid"
  <2>1. ~failed /\ answer # "Expired"
    BY <1>1, <1>5
  <2>2. status[n] \notin {"none", "Expired"}
    BY <1>1, <2>1 DEF OpenInv, TypeOK
  <2>3. answer = "Unpaid" => n \notin settled
    BY <1>1 DEF Answers
  <2>4. answer = "Unpaid" => status[n] # "Paid"
    BY <1>1, <2>3 DEF OpenInv
  <2>5. status[n] \in Statuses
    BY <1>1 DEF TypeOK
  <2>6. answer = "Unpaid" => status[n] = "Unpaid"
    BY <2>2, <2>4, <2>5 DEF Statuses
  <2>7. \A i \in Invoices : status[i] # "Expired"
    BY <2>1 DEF OpenInv
  <2>8. QED
    BY <1>2, <2>1, <2>6, <2>7
<1>6. payment'.at # "issue"
  BY DEF CheckInvoice, PaymentIdle, TypeOK
<1>7. QED
  BY <1>1, <1>3, <1>4, <1>5, <1>6 DEF OpenInv

LEMMA OpenNext ==
  ASSUME TypeOK, LinkInv, OpenInv, [Next]_vars
  PROVE  OpenInv'
<1>1. ASSUME NEW m, Send(m) PROVE failed => failed'
  BY <1>1 DEF Send
<1>2. CASE \E a \in Authors : VisitPage(a) \/ AdmitFree(a) \/ AdmitPaid(a) \/ RefuseStranger(a)
  <2>1. UNCHANGED <<issued, owner, status, settled, payment>>
    BY <1>2 DEF VisitPage, AdmitFree, AdmitPaid, RefuseStranger, invoiceVars, processorVars
  <2>2. failed => failed'
    BY <1>1, <1>2 DEF VisitPage, AdmitFree, AdmitPaid, RefuseStranger
  <2>3. QED
    BY <2>1, <2>2, NoInvoiceMoves
<1>3. CASE DropEvent \/ PublishEvent \/ ChargeEvent \/ ChargeFails
  <2>1. UNCHANGED <<issued, owner, status, settled, payment>> /\ (failed => failed')
    BY <1>3 DEF DropEvent, PublishEvent, ChargeEvent, ChargeFails, invoiceVars, processorVars
  <2>2. QED
    BY <2>1, NoInvoiceMoves
<1>4. CASE Receive
  <2>1. UNCHANGED <<issued, owner, status, settled>> /\ (failed => failed')
    BY <1>4 DEF Receive, invoiceVars, processorVars
  <2>2. payment'.at # "issue"
    BY <1>4 DEF Receive, Bill, AskAbout
  <2>3. QED
    BY <2>1, <2>2, NoInvoiceMoves
<1>5. CASE PaymentFails \/ AdmitAccount \/ Restart
  <2>1. UNCHANGED <<issued, owner, status, settled>> /\ (failed => failed')
    BY <1>5 DEF PaymentFails, AdmitAccount, Restart, invoiceVars, processorVars
  <2>2. payment'.at # "issue"
    BY <1>5 DEF PaymentFails, AdmitAccount, Restart, PaymentIdle
  <2>3. QED
    BY <2>1, <2>2, NoInvoiceMoves
<1>6. CASE OpenAccount
  <2>1. UNCHANGED <<issued, owner, status, settled>>
    BY <1>6 DEF OpenAccount, invoiceVars, processorVars
  <2>2. CASE HasOpenInvoice(payment.author)
    <3>1. failed' = TRUE \/ (payment'.at # "issue" /\ failed' = failed)
      BY <1>6, <2>2 DEF OpenAccount, PaymentIdle
    <3>2. QED
      BY <2>1, <3>1 DEF OpenInv
  <2>3. CASE ~HasOpenInvoice(payment.author)
    <3>1. payment'.author = payment.author /\ failed' = failed
      BY <1>6, <2>3 DEF OpenAccount, TypeOK
    <3>2. payment.author \in Authors
      BY <1>6 DEF OpenAccount, LinkInv
    <3>3. \A i \in Invoices : owner[i] = payment.author => status[i] # "Unpaid"
      BY <2>3, <3>2 DEF HasOpenInvoice, Unpaid, LinkInv
    <3>4. QED
      BY <2>1, <3>1, <3>3 DEF OpenInv
  <2>4. QED
    BY <2>2, <2>3
<1>7. CASE IssueInvoice
  BY <1>7, IssueOpens
<1>8. ASSUME NEW answer \in {"Unpaid", "Paid", "Expired"}, CheckInvoice(answer)
      PROVE  OpenInv'
  BY <1>8, CheckOpens
<1>9. ASSUME NEW i \in Invoices, Settle(i) \/ Webhook(i) \/ WebhookLost(i)
      PROVE  OpenInv'
  <2>1. UNCHANGED <<issued, owner, status, payment>> /\ settled \subseteq settled'
    BY <1>9 DEF Settle, Webhook, WebhookLost, invoiceVars
  <2>2. failed => failed'
    BY <1>1, <1>9 DEF Settle, Webhook, WebhookLost
  <2>3. QED
    BY <2>1, <2>2, NoInvoiceMoves
<1>10. CASE UNCHANGED vars
  BY <1>10, NoInvoiceMoves DEF vars
<1>11. QED
  BY <1>2, <1>3, <1>4, <1>5, <1>6, <1>7, <1>8, <1>9, <1>10 DEF Next, PaymentStep

-----------------------------------------------------------------------------
(* The theorems                                                             *)

\* Tables, messages and tasks keep their shape, and the payment channel keeps to
\* its capacity.
THEOREM TypeCorrect == Spec => []TypeOK
<1>1. IInv => TypeOK
  BY DEF IInv
<1>2. QED
  BY <1>1, Invariance, PTL

\* Nobody is served on credit, although the writer decides on a balance that the
\* payment task changes before the event is published and charged.
THEOREM NoCredit == Spec => []PaidFor
<1>1. QED
  BY InvImplies, Invariance, PTL

\* A payment is credited at most once, by whichever ways it is found.
THEOREM SingleCredit == Spec => []CreditedOnce
<1>1. QED
  BY InvImplies, Invariance, PTL

\* Unless something fails, an author has one open invoice at a time.
THEOREM OneInvoice == Spec => []OneOpenInvoice
<1>1. Init => OpenInv
  BY AdmissionAssumption DEF Init, OpenInv, Invoices, PaymentIdle, AdmissionAssumption
<1>2. IInv /\ OpenInv /\ [Next]_vars => OpenInv'
  BY OpenNext DEF IInv
<1>3. OpenInv => OneOpenInvoice
  BY DEF OpenInv, OneOpenInvoice
<1>4. QED
  BY <1>1, <1>2, <1>3, Invariance, PTL DEF Spec
=============================================================================
