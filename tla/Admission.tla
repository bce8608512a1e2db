------------------------------ MODULE Admission ------------------------------
(***************************************************************************)
(* Pay to relay: the gates of the event writer (db.rs), the payment task   *)
(* (payment/mod.rs), the tables account and invoice, and, outside the      *)
(* relay, the authors who pay and the processor that reports payments.     *)
(*                                                                         *)
(* Amounts are exact; every invoice is for the admission cost. The         *)
(* writer's other gates (kinds, NIP-05, gRPC) and the event store only     *)
(* decide whether an event is dropped, and may decide either way.          *)
(***************************************************************************)
EXTENDS Integers, Sequences, FiniteSets

CONSTANTS Authors,
          Whitelist,     (* authorization.pubkey_whitelist: they post for free *)
          NoAuthor,
          AdmissionCost, (* pay_to_relay.admission_cost                        *)
          CostPerEvent,  (* pay_to_relay.cost_per_event                        *)
          SignUps, DirectMessage, (* the settings of these names               *)
          Capacity,      (* of the payment channel (4096)                      *)
          MaxInvoices,   (* bound on the invoices ever issued                  *)
          MaxHooks,      (* bound on the processor's calls for one invoice     *)
          MaxEvents      (* bound on the events of an author                   *)

AdmissionAssumption ==
  /\ Whitelist \subseteq Authors /\ NoAuthor \notin Authors
  /\ AdmissionCost \in Nat /\ CostPerEvent \in Nat
  /\ SignUps \in BOOLEAN /\ DirectMessage \in BOOLEAN
  /\ Capacity \in Nat \ {0}
  /\ MaxInvoices \in Nat /\ MaxHooks \in Nat /\ MaxEvents \in Nat

ASSUME AdmissionAssumption

Invoices == 1..MaxInvoices

VARIABLES
  accounts,  (* the authors with a row in account                              *)
  admitted,  (* those of them with is_admitted                                 *)
  balance,   (* the column balance                                             *)
  issued,    (* invoices 1..issued have a row, in the order of created_at      *)
  owner,     (* per invoice, whose it is                                       *)
  status,    (* per invoice, the column status                                 *)
  messages,  (* the payment channel, as far as the payment task has not read   *)
  payment,   (* where the payment task is, and with which author and invoice   *)
  writer,    (* where the writer is, and whose event it has                    *)
  settled,   (* at the processor: the invoices that have been paid             *)
  hooks,     (* at the processor: calls of the webhook, per invoice            *)
  credits,   (* history: per invoice, how often it was credited                *)
  published, (* history: per paying author, events that were stored or sent     *)
  waived,    (* history: per author, events whose charge was lost              *)
  failed     (* history: a call, a message or the relay has failed             *)

ledgerVars == <<accounts, admitted, balance>>
invoiceVars == <<issued, owner, status>>
processorVars == <<settled, hooks>>
historyVars == <<published, waived>>
vars == <<accounts, admitted, balance, issued, owner, status, messages, payment,
          writer, settled, hooks, credits, published, waived, failed>>

PaymentIdle == [at |-> "idle", author |-> NoAuthor, invoice |-> 0]
WriterIdle == [at |-> "idle", author |-> NoAuthor]

NewAccount(a) == [kind |-> "new", author |-> a, invoice |-> 0]
CheckAccount(a) == [kind |-> "check", author |-> a, invoice |-> 0]
InvoicePaid(i) == [kind |-> "paid", author |-> NoAuthor, invoice |-> i]

Init ==
  /\ accounts = {} /\ admitted = {} /\ balance = [a \in Authors |-> 0]
  /\ issued = 0
  /\ owner = [i \in Invoices |-> NoAuthor]
  /\ status = [i \in Invoices |-> "none"]
  /\ messages = <<>> /\ payment = PaymentIdle /\ writer = WriterIdle
  /\ settled = {} /\ hooks = [i \in Invoices |-> 0]
  /\ credits = [i \in Invoices |-> 0]
  /\ published = [a \in Authors |-> 0] /\ waived = [a \in Authors |-> 0]
  /\ failed = FALSE

-----------------------------------------------------------------------------
(* The payment channel: a broadcast never waits, a slow reader loses the    *)
(* oldest message                                                           *)

\* A variant without the bound.
SendUnbounded(m) == messages' = Append(messages, m) /\ UNCHANGED failed

Send(m) ==
  IF Len(messages) < Capacity
  THEN messages' = Append(messages, m) /\ UNCHANGED failed
  ELSE messages' = Append(Tail(messages), m) /\ failed' = TRUE

\* get_account_balance fails on a balance that is no u64.
Readable(a) == a \in accounts /\ balance[a] >= 0

\* A variant that only looks at the admission.
MayPublishUnpaid(a) == Readable(a) /\ a \in admitted

\* The author is admitted and, as read now, has the balance for one event.
MayPublish(a) == Readable(a) /\ a \in admitted /\ balance[a] >= CostPerEvent

\* What the invoice page (of an author who is not admitted) and the account
\* page send. The pages change nothing else.
VisitPage(a) ==
  /\ \/ SignUps /\ ~(Readable(a) /\ a \in admitted)
        /\ Send(IF Readable(a) THEN CheckAccount(a) ELSE NewAccount(a))
     \/ Send(CheckAccount(a))
  /\ UNCHANGED <<ledgerVars, invoiceVars, payment, writer, processorVars, credits,
                 historyVars>>

-----------------------------------------------------------------------------
(* The event writer                                                         *)

\* An event of an author who need not pay.
AdmitFree(a) ==
  /\ writer = WriterIdle /\ a \in Whitelist
  /\ writer' = [at |-> "write", author |-> a]
  /\ UNCHANGED <<ledgerVars, invoiceVars, messages, payment, processorVars, credits,
                 historyVars, failed>>

\* An event of an author who has paid.
AdmitPaid(a) ==
  /\ writer = WriterIdle /\ a \notin Whitelist
  /\ MayPublish(a)
  /\ writer' = [at |-> "write", author |-> a]
  /\ UNCHANGED <<ledgerVars, invoiceVars, messages, payment, processorVars, credits,
                 historyVars, failed>>

\* An event that is refused because its author has not joined; the payment task
\* is told. (Events refused for other reasons change nothing.)
RefuseStranger(a) ==
  /\ writer = WriterIdle /\ a \notin Whitelist
  /\ \/ Readable(a) /\ a \notin admitted /\ Send(CheckAccount(a))
     \/ a \notin accounts /\ SignUps /\ DirectMessage /\ Send(NewAccount(a))
  /\ UNCHANGED <<ledgerVars, invoiceVars, payment, writer, processorVars, credits,
                 historyVars>>

\* The event fails a later gate, is a duplicate, or cannot be written.
DropEvent ==
  /\ writer.at = "write"
  /\ writer' = WriterIdle
  /\ UNCHANGED <<ledgerVars, invoiceVars, messages, payment, processorVars, credits,
                 historyVars, failed>>

\* The event is ephemeral, or write_event has stored it; it is broadcast.
PublishEvent ==
  LET a == writer.author IN
  /\ writer.at = "write" /\ published[a] < MaxEvents
  /\ published' = IF a \in Whitelist THEN published ELSE [published EXCEPT ![a] = @ + 1]
  /\ writer' = IF CostPerEvent > 0 /\ a \notin Whitelist
               THEN [writer EXCEPT !.at = "charge"] ELSE WriterIdle
  /\ UNCHANGED <<ledgerVars, invoiceVars, messages, payment, processorVars, credits,
                 waived, failed>>

ChargeEvent ==
  /\ writer.at = "charge"
  /\ balance' = [balance EXCEPT ![writer.author] = @ - CostPerEvent]
  /\ writer' = WriterIdle
  /\ UNCHANGED <<accounts, admitted, invoiceVars, messages, payment, processorVars,
                 credits, historyVars, failed>>

\* The error leaves db_writer: no event is taken any more.
ChargeFails ==
  /\ writer.at = "charge"
  /\ waived' = [waived EXCEPT ![writer.author] = @ + 1]
  /\ writer' = [at |-> "dead", author |-> NoAuthor]
  /\ failed' = TRUE
  /\ UNCHANGED <<ledgerVars, invoiceVars, messages, payment, processorVars, credits,
                 published>>

-----------------------------------------------------------------------------
(* The payment task                                                         *)

\* The rows get_unpaid_invoice looks for, and those it may return: the newest.
Unpaid(a) == {i \in Invoices : owner[i] = a /\ status[i] = "Unpaid"}
OpenInvoice(a) == {i \in Unpaid(a) : \A j \in Unpaid(a) : j <= i}

\* get_invoice_info will see to an invoice for a.
Bill(a) == [at |-> "bill", author |-> a, invoice |-> 0]
\* The processor will be asked about i.
AskAbout(i) == [at |-> "ask", author |-> owner[i], invoice |-> i]

\* An account check asks about the open invoice; without one, and when looking for it
\* is an error, the author is billed.
Receive ==
  /\ payment = PaymentIdle /\ messages # <<>>
  /\ messages' = Tail(messages)
  /\ LET m == Head(messages) IN
     \/ m.kind = "new" /\ payment' = Bill(m.author) /\ UNCHANGED failed
     \/ /\ m.kind = "check"
        /\ \E i \in OpenInvoice(m.author) : payment' = AskAbout(i)
        /\ UNCHANGED failed
     \/ /\ m.kind = "check" /\ Unpaid(m.author) = {}
        /\ payment' = Bill(m.author) /\ UNCHANGED failed
     \/ /\ m.kind = "check" /\ Unpaid(m.author) # {}
        /\ payment' = Bill(m.author) /\ failed' = TRUE
     \/ m.kind = "paid" /\ payment' = AskAbout(m.invoice) /\ UNCHANGED failed
  /\ UNCHANGED <<ledgerVars, invoiceVars, writer, processorVars, credits, historyVars>>

\* A variant that does not look.
HasOpenInvoiceNever(a) == FALSE

HasOpenInvoice(a) == a \in accounts /\ Unpaid(a) # {}

\* get_invoice_info: create_account does nothing if there is a row; then an open
\* invoice is looked for. An error of the lookup counts as none.
OpenAccount ==
  LET a == payment.author IN
  /\ payment.at = "bill"
  /\ accounts' = accounts \cup {a}
  /\ \/ HasOpenInvoice(a) /\ payment' = PaymentIdle /\ UNCHANGED failed
     \/ /\ ~HasOpenInvoice(a)
        /\ payment' = [payment EXCEPT !.at = "issue"] /\ UNCHANGED failed
     \/ /\ HasOpenInvoice(a)
        /\ payment' = [payment EXCEPT !.at = "issue"] /\ failed' = TRUE
  /\ UNCHANGED <<admitted, balance, invoiceVars, messages, writer, processorVars,
                 credits, historyVars>>

\* A new invoice of the processor gets its row.
IssueInvoice ==
  /\ payment.at = "issue" /\ issued < MaxInvoices
  /\ issued' = issued + 1
  /\ owner' = [owner EXCEPT ![issued'] = payment.author]
  /\ status' = [status EXCEPT ![issued'] = "Unpaid"]
  /\ payment' = PaymentIdle
  /\ UNCHANGED <<ledgerVars, messages, writer, processorVars, credits, historyVars,
                 failed>>

\* What the processor may say of i. "Expired" is an answer that does not parse,
\* or the truth about an invoice that will not be paid any more.
Answers(i) == {IF i \in settled THEN "Paid" ELSE "Unpaid", "Expired"}

\* A variant that does not compare with the status before.
CreditsAlways(i, answer) == answer = "Paid"

\* update_invoice credits the account when an unpaid invoice turns out paid.
Credits(i, answer) == status[i] = "Unpaid" /\ answer = "Paid"

\* A variant that goes by the status before the update.
AdmitsBelated(i, answer) == answer = "Paid" /\ status[i] = "Paid"

Admits(i, answer) == answer = "Paid"

\* check_invoice_status: ask the processor, then update_invoice. (The second
\* update_invoice of the webhook finds the row as it is to be.)
CheckInvoice(answer) ==
  LET i == payment.invoice IN
  /\ payment.at = "ask" /\ answer \in Answers(i)
  /\ status' = [status EXCEPT ![i] = answer]
  /\ balance' = IF Credits(i, answer)
                THEN [balance EXCEPT ![owner[i]] = @ + AdmissionCost] ELSE balance
  /\ credits' = IF Credits(i, answer) THEN [credits EXCEPT ![i] = @ + 1] ELSE credits
  /\ payment' = IF Admits(i, answer) THEN [payment EXCEPT !.at = "admit"]
                ELSE PaymentIdle
  /\ failed' = (failed \/ answer = "Expired")
  /\ UNCHANGED <<accounts, admitted, issued, owner, messages, writer, processorVars,
                 historyVars>>

\* admit_account deducts the cost, whatever the account's state.
AdmitAccount ==
  LET a == payment.author IN
  /\ payment.at = "admit"
  /\ admitted' = admitted \cup {a}
  /\ balance' = [balance EXCEPT ![a] = @ - AdmissionCost]
  /\ payment' = PaymentIdle
  /\ UNCHANGED <<accounts, invoiceVars, messages, writer, processorVars, credits,
                 historyVars, failed>>

\* An error leaves run_internal; run starts it again.
PaymentFails ==
  /\ payment # PaymentIdle
  /\ payment' = PaymentIdle
  /\ failed' = TRUE
  /\ UNCHANGED <<ledgerVars, invoiceVars, messages, writer, processorVars, credits,
                 historyVars>>

PaymentStep ==
  \/ Receive \/ OpenAccount \/ IssueInvoice \/ AdmitAccount \/ PaymentFails
  \/ \E answer \in {"Unpaid", "Paid", "Expired"} : CheckInvoice(answer)

-----------------------------------------------------------------------------
(* Outside the relay                                                        *)

Settle(i) ==
  /\ i <= issued /\ i \notin settled
  /\ settled' = settled \cup {i}
  /\ UNCHANGED <<ledgerVars, invoiceVars, messages, payment, writer, hooks, credits,
                 historyVars, failed>>

\* The processor calls /lnbits, possibly again.
Webhook(i) ==
  /\ i \in settled /\ hooks[i] < MaxHooks
  /\ hooks' = [hooks EXCEPT ![i] = @ + 1]
  /\ Send(InvoicePaid(i))
  /\ UNCHANGED <<ledgerVars, invoiceVars, payment, writer, settled, credits,
                 historyVars>>

WebhookLost(i) ==
  /\ i \in settled /\ hooks[i] < MaxHooks
  /\ hooks' = [hooks EXCEPT ![i] = @ + 1]
  /\ failed' = TRUE
  /\ UNCHANGED <<ledgerVars, invoiceVars, messages, payment, writer, settled, credits,
                 historyVars>>

\* The relay stops and starts: the tables remain.
Restart ==
  /\ messages' = <<>> /\ payment' = PaymentIdle /\ writer' = WriterIdle
  /\ waived' = IF writer.at = "charge"
               THEN [waived EXCEPT ![writer.author] = @ + 1] ELSE waived
  /\ failed' = TRUE
  /\ UNCHANGED <<ledgerVars, invoiceVars, processorVars, credits, published>>

-----------------------------------------------------------------------------
Next ==
  \/ \E a \in Authors :
       VisitPage(a) \/ AdmitFree(a) \/ AdmitPaid(a) \/ RefuseStranger(a)
  \/ DropEvent \/ PublishEvent \/ ChargeEvent \/ ChargeFails
  \/ PaymentStep
  \/ \E i \in Invoices : Settle(i) \/ Webhook(i) \/ WebhookLost(i)
  \/ Restart

Spec == Init /\ [][Next]_vars

\* The payment task is a loop of the runtime, and LNBits calls its webhook when an
\* invoice is paid. (Core Lightning has no webhook here: with it a payment is found
\* only when the author comes back, to a page or with an event.) Nobody is obliged to
\* post, to visit or to pay.
FairSpec ==
  /\ Spec
  /\ WF_vars(PaymentStep)
  /\ \A i \in Invoices : WF_vars(Webhook(i))

-----------------------------------------------------------------------------
(* Properties                                                               *)

Statuses == {"none", "Unpaid", "Paid", "Expired"}
Messages == [kind : {"new", "check"}, author : Authors, invoice : {0}]
            \cup [kind : {"paid"}, author : {NoAuthor}, invoice : Invoices]

\* The shape of the state; the payment channel keeps to its capacity.
TypeOK ==
  /\ admitted \subseteq accounts /\ accounts \subseteq Authors
  /\ balance \in [Authors -> Int]
  /\ issued \in 0..MaxInvoices
  /\ owner \in [Invoices -> Authors \cup {NoAuthor}]
  /\ status \in [Invoices -> Statuses]
  /\ messages \in Seq(Messages) /\ Len(messages) <= Capacity
  /\ payment \in [at : {"idle", "bill", "issue", "ask", "admit"},
                  author : Authors \cup {NoAuthor}, invoice : 0..MaxInvoices]
  /\ writer \in [at : {"idle", "write", "charge", "dead"}, author : Authors \cup {NoAuthor}]
  /\ settled \subseteq Invoices
  /\ hooks \in [Invoices -> 0..MaxHooks] /\ credits \in [Invoices -> Nat]
  /\ published \in [Authors -> 0..MaxEvents] /\ waived \in [Authors -> Nat]
  /\ failed \in BOOLEAN

\* Nobody is served on credit: what an author has been let do (be admitted,
\* publish) never costs more than the invoices the author has paid, although the
\* writer decides on a balance that the payment task changes meanwhile. Charges
\* that were lost with the writer are excepted.
PaidFor ==
  \A a \in Authors \ Whitelist :
    LET paid == AdmissionCost * Cardinality({i \in settled : owner[i] = a})
    IN  IF a \in admitted
        THEN AdmissionCost + CostPerEvent * (published[a] - waived[a]) <= paid
        ELSE published[a] = 0

\* A payment is credited once, however often and by whichever way (webhook, page,
\* event) the invoice is found to be paid, and none is credited that was not made.
CreditedOnce ==
  \A i \in Invoices : credits[i] <= IF i \in settled THEN 1 ELSE 0

\* "This avoids recreating admission invoices": unless something fails, an author
\* has one open invoice at a time.
OneOpenInvoice ==
  ~failed => \A i, j \in Invoices :
    status[i] = "Unpaid" /\ status[j] = "Unpaid" /\ owner[i] = owner[j] => i = j

\* Who pays is admitted, unless something fails on the way.
PaidIsAdmitted ==
  \A i \in Invoices : i \in settled ~> failed \/ owner[i] \in admitted

\* "Once this invoice is paid the author can write to the relay": the writer
\* takes the events of an admitted author, if nothing has failed.
AdmittedCanWrite ==
  ~failed /\ payment = PaymentIdle =>
    \A a \in admitted : MayPublish(a)

=============================================================================
