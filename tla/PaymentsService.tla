-------------------------- MODULE PaymentsService --------------------------
(***************************************************************************)
(* The handlers of PaymentsService: the payment schedule of a contract and *)
(* the money recorded against it.  Every amount written is computed from   *)
(* the row the handler read first, as a floating-point sum that the column *)
(* rounds back to cents: the sum is exact, a comparison that it decides by *)
(* less than a cent may turn out either way.                               *)
(***************************************************************************)
EXTENDS CrmStore

OnlyPayments == UNCHANGED <<contracts, amendments, cases, workDone, handovers, liquidations>>

OpenForFinancialActivity(c) == contracts[c].status \notin {"LIQUIDATED", "ARCHIVED"}

\* prisma.payment.update({ where: { id } }) with columns of the new row r.
WritePayment(w, r) ==
  /\ payments' = [payments EXCEPT ![req[w].contract][req[w].installment] = r]
  /\ OnlyPayments
  /\ Answer(w)

\* The row as it is now: a blind update leaves the other columns alone.
Current(w) == payments[req[w].contract][req[w].installment]

ReadPayment(w, op, c, n, excluded, r) ==
  /\ payments[c][n].status \notin excluded \cup {"ABSENT"}
  /\ Begin(w, op, r)
  /\ UNCHANGED tables

-----------------------------------------------------------------------------
CreateInstallmentRead(w, c, n, amount) ==
  /\ contracts[c].signed
  /\ OpenForFinancialActivity(c)
  /\ Begin(w, "payment.create", [Idle EXCEPT !.step = "installment.create", !.contract = c,
                                             !.installment = n, !.amount = amount])
  /\ UNCHANGED tables

\* Refused by DUPLICATE_INSTALLMENT, or by the unique constraint it foresees.
CreateInstallment(w) ==
  /\ At(w, "installment.create")
  /\ IF Current(w).status = "ABSENT"
     THEN WritePayment(w, [NoPayment EXCEPT !.status = "PENDING", !.amount = req[w].amount])
     ELSE Answer(w) /\ UNCHANGED payments /\ OnlyPayments

\* allowOverpayment is a right the caller asks for, when Operations offers it.
\* A sum of exactly the installment is refused when its double is above it.
RecordRead(w, c, n, amount) ==
  /\ \/ payments[c][n].paid + amount <= payments[c][n].amount
     \/ "payment.overpay" \in Operations
  /\ ReadPayment(w, "payment.record", c, n, ResolvedStatuses,
                 [PaymentRequest("record.open", c, n) EXCEPT !.amount = amount])

\* assertPaymentsContractOpen(): the contract is read after the payment.
RecordCheckOpen(w) ==
  /\ At(w, "record.open")
  /\ IF OpenForFinancialActivity(req[w].contract) THEN Goto(w, "record.write") ELSE Answer(w)
  /\ UNCHANGED tables

\* Faulty: the sum is incremented in the database, the status taken from what was read.
RecordWriteIncrement(w) ==
  LET seen == req[w].seenPayment
      paid == seen.paid + req[w].amount
  IN  /\ At(w, "record.write")
      /\ \E covered \in AtLeast(paid, seen.amount) :
           WritePayment(w, [Current(w) EXCEPT !.paid = @ + req[w].amount,
                              !.status = IF covered THEN "PAID" ELSE "PARTIALLY_PAID"])

\* Faulty: the status is taken from the row as it is now, the sum from what was read.
RecordWriteFreshStatus(w) ==
  /\ At(w, "record.write")
  /\ \E covered \in AtLeast(Current(w).paid + req[w].amount, Current(w).amount) :
       WritePayment(w, [Current(w) EXCEPT !.paid = req[w].seenPayment.paid + req[w].amount,
                          !.status = IF covered THEN "PAID" ELSE "PARTIALLY_PAID"])

RecordWrite(w) ==
  LET seen == req[w].seenPayment
      paid == seen.paid + req[w].amount
  IN  /\ At(w, "record.write")
      /\ \E covered \in AtLeast(paid, seen.amount) :
           WritePayment(w, [Current(w) EXCEPT !.paid = paid,
                              !.status = IF covered THEN "PAID" ELSE "PARTIALLY_PAID"])

\* Faulty: earlier refunds are not deducted from what can be given back.
RefundReadGross(w, c, n, amount) ==
  /\ amount <= payments[c][n].paid
  /\ ReadPayment(w, "payment.refund", c, n, {},
                 [PaymentRequest("refund.write", c, n) EXCEPT !.amount = amount])

\* The whole rest is refused when its double is above the difference's.
RefundRead(w, c, n, amount) ==
  /\ amount <= payments[c][n].paid - payments[c][n].refunded
  /\ ReadPayment(w, "payment.refund", c, n, {},
                 [PaymentRequest("refund.write", c, n) EXCEPT !.amount = amount])

RefundWrite(w) ==
  LET seen == req[w].seenPayment
      refunded == seen.refunded + req[w].amount
  IN  /\ At(w, "refund.write")
      /\ \E all \in AtLeast(refunded, seen.paid) :
           WritePayment(w, [Current(w) EXCEPT !.refunded = refunded,
                              !.status = IF all THEN "REFUNDED" ELSE @])

WaiveRead(w, c, n) ==
  ReadPayment(w, "payment.waive", c, n, ResolvedStatuses, PaymentRequest("waive.write", c, n))

WaiveWrite(w) ==
  At(w, "waive.write") /\ WritePayment(w, [Current(w) EXCEPT !.status = "WAIVED"])

-----------------------------------------------------------------------------
\* The rows of contract c after syncOverdueStatus(), those of due past their date.
Swept(c, due) ==
  [n \in Installments |->
     IF n \in due /\ payments[c][n].status \in {"PENDING", "PARTIALLY_PAID"}
     THEN [payments[c][n] EXCEPT !.status = "OVERDUE"]
     ELSE payments[c][n]]

\* Reads that report on status sweep first: one updateMany, no request state.
SyncOverdueStatus(c, due) ==
  /\ "payment.list" \in Operations
  /\ payments' = [payments EXCEPT ![c] = Swept(c, due)]
  /\ OnlyPayments /\ UNCHANGED req

PaymentsNext(w) ==
  \/ \E c \in Contracts, n \in Installments, amount \in Amounts :
       \/ CreateInstallmentRead(w, c, n, amount)
       \/ RecordRead(w, c, n, amount)
       \/ RefundRead(w, c, n, amount)
  \/ \E c \in Contracts, n \in Installments : WaiveRead(w, c, n)
  \/ \E c \in Contracts, due \in SUBSET Installments : SyncOverdueStatus(c, due)
  \/ CreateInstallment(w) \/ RecordCheckOpen(w) \/ RecordWrite(w)
  \/ RefundWrite(w) \/ WaiveWrite(w)
=============================================================================
