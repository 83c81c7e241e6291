----------------------- MODULE CommercialRules_proofs -----------------------
(***************************************************************************)
(* What every number of overlapping requests keeps, wherever the server    *)
(* dies: the types of tables and requests, the rules of closure, and the   *)
(* rules of money.                                                         *)
(***************************************************************************)
EXTENDS CommercialSystem, TLAPS

-----------------------------------------------------------------------------
(***************************************************************************)
(* The tables and the requests keep their types.  TypeOK alone is not      *)
(* inductive: a handler that is past its first step must still have the    *)
(* targets that its next write needs, which RequestsTargeted says.         *)
(***************************************************************************)

ContractSteps == {"update.write", "submit.write", "approve.write", "reject.write", "send.write",
                  "sign.case", "sign.write", "sign.link", "status.link", "status.check", "status.swap",
                  "status.tasks", "amend.write"}
PaymentSteps  == {"installment.create", "record.open", "record.write", "refund.write", "waive.write"}
CaseSteps     == {"sign.write", "sign.link", "caseStatus.write", "handover.write", "close.check", "close.begin",
                  "close.commit", "confirm.existing", "confirm.write", "finalize.begin",
                  "finalize.commit"}

Targeted(r) ==
  /\ r.step \in ContractSteps \cup PaymentSteps => r.contract \in Contracts
  /\ r.step \in PaymentSteps => r.installment \in Installments
  /\ r.step \in CaseSteps => r.kase \in Cases
  /\ r.step = "approve.write" => r.to \in Roles
  /\ r.step \in {"status.link", "status.check", "status.swap"} => r.to \in ContractStatus
  /\ r.step = "caseStatus.write" => r.to \in CaseStatus
  /\ r.step \in {"confirm.existing", "confirm.write"} => r.to \in Parties
  /\ r.seenContract.status # "ABSENT" /\ r.step \in {"close.commit", "finalize.commit"}
       => r.linked \in Contracts

RequestsTargeted == \A w \in Workers : Targeted(req[w])

TypeInv == TypeOK /\ RequestsTargeted

-----------------------------------------------------------------------------
LEMMA RowTypes ==
  /\ NoContract \in ContractRow /\ NoPayment \in PaymentRow /\ NoCase \in CaseRow
  /\ NoLiquidation \in LiquidationRow
  /\ Idle \in Request /\ Targeted(Idle)
<1>1. NoContract \in ContractRow
  BY DEF NoContract, ContractRow, ContractStatus, Roles
<1>2. NoPayment \in PaymentRow
  BY DEF NoPayment, PaymentRow, PaymentStatus
<1>3. NoCase \in CaseRow
  BY DEF NoCase, CaseRow, CaseStatus
<1>4. NoLiquidation \in LiquidationRow
  BY DEF NoLiquidation, LiquidationRow
<1>5. Idle \in Request
  <2>1. "idle" \in Steps /\ "NOTHING" \in Asked
    BY DEF Steps, Asked
  <2> QED BY <1>1, <1>2, <2>1 DEF Idle, Request
<1>6. Targeted(Idle)
  BY DEF Idle, Targeted, ContractSteps, PaymentSteps, CaseSteps, NoContract
<1> QED BY <1>1, <1>2, <1>3, <1>4, <1>5, <1>6

\* A request that is replaced by a well-formed one leaves all of them well-formed.
LEMMA PutType ==
  ASSUME TypeInv, NEW w \in Workers, NEW r \in Request, Targeted(r), Put(w, r)
  PROVE  req' \in [Workers -> Request] /\ RequestsTargeted'
BY DEF TypeInv, TypeOK, RequestsTargeted, Put, Targeted

LEMMA AnswerType ==
  ASSUME TypeInv, NEW w \in Workers, Answer(w)
  PROVE  req' \in [Workers -> Request] /\ RequestsTargeted'
BY PutType, RowTypes DEF Answer

LEMMA GotoType ==
  ASSUME TypeInv, NEW w \in Workers, NEW step \in Steps, Goto(w, step),
         Targeted([req[w] EXCEPT !.step = step])
  PROVE  req' \in [Workers -> Request] /\ RequestsTargeted'
<1>1. [req[w] EXCEPT !.step = step] \in Request
  BY DEF TypeInv, TypeOK, Request
<1> QED BY <1>1, PutType DEF Goto

LEMMA BeginType ==
  ASSUME TypeInv, NEW w \in Workers, NEW op, NEW r \in Request, Targeted(r), Begin(w, op, r)
  PROVE  req' \in [Workers -> Request] /\ RequestsTargeted'
BY PutType DEF Begin

LEMMA TablesUnchanged ==
  ASSUME TypeInv, UNCHANGED tables, req' \in [Workers -> Request] /\ RequestsTargeted'
  PROVE  TypeInv'
BY DEF TypeInv, TypeOK, tables

\* The requests that a handler begins with.
LEMMA ContractRequestType ==
  ASSUME TypeInv, NEW c \in Contracts, NEW step \in Steps
  PROVE  LET r == ContractRequest(step, c)
         IN  r \in Request /\ r.contract = c /\ r.step = step
<1>1. contracts[c] \in ContractRow
  BY DEF TypeInv, TypeOK
<1> QED BY <1>1, RowTypes DEF ContractRequest, Request, Idle

LEMMA PaymentRequestType ==
  ASSUME TypeInv, NEW c \in Contracts, NEW n \in Installments,
         NEW step \in PaymentSteps, NEW amount \in Nat
  PROVE  LET r == PaymentRequest(step, c, n)
             s == [r EXCEPT !.amount = amount]
         IN  r \in Request /\ Targeted(r) /\ s \in Request /\ Targeted(s)
<1>1. payments[c][n] \in PaymentRow
  BY DEF TypeInv, TypeOK
<1>2. step \in Steps /\ step \notin CaseSteps \cup {"approve.write", "status.link", "status.check", "status.swap"}
  BY DEF PaymentSteps, Steps, CaseSteps
<1> DEFINE r == PaymentRequest(step, c, n)
           s == [r EXCEPT !.amount = amount]
<1>3. r \in Request /\ r.step = step /\ r.contract = c /\ r.installment = n
  BY <1>1, <1>2, RowTypes DEF PaymentRequest, Request, Idle
<1> HIDE DEF r
<1>4. s \in Request /\ s.step = step /\ s.contract = c /\ s.installment = n
  BY <1>3 DEF Request
<1> HIDE DEF s
<1>5. Targeted(r) /\ Targeted(s)
  BY <1>2, <1>3, <1>4 DEF Targeted, CaseSteps
<1> QED BY <1>3, <1>4, <1>5 DEF r, s

LEMMA CaseRequestType ==
  ASSUME TypeInv, NEW k \in Cases, NEW step \in Steps
  PROVE  LET r == CaseRequest(step, k)
         IN  r \in Request /\ r.kase = k /\ r.step = step
<1>1. cases[k] \in CaseRow
  BY DEF TypeInv, TypeOK
<1> QED BY <1>1, RowTypes DEF CaseRequest, Request, Idle, CaseRow

\* A write to one or more columns of one contract row.
LEMMA ContractColumns ==
  ASSUME NEW rows \in [Contracts -> ContractRow], NEW c \in Contracts
  PROVE  /\ \A x \in ContractStatus : [rows EXCEPT ![c].status = x] \in [Contracts -> ContractRow]
         /\ \A x \in BOOLEAN : [rows EXCEPT ![c].signed = x] \in [Contracts -> ContractRow]
         /\ \A x \in Nat : [rows EXCEPT ![c].value = x] \in [Contracts -> ContractRow]
         /\ \A x \in Nat : [rows EXCEPT ![c].version = x] \in [Contracts -> ContractRow]
         /\ \A x \in Roles : [rows EXCEPT ![c].approvedBy = x] \in [Contracts -> ContractRow]
BY DEF ContractRow

-----------------------------------------------------------------------------
LEMMA SetStatusType ==
  ASSUME TypeInv, NEW w \in Workers, req[w].contract \in Contracts,
         NEW status \in ContractStatus, SetStatus(w, status)
  PROVE  TypeInv'
<1>1. contracts' \in [Contracts -> ContractRow]
  BY DEF TypeInv, TypeOK, SetStatus, ContractRow
<1> QED BY <1>1, AnswerType DEF TypeInv, TypeOK, SetStatus, OnlyContracts

\* Handlers that begin by reading one contract.
LEMMA ReadContractType ==
  ASSUME TypeInv, NEW w \in Workers, NEW op, NEW c \in Contracts, NEW allowed,
         NEW r \in Request, Targeted(r), ReadContract(w, op, c, allowed, r)
  PROVE  TypeInv'
BY BeginType, TablesUnchanged DEF ReadContract

PlainReads == {"update.write", "submit.write", "reject.write", "send.write", "sign.case", "amend.write"}

LEMMA PlainReadsTargeted ==
  ASSUME NEW r, r.step \in PlainReads, r.contract \in Contracts
  PROVE  Targeted(r)
BY DEF PlainReads, Targeted, PaymentSteps, CaseSteps

LEMMA ContractsType ==
  ASSUME TypeInv, NEW w \in Workers, ContractsNext(w)
  PROVE  TypeInv'
<1> USE DEF PlainReads
<1>a. PlainReads \subseteq Steps /\ {"approve.write", "status.link", "status.check", "status.swap"} \subseteq Steps
  BY DEF Steps
<1>b. Roles \subseteq Asked /\ "NOTHING" \in Asked /\ ContractStatus \subseteq Asked
  BY DEF Asked
<1>c. \A v \in Workers : req[v] \in Request /\ Targeted(req[v])
  BY DEF TypeInv, TypeOK, RequestsTargeted
<1>d. Values \subseteq Nat
  BY MoneyAssumption
<1>1. ASSUME NEW c \in Contracts, NEW v \in Values, Create(w, c, v)
      PROVE  TypeInv'
  <2>1. [NoContract EXCEPT !.status = "DRAFT", !.value = v] \in ContractRow
    BY <1>d, RowTypes DEF ContractRow, ContractStatus
  <2>2. contracts' \in [Contracts -> ContractRow]
    BY <1>1, <2>1 DEF TypeInv, TypeOK, Create
  <2> QED BY <1>1, <2>2 DEF TypeInv, TypeOK, Create, OnlyContracts, RequestsTargeted
<1>2. ASSUME NEW c \in Contracts, NEW v \in Values, UpdateRead(w, c, v)
      PROVE  TypeInv'
  <2> DEFINE r == [ContractRequest("update.write", c) EXCEPT !.amount = v]
  <2>1. r \in Request /\ r.contract = c /\ r.step = "update.write"
    <3>1. LET r0 == ContractRequest("update.write", c)
          IN  r0 \in Request /\ r0.contract = c /\ r0.step = "update.write"
      BY <1>a, ContractRequestType
    <3> QED BY <3>1, <1>d DEF Request
  <2>2. ReadContract(w, "contract.update", c, {"DRAFT"}, r)
    BY <1>2 DEF UpdateRead
  <2> HIDE DEF r
  <2>3. Targeted(r)
    BY <2>1, PlainReadsTargeted
  <2> QED BY <2>1, <2>2, <2>3, ReadContractType
<1>3. ASSUME NEW c \in Contracts, NEW v \in Values, AmendRead(w, c, v)
      PROVE  TypeInv'
  <2> DEFINE r == [ContractRequest("amend.write", c) EXCEPT !.amount = v]
  <2>1. r \in Request /\ r.contract = c /\ r.step = "amend.write"
    <3>1. LET r0 == ContractRequest("amend.write", c)
          IN  r0 \in Request /\ r0.contract = c /\ r0.step = "amend.write"
      BY <1>a, ContractRequestType
    <3> QED BY <3>1, <1>d DEF Request
  <2>2. Begin(w, "contract.amend", r) /\ UNCHANGED tables
    BY <1>3 DEF AmendRead
  <2> HIDE DEF r
  <2>3. Targeted(r)
    BY <2>1, PlainReadsTargeted
  <2> QED BY <2>1, <2>2, <2>3, BeginType, TablesUnchanged
<1>4. ASSUME NEW c \in Contracts, SubmitRead(w, c) \/ SendRead(w, c) \/ SignRead(w, c)
      PROVE  TypeInv'
  <2>1. \A step \in {"submit.write", "send.write", "sign.case"} :
          LET r == ContractRequest(step, c) IN r \in Request /\ r.contract = c /\ r.step = step
    BY <1>a, ContractRequestType
  <2> QED BY <1>4, <2>1, PlainReadsTargeted, ReadContractType DEF SubmitRead, SendRead, SignRead
<1>5. ASSUME NEW c \in Contracts, NEW role \in Roles, ApproveRead(w, c, role)
      PROVE  TypeInv'
  <2> DEFINE r == [ContractRequest("approve.write", c) EXCEPT !.to = role]
  <2>1. r \in Request /\ r.contract = c /\ r.step = "approve.write"
    <3>1. LET r0 == ContractRequest("approve.write", c)
          IN  r0 \in Request /\ r0.contract = c /\ r0.step = "approve.write"
      BY <1>a, ContractRequestType
    <3> QED BY <3>1, <1>b DEF Request
  <2>2. r.to = role
    BY DEF ContractRequest, Idle
  <2>3. Targeted(r)
    BY <2>1, <2>2 DEF Targeted, PaymentSteps, CaseSteps
  <2> QED BY <1>5, <2>1, <2>3, ReadContractType DEF ApproveRead
<1>6. ASSUME NEW c \in Contracts, NEW role \in Roles, RejectRead(w, c, role)
      PROVE  TypeInv'
  <2> DEFINE r == ContractRequest("reject.write", c)
  <2>1. r \in Request /\ r.contract = c /\ r.step = "reject.write"
    BY <1>a, ContractRequestType
  <2> QED BY <1>6, <2>1, PlainReadsTargeted, ReadContractType DEF RejectRead
<1>7. ASSUME NEW c \in Contracts, StatusRead(w, c)
      PROVE  TypeInv'
  <2> DEFINE to == PostSignTransition[contracts[c].status]
             step == IF to \in {"COMPLETED", "LIQUIDATED"} THEN "status.link"
                     ELSE IF to = "ACTIVE" THEN "status.check" ELSE "status.swap"
             r == [ContractRequest("status.swap", c) EXCEPT !.to = to, !.step = step]
  <2>1. to \in ContractStatus
    BY <1>7 DEF StatusRead, ReadContract, PostSignTransition, ContractStatus
  <2>2. r \in Request /\ r.contract = c /\ r.step = step /\ r.to = to
    <3>1. ContractRequest("status.swap", c) \in Request /\ ContractRequest("status.swap", c).contract = c
      BY <1>a, ContractRequestType
    <3>2. step \in Steps /\ to \in Asked
      BY <1>a, <1>b, <2>1
    <3> HIDE DEF to, step
    <3> QED BY <3>1, <3>2 DEF Request
  <2>3. step \in {"status.link", "status.check", "status.swap"}
    OBVIOUS
  <2> HIDE DEF to, step
  <2>4. Targeted(r)
    BY <2>1, <2>2, <2>3 DEF Targeted, PaymentSteps, CaseSteps
  <2>5. ReadContract(w, "contract.status", c, DOMAIN PostSignTransition, r)
    BY <1>7 DEF StatusRead, ContractRequest, to, step
  <2> QED BY <2>2, <2>4, <2>5, ReadContractType
<1>8. ASSUME UpdateWrite(w)
      PROVE  TypeInv'
  <2>1. req[w].contract \in Contracts /\ req[w].amount \in Nat
    BY <1>8, <1>c DEF UpdateWrite, At, Targeted, ContractSteps, Request
  <2>2. contracts' \in [Contracts -> ContractRow]
    BY <1>8, <2>1 DEF UpdateWrite, TypeInv, TypeOK, ContractRow
  <2> QED BY <1>8, <2>2, AnswerType DEF UpdateWrite, TypeInv, TypeOK, OnlyContracts
<1>9. ASSUME SubmitWrite(w) \/ RejectWrite(w) \/ SendWrite(w)
      PROVE  TypeInv'
  <2>1. req[w].contract \in Contracts
    BY <1>9, <1>c DEF SubmitWrite, RejectWrite, SendWrite, At, Targeted, ContractSteps
  <2> QED BY <1>9, <2>1, SetStatusType DEF SubmitWrite, RejectWrite, SendWrite, ContractStatus
<1>10. ASSUME ApproveWrite(w)
       PROVE  TypeInv'
  <2>1. req[w].contract \in Contracts /\ req[w].to \in Roles
    BY <1>10, <1>c DEF ApproveWrite, At, Targeted, ContractSteps
  <2>2. contracts' \in [Contracts -> ContractRow]
    <3>1. /\ contracts \in [Contracts -> ContractRow]
          /\ contracts' = [[contracts EXCEPT ![req[w].contract].status = "APPROVED"]
                             EXCEPT ![req[w].contract].approvedBy = req[w].to]
      BY <1>10 DEF ApproveWrite, TypeInv, TypeOK
    <3> QED BY <2>1, <3>1, ContractColumns DEF ContractStatus
  <2> QED BY <1>10, <2>2, AnswerType DEF ApproveWrite, TypeInv, TypeOK, OnlyContracts
<1>11. ASSUME SignFindCase(w)
       PROVE  TypeInv'
  <2>1. ASSUME NEW k \in ActiveCases, Put(w, [req[w] EXCEPT !.step = "sign.write", !.kase = k])
        PROVE  req' \in [Workers -> Request] /\ RequestsTargeted'
    <3> DEFINE r == [req[w] EXCEPT !.step = "sign.write", !.kase = k]
    <3>1. r \in Request /\ r.step = "sign.write" /\ r.contract = req[w].contract /\ r.kase = k
      BY <1>c, <2>1 DEF Request, Steps, ActiveCases
    <3>2. req[w].contract \in Contracts
      BY <1>11, <1>c DEF SignFindCase, At, Targeted, ContractSteps
    <3>3. Targeted(r)
      BY <2>1, <3>1, <3>2 DEF Targeted, PaymentSteps, ActiveCases
    <3> QED BY <2>1, <3>1, <3>3, PutType
  <2> QED BY <1>11, <2>1, AnswerType, TablesUnchanged DEF SignFindCase
<1>12. ASSUME SignWrite(w)
       PROVE  TypeInv'
  <2>1. req[w].contract \in Contracts /\ req[w].kase \in Cases
    BY <1>12, <1>c DEF SignWrite, At, Targeted, ContractSteps, CaseSteps
  <2>2. contracts' \in [Contracts -> ContractRow]
    <3>1. /\ contracts \in [Contracts -> ContractRow]
          /\ \/ contracts' = contracts
             \/ contracts' = [[contracts EXCEPT ![req[w].contract].status = "SIGNED"]
                                EXCEPT ![req[w].contract].signed = TRUE]
      BY <1>12 DEF SignWrite, TypeInv, TypeOK
    <3>2. "SIGNED" \in ContractStatus
      BY DEF ContractStatus
    <3>3. [contracts EXCEPT ![req[w].contract].status = "SIGNED"] \in [Contracts -> ContractRow]
      BY <2>1, <3>1, <3>2, ContractColumns
    <3> QED BY <2>1, <3>1, <3>3, ContractColumns
  <2>3. cases' \in [Cases -> CaseRow]
    <3>1. [cases[req[w].kase] EXCEPT !.contract = req[w].contract] \in CaseRow
      BY <2>1 DEF TypeInv, TypeOK, CaseRow
    <3>2. \/ cases' = cases
          \/ cases' = [cases EXCEPT ![req[w].kase] = [cases[req[w].kase] EXCEPT !.contract = req[w].contract]]
      BY <1>12 DEF SignWrite
    <3> QED BY <2>1, <3>1, <3>2 DEF TypeInv, TypeOK
  <2> QED BY <1>12, <2>2, <2>3, AnswerType DEF SignWrite, TypeInv, TypeOK
<1>13. ASSUME StatusLink(w) \/ StatusCheck(w)
       PROVE  TypeInv'
  <2>1. req[w].contract \in Contracts /\ req[w].to \in ContractStatus /\ req[w].step \notin PaymentSteps
    BY <1>13, <1>c DEF StatusLink, StatusCheck, At, Targeted, ContractSteps, PaymentSteps
  <2>2. \A step \in {"status.check", "status.swap"} :
          step \in Steps /\ Targeted([req[w] EXCEPT !.step = step])
    BY <1>c, <2>1 DEF Targeted, Steps, PaymentSteps, CaseSteps, Request
  <2> QED BY <1>13, <2>2, AnswerType, GotoType, TablesUnchanged DEF StatusLink, StatusCheck
<1>14. ASSUME StatusSwap(w)
       PROVE  TypeInv'
  <2>1. req[w].contract \in Contracts /\ req[w].to \in ContractStatus
    BY <1>14, <1>c DEF StatusSwap, At, Targeted, ContractSteps
  <2>2. contracts' \in [Contracts -> ContractRow]
    <3>1. /\ contracts \in [Contracts -> ContractRow]
          /\ \/ contracts' = contracts
             \/ contracts' = [contracts EXCEPT ![req[w].contract].status = req[w].to]
      BY <1>14 DEF StatusSwap, TypeInv, TypeOK
    <3> QED BY <2>1, <3>1, ContractColumns
  <2>3. "status.tasks" \in Steps /\ Targeted([req[w] EXCEPT !.step = "status.tasks"])
    BY <1>c, <2>1 DEF Targeted, Steps, PaymentSteps, CaseSteps, Request
  <2>4. req' \in [Workers -> Request] /\ RequestsTargeted'
    BY <1>14, <2>3, AnswerType, GotoType DEF StatusSwap
  <2> QED BY <1>14, <2>2, <2>4 DEF StatusSwap, TypeInv, TypeOK, OnlyContracts
<1>15. ASSUME StatusTasks(w)
       PROVE  TypeInv'
  <2>1. workDone' \in [Cases -> BOOLEAN]
    BY <1>15 DEF StatusTasks, TypeInv, TypeOK
  <2> QED BY <1>15, <2>1, AnswerType DEF StatusTasks, TypeInv, TypeOK
<1>16. ASSUME AmendWrite(w)
       PROVE  TypeInv'
  <2> DEFINE seen == req[w].seenContract
             row == [previousVersion |-> seen.version, newVersion |-> seen.version + 1,
                     before |-> seen.value, after |-> req[w].amount]
  <2>1. req[w].contract \in Contracts /\ req[w].amount \in Nat /\ seen \in ContractRow
    BY <1>16, <1>c DEF AmendWrite, At, Targeted, ContractSteps, Request
  <2>2. row \in AmendmentRow
    BY <2>1 DEF AmendmentRow, ContractRow
  <2>3. contracts' \in [Contracts -> ContractRow]
    <3>1. row.newVersion \in Nat /\ row.after \in Nat /\ contracts \in [Contracts -> ContractRow]
      BY <2>2 DEF AmendmentRow, TypeInv, TypeOK
    <3>2. contracts' = [[contracts EXCEPT ![req[w].contract].version = row.newVersion]
                          EXCEPT ![req[w].contract].value = row.after]
      BY <1>16 DEF AmendWrite
    <3> HIDE DEF row
    <3> QED BY <2>1, <3>1, <3>2, ContractColumns
  <2>4. amendments' \in [Contracts -> Seq(AmendmentRow)]
    <3>1. Append(amendments[req[w].contract], row) \in Seq(AmendmentRow)
      BY <2>1, <2>2 DEF TypeInv, TypeOK
    <3> QED BY <1>16, <2>1, <3>1 DEF AmendWrite, TypeInv, TypeOK
  <2> QED BY <1>16, <2>3, <2>4, AnswerType DEF AmendWrite, TypeInv, TypeOK
<1>17. ASSUME SignLock(w)
       PROVE  TypeInv'
  <2>1. /\ req[w].contract \in Contracts /\ req[w].kase \in Cases
        /\ req[w].step \notin PaymentSteps
    BY <1>17, <1>c DEF SignLock, At, Targeted, ContractSteps, CaseSteps, PaymentSteps
  <2>2. "sign.link" \in Steps /\ Targeted([req[w] EXCEPT !.step = "sign.link"])
    BY <1>c, <2>1 DEF Targeted, Steps, PaymentSteps, Request
  <2> QED BY <1>17, <2>2, GotoType, TablesUnchanged DEF SignLock
<1> QED
  BY <1>1, <1>2, <1>3, <1>4, <1>5, <1>6, <1>7, <1>8, <1>9, <1>10, <1>11, <1>12, <1>13, <1>14,
     <1>15, <1>16, <1>17 DEF ContractsNext

-----------------------------------------------------------------------------
LEMMA WritePaymentType ==
  ASSUME TypeInv, NEW w \in Workers, req[w].step \in PaymentSteps,
         NEW row \in PaymentRow, WritePayment(w, row)
  PROVE  TypeInv'
<1>1. req[w].contract \in Contracts /\ req[w].installment \in Installments
  BY DEF TypeInv, RequestsTargeted, Targeted
<1>2. payments' \in [Contracts -> [Installments -> PaymentRow]]
  BY <1>1 DEF TypeInv, TypeOK, WritePayment
<1> QED BY <1>2, AnswerType DEF TypeInv, TypeOK, WritePayment, OnlyPayments

LEMMA CurrentType ==
  ASSUME TypeInv, NEW w \in Workers, req[w].step \in PaymentSteps
  PROVE  Current(w) \in PaymentRow
BY DEF TypeInv, TypeOK, RequestsTargeted, Targeted, Current

LEMMA SweptType ==
  ASSUME TypeInv, NEW c \in Contracts, NEW due
  PROVE  Swept(c, due) \in [Installments -> PaymentRow]
<1>1. \A n \in Installments : payments[c][n] \in PaymentRow
  BY DEF TypeInv, TypeOK
<1>2. \A n \in Installments : [payments[c][n] EXCEPT !.status = "OVERDUE"] \in PaymentRow
  BY <1>1 DEF PaymentRow, PaymentStatus
<1> QED BY <1>1, <1>2 DEF Swept

LEMMA PaymentsType ==
  ASSUME TypeInv, NEW w \in Workers, PaymentsNext(w)
  PROVE  TypeInv'
<1>a. \A v \in Workers : req[v] \in Request /\ Targeted(req[v])
  BY DEF TypeInv, TypeOK, RequestsTargeted
<1>b. Amounts \subseteq Nat
  BY MoneyAssumption
<1>1. ASSUME NEW c \in Contracts, NEW n \in Installments, NEW amount \in Amounts,
             CreateInstallmentRead(w, c, n, amount)
      PROVE  TypeInv'
  <2> DEFINE r == [Idle EXCEPT !.step = "installment.create", !.contract = c,
                               !.installment = n, !.amount = amount]
  <2>1. /\ r \in Request /\ r.step = "installment.create" /\ r.contract = c /\ r.installment = n
    BY <1>b, RowTypes DEF Request, Steps, Idle
  <2>2. Begin(w, "payment.create", r) /\ UNCHANGED tables
    BY <1>1 DEF CreateInstallmentRead
  <2> HIDE DEF r
  <2>3. Targeted(r)
    BY <2>1 DEF Targeted, CaseSteps
  <2> QED BY <2>1, <2>2, <2>3, BeginType, TablesUnchanged
<1>2. ASSUME NEW c \in Contracts, NEW n \in Installments, NEW amount \in Amounts,
             RecordRead(w, c, n, amount) \/ RefundRead(w, c, n, amount)
      PROVE  TypeInv'
  <2>1. PICK step \in {"record.open", "refund.write"}, op \in {"payment.record", "payment.refund"} :
          /\ Begin(w, op, [PaymentRequest(step, c, n) EXCEPT !.amount = amount])
          /\ UNCHANGED tables
    BY <1>2 DEF RecordRead, RefundRead, ReadPayment
  <2> DEFINE r == [PaymentRequest(step, c, n) EXCEPT !.amount = amount]
  <2>2. r \in Request /\ Targeted(r)
    BY <1>b, PaymentRequestType DEF PaymentSteps
  <2> HIDE DEF r
  <2> QED BY <2>1, <2>2, BeginType, TablesUnchanged DEF r
<1>3. ASSUME NEW c \in Contracts, NEW n \in Installments, WaiveRead(w, c, n)
      PROVE  TypeInv'
  <2> DEFINE r == PaymentRequest("waive.write", c, n)
  <2>1. Begin(w, "payment.waive", r) /\ UNCHANGED tables
    BY <1>3 DEF WaiveRead, ReadPayment
  <2>2. r \in Request /\ Targeted(r)
    BY PaymentRequestType DEF PaymentSteps
  <2> HIDE DEF r
  <2> QED BY <2>1, <2>2, BeginType, TablesUnchanged
<1>4. ASSUME NEW c \in Contracts, NEW due \in SUBSET Installments, SyncOverdueStatus(c, due)
      PROVE  TypeInv'
  <2>1. payments' \in [Contracts -> [Installments -> PaymentRow]]
    BY <1>4, SweptType DEF SyncOverdueStatus, TypeInv, TypeOK
  <2> QED BY <1>4, <2>1 DEF SyncOverdueStatus, OnlyPayments, TypeInv, TypeOK, RequestsTargeted
<1>5. ASSUME CreateInstallment(w)
      PROVE  TypeInv'
  <2>1. [NoPayment EXCEPT !.status = "PENDING", !.amount = req[w].amount] \in PaymentRow
    BY <1>a DEF NoPayment, PaymentRow, PaymentStatus, Request
  <2>2. req[w].step \in PaymentSteps
    BY <1>5 DEF CreateInstallment, At, PaymentSteps
  <2>3. CASE Current(w).status = "ABSENT"
    BY <1>5, <2>1, <2>2, <2>3, WritePaymentType DEF CreateInstallment
  <2>4. CASE Current(w).status # "ABSENT"
    BY <1>5, <2>4, AnswerType, TablesUnchanged DEF CreateInstallment, OnlyPayments, tables
  <2> QED BY <2>3, <2>4
<1>6. ASSUME RecordCheckOpen(w)
      PROVE  TypeInv'
  <2>1. "record.write" \in Steps /\ Targeted([req[w] EXCEPT !.step = "record.write"])
    <3>1. req[w].contract \in Contracts /\ req[w].installment \in Installments
      BY <1>6, <1>a DEF RecordCheckOpen, At, Targeted, PaymentSteps
    <3> QED BY <1>a, <3>1 DEF Targeted, Steps, ContractSteps, CaseSteps, Request
  <2> QED BY <1>6, <2>1, GotoType, AnswerType, TablesUnchanged DEF RecordCheckOpen
<1>7. ASSUME RecordWrite(w)
      PROVE  TypeInv'
  <2> DEFINE paid == req[w].seenPayment.paid + req[w].amount
  <2>a. PICK covered \in AtLeast(paid, req[w].seenPayment.amount) :
          WritePayment(w, [Current(w) EXCEPT !.paid = paid,
                             !.status = IF covered THEN "PAID" ELSE "PARTIALLY_PAID"])
    BY <1>7 DEF RecordWrite
  <2> DEFINE row == [Current(w) EXCEPT !.paid = paid,
                       !.status = IF covered THEN "PAID" ELSE "PARTIALLY_PAID"]
  <2>1. req[w].step \in PaymentSteps /\ WritePayment(w, row)
    BY <1>7, <2>a DEF RecordWrite, At, PaymentSteps
  <2>2. paid \in Nat
    BY <1>a DEF Request, PaymentRow
  <2> HIDE DEF paid
  <2>3. row \in PaymentRow
    BY <2>1, <2>2, CurrentType DEF PaymentRow, PaymentStatus
  <2> HIDE DEF row
  <2> QED BY <2>1, <2>3, WritePaymentType
<1>8. ASSUME RefundWrite(w)
      PROVE  TypeInv'
  <2> DEFINE refunded == req[w].seenPayment.refunded + req[w].amount
  <2>a. PICK all \in AtLeast(refunded, req[w].seenPayment.paid) :
          WritePayment(w, [Current(w) EXCEPT !.refunded = refunded,
                             !.status = IF all THEN "REFUNDED" ELSE @])
    BY <1>8 DEF RefundWrite
  <2> DEFINE row == [Current(w) EXCEPT !.refunded = refunded,
                       !.status = IF all THEN "REFUNDED" ELSE @]
  <2>1. req[w].step \in PaymentSteps /\ WritePayment(w, row)
    BY <1>8, <2>a DEF RefundWrite, At, PaymentSteps
  <2>2. refunded \in Nat
    BY <1>a DEF Request, PaymentRow
  <2> HIDE DEF refunded
  <2>3. row \in PaymentRow
    BY <2>1, <2>2, CurrentType DEF PaymentRow, PaymentStatus
  <2> HIDE DEF row
  <2> QED BY <2>1, <2>3, WritePaymentType
<1>9. ASSUME WaiveWrite(w)
      PROVE  TypeInv'
  <2>1. req[w].step \in PaymentSteps
    BY <1>9 DEF WaiveWrite, At, PaymentSteps
  <2>2. [Current(w) EXCEPT !.status = "WAIVED"] \in PaymentRow
    BY <2>1, CurrentType DEF PaymentRow, PaymentStatus
  <2> QED BY <1>9, <2>1, <2>2, WritePaymentType DEF WaiveWrite
<1> QED
  BY <1>1, <1>2, <1>3, <1>4, <1>5, <1>6, <1>7, <1>8, <1>9 DEF PaymentsNext

-----------------------------------------------------------------------------
LEMMA CasesType ==
  ASSUME TypeInv, NEW w \in Workers, CasesNext(w)
  PROVE  TypeInv'
<1>a. \A v \in Workers : req[v] \in Request /\ Targeted(req[v])
  BY DEF TypeInv, TypeOK, RequestsTargeted
<1>1. ASSUME CreateForStudentRead(w)
      PROVE  TypeInv'
  <2> DEFINE r == [Idle EXCEPT !.step = "case.create"]
  <2>1. r \in Request /\ r.step = "case.create"
    BY RowTypes DEF Request, Steps
  <2>2. Begin(w, "case.create", r) /\ UNCHANGED tables
    BY <1>1 DEF CreateForStudentRead
  <2> HIDE DEF r
  <2>3. Targeted(r)
    BY <2>1 DEF Targeted, ContractSteps, PaymentSteps, CaseSteps
  <2> QED BY <2>1, <2>2, <2>3, BeginType, TablesUnchanged
<1>2. ASSUME CreateForStudentWrite(w)
      PROVE  TypeInv'
  <2>1. [NoCase EXCEPT !.status = "OPEN"] \in CaseRow
    BY RowTypes DEF CaseRow, CaseStatus
  <2>2. cases' \in [Cases -> CaseRow] /\ workDone' \in [Cases -> BOOLEAN]
    BY <1>2, <2>1 DEF CreateForStudentWrite, TypeInv, TypeOK
  <2> QED BY <1>2, <2>2, AnswerType DEF CreateForStudentWrite, OnlyCases, TypeInv, TypeOK
<1>3. ASSUME NEW k \in Cases, NEW to \in CaseStatus, UpdateStatusRead(w, k, to)
      PROVE  TypeInv'
  <2> DEFINE r0 == CaseRequest("caseStatus.write", k)
             r == [r0 EXCEPT !.to = to]
  <2>1. r0 \in Request /\ r0.kase = k /\ r0.step = "caseStatus.write"
    BY CaseRequestType DEF Steps
  <2>2. Begin(w, "case.status", r) /\ UNCHANGED tables
    BY <1>3 DEF UpdateStatusRead
  <2> HIDE DEF r0
  <2>3. r \in Request /\ r.kase = k /\ r.step = "caseStatus.write" /\ r.to = to
    BY <2>1 DEF Request, Asked
  <2> HIDE DEF r
  <2>4. Targeted(r)
    BY <2>3 DEF Targeted, ContractSteps, PaymentSteps
  <2> QED BY <2>2, <2>3, <2>4, BeginType, TablesUnchanged
<1>4. ASSUME UpdateStatusWrite(w)
      PROVE  TypeInv'
  <2>1. req[w].kase \in Cases /\ req[w].to \in CaseStatus
    BY <1>4, <1>a DEF UpdateStatusWrite, At, Targeted, CaseSteps
  <2>2. cases' \in [Cases -> CaseRow]
    BY <1>4, <2>1 DEF UpdateStatusWrite, TypeInv, TypeOK, CaseRow
  <2> QED BY <1>4, <2>2, AnswerType DEF UpdateStatusWrite, OnlyCases, TypeInv, TypeOK
<1>5. ASSUME NEW k \in Cases, WorkChanges(k)
      PROVE  TypeInv'
  BY <1>5 DEF WorkChanges, OnlyCases, TypeInv, TypeOK, RequestsTargeted
<1> QED BY <1>1, <1>2, <1>3, <1>4, <1>5 DEF CasesNext

-----------------------------------------------------------------------------
LEMMA CheckItemType ==
  ASSUME TypeInv, NEW w \in Workers, NEW item \in Checklist, NEW fails \in BOOLEAN,
         At(w, "close.check"), CheckItem(w, item, fails)
  PROVE  req' \in [Workers -> Request] /\ RequestsTargeted'
<1> DEFINE checked == req[w].checked \cup {item}
           failing == req[w].failing \/ fails
           r == [req[w] EXCEPT !.checked = checked, !.failing = failing]
<1>1. req[w] \in Request /\ Targeted(req[w])
  BY DEF TypeInv, TypeOK, RequestsTargeted
<1>2. checked \in SUBSET Checklist /\ failing \in BOOLEAN
  BY <1>1 DEF Request
<1>3. CASE Put(w, r)
  <2> HIDE DEF checked, failing
  <2>1. r \in Request
    BY <1>1, <1>2 DEF Request
  <2>2. Targeted(r)
    BY <1>1 DEF At, Targeted, ContractSteps, PaymentSteps, CaseSteps, Request
  <2> HIDE DEF r
  <2> QED BY <1>3, <2>1, <2>2, PutType
<1>4. CASE Goto(w, "close.begin")
  <2>1. "close.begin" \in Steps /\ Targeted([req[w] EXCEPT !.step = "close.begin"])
    BY <1>1 DEF At, Targeted, Steps, ContractSteps, PaymentSteps, CaseSteps, Request
  <2> QED BY <1>4, <2>1, GotoType
<1>5. CASE Answer(w)
  BY <1>5, AnswerType
<1> QED BY <1>3, <1>4, <1>5 DEF CheckItem

\* A transaction that locks its row and reads the contract of its case.
LEMMA LockAndReadType ==
  ASSUME TypeInv, NEW w \in Workers, req[w].step \in CaseSteps,
         NEW step \in {"close.commit", "finalize.commit"},
         Put(w, [req[w] EXCEPT !.step = step,
                   !.seenContract = IF req[w].linked = None THEN NoContract
                                    ELSE contracts[req[w].linked]])
  PROVE  req' \in [Workers -> Request] /\ RequestsTargeted'
<1> DEFINE row == IF req[w].linked = None THEN NoContract ELSE contracts[req[w].linked]
           r == [req[w] EXCEPT !.step = step, !.seenContract = row]
<1>1. req[w] \in Request /\ req[w].kase \in Cases
  BY DEF TypeInv, TypeOK, RequestsTargeted, Targeted
<1>2. row \in ContractRow /\ (row.status # "ABSENT" => req[w].linked \in Contracts)
  <2>1. req[w].linked \in Contracts \cup {None}
    BY <1>1 DEF Request
  <2>2. NoContract.status = "ABSENT"
    BY DEF NoContract
  <2> QED BY <2>1, <2>2, RowTypes DEF TypeInv, TypeOK
<1> HIDE DEF row
<1>3. r \in Request /\ r.step = step /\ r.kase = req[w].kase /\ r.seenContract = row
        /\ r.linked = req[w].linked
  BY <1>1, <1>2 DEF Request, Steps
<1> HIDE DEF r
<1>4. Targeted(r)
  BY <1>1, <1>2, <1>3 DEF Targeted, ContractSteps, PaymentSteps
<1> QED BY <1>3, <1>4, PutType DEF r, row

LEMMA ClosureType ==
  ASSUME TypeInv, NEW w \in Workers, ClosureNext(w)
  PROVE  TypeInv'
<1>a. \A v \in Workers : req[v] \in Request /\ Targeted(req[v])
  BY DEF TypeInv, TypeOK, RequestsTargeted
<1>1. ASSUME NEW k \in Cases, ConfirmHandoverRead(w, k) \/ CloseRead(w, k)
      PROVE  TypeInv'
  <2>1. PICK step \in {"handover.write", "close.check"}, op \in {"closure.handover", "closure.close"} :
          Begin(w, op, CaseRequest(step, k)) /\ UNCHANGED tables
    BY <1>1 DEF ConfirmHandoverRead, CloseRead, ReadCase
  <2> DEFINE r == CaseRequest(step, k)
  <2>2. r \in Request /\ r.kase = k /\ r.step = step
    BY CaseRequestType DEF Steps
  <2> HIDE DEF r
  <2>3. Targeted(r)
    BY <2>2 DEF Targeted, ContractSteps, PaymentSteps
  <2> QED BY <2>1, <2>2, <2>3, BeginType, TablesUnchanged DEF r
<1>2. ASSUME NEW k \in Cases, NEW party \in Parties, ConfirmRead(w, k, party)
      PROVE  TypeInv'
  <2> DEFINE r0 == CaseRequest("confirm.existing", k)
             r == [r0 EXCEPT !.to = party]
  <2>1. r0 \in Request /\ r0.kase = k /\ r0.step = "confirm.existing"
    BY CaseRequestType DEF Steps
  <2>2. Begin(w, "closure.confirm", r) /\ UNCHANGED tables
    BY <1>2 DEF ConfirmRead, ReadCase
  <2> HIDE DEF r0
  <2>3. r \in Request /\ r.kase = k /\ r.step = "confirm.existing" /\ r.to = party
    BY <2>1 DEF Request, Asked
  <2> HIDE DEF r
  <2>4. Targeted(r)
    BY <2>3 DEF Targeted, ContractSteps, PaymentSteps
  <2> QED BY <2>2, <2>3, <2>4, BeginType, TablesUnchanged
<1>3. ASSUME ConfirmHandoverWrite(w)
      PROVE  TypeInv'
  <2>1. handovers' \in [Cases -> BOOLEAN]
    BY <1>3 DEF ConfirmHandoverWrite, TypeInv, TypeOK
  <2> QED BY <1>3, <2>1, AnswerType DEF ConfirmHandoverWrite, OnlyClosure, TypeInv, TypeOK
<1>4. ASSUME NEW due \in SUBSET Installments, CloseCheckDebt(w, due)
      PROVE  TypeInv'
  <2> DEFINE c == cases[req[w].kase].contract
  <2>1. At(w, "close.check") /\ "DEBT" \in Checklist /\ HasUnresolved(c) \in BOOLEAN
    BY <1>4 DEF CloseCheckDebt, Checklist, HasUnresolved
  <2>2. c \in Contracts \cup {None}
    <3>1. req[w].kase \in Cases
      BY <2>1, <1>a DEF At, Targeted, CaseSteps
    <3> QED BY <3>1 DEF TypeInv, TypeOK, CaseRow
  <2>3. payments' \in [Contracts -> [Installments -> PaymentRow]]
    <3>1. c = None => payments' = payments
      BY <1>4 DEF CloseCheckDebt
    <3>2. c # None => payments' = [payments EXCEPT ![c] = Swept(c, due)]
      BY <1>4 DEF CloseCheckDebt
    <3> HIDE DEF c
    <3> QED BY <2>2, <3>1, <3>2, SweptType DEF TypeInv, TypeOK
  <2>4. req' \in [Workers -> Request] /\ RequestsTargeted'
    <3>1. CheckItem(w, "DEBT", FALSE) \/ CheckItem(w, "DEBT", HasUnresolved(c))
      BY <1>4 DEF CloseCheckDebt
    <3> HIDE DEF c
    <3> QED BY <2>1, <3>1, CheckItemType
  <2> QED BY <1>4, <2>3, <2>4 DEF CloseCheckDebt, OnlyClosure, TypeInv, TypeOK
<1>5. ASSUME CloseCheckRest(w)
      PROVE  TypeInv'
  <2>1. At(w, "close.check") /\ "REST" \in Checklist
    BY <1>5 DEF CloseCheckRest, Checklist
  <2>2. PICK fails \in BOOLEAN : CheckItem(w, "REST", fails)
    BY <1>5 DEF CloseCheckRest
  <2> QED BY <1>5, <2>1, <2>2, CheckItemType, TablesUnchanged DEF CloseCheckRest
<1>6. ASSUME CloseBegin(w)
      PROVE  TypeInv'
  BY <1>6, LockAndReadType, TablesUnchanged DEF CloseBegin, At, CaseSteps
<1>7. ASSUME CloseCommit(w)
      PROVE  TypeInv'
  <2>1. /\ req[w].kase \in Cases
        /\ req[w].seenContract.status = "ACTIVE" => req[w].linked \in Contracts
    BY <1>7, <1>a DEF CloseCommit, At, Targeted, CaseSteps
  <2>2. cases' \in [Cases -> CaseRow]
    <3>1. \/ cases' = cases
          \/ cases' = [cases EXCEPT ![req[w].kase].status = "CLOSED"]
      BY <1>7 DEF CloseCommit
    <3>2. cases \in [Cases -> CaseRow]
      BY DEF TypeInv, TypeOK
    <3>3. [cases EXCEPT ![req[w].kase].status = "CLOSED"] \in [Cases -> CaseRow]
      BY <2>1, <3>2 DEF CaseRow, CaseStatus
    <3> QED BY <3>1, <3>2, <3>3
  <2>3. contracts' \in [Contracts -> ContractRow]
    <3>1. /\ contracts \in [Contracts -> ContractRow]
          /\ \/ contracts' = contracts
             \/ /\ req[w].linked \in Contracts
                /\ contracts' = [contracts EXCEPT ![req[w].linked].status = "COMPLETED"]
      BY <1>7, <2>1 DEF CloseCommit, TypeInv, TypeOK
    <3>2. "COMPLETED" \in ContractStatus
      BY DEF ContractStatus
    <3> QED BY <3>1, <3>2, ContractColumns
  <2> QED BY <1>7, <2>2, <2>3, AnswerType DEF CloseCommit, OnlyClosure, TypeInv, TypeOK
<1>8. ASSUME ConfirmExisting(w)
      PROVE  TypeInv'
  <2>1. "confirm.write" \in Steps /\ Targeted([req[w] EXCEPT !.step = "confirm.write"])
    <3>1. req[w].kase \in Cases /\ req[w].to \in Parties
      BY <1>8, <1>a DEF ConfirmExisting, At, Targeted, CaseSteps
    <3> QED BY <1>a, <3>1 DEF Targeted, Steps, ContractSteps, PaymentSteps, Request
  <2> QED BY <1>8, <2>1, GotoType, AnswerType, TablesUnchanged DEF ConfirmExisting
<1>9. ASSUME ConfirmWrite(w)
      PROVE  TypeInv'
  <2>1. req[w].kase \in Cases /\ req[w].to \in Parties
    BY <1>9, <1>a DEF ConfirmWrite, At, Targeted, CaseSteps
  <2>2. liquidations' \in [Cases -> LiquidationRow]
    BY <1>9, <2>1 DEF ConfirmWrite, TypeInv, TypeOK, LiquidationRow
  <2>3. "finalize.begin" \in Steps /\ Targeted([req[w] EXCEPT !.step = "finalize.begin"])
    BY <1>a, <2>1 DEF Targeted, Steps, ContractSteps, PaymentSteps, Request
  <2>4. req' \in [Workers -> Request] /\ RequestsTargeted'
    BY <1>9, <2>3, GotoType, AnswerType DEF ConfirmWrite
  <2> QED BY <1>9, <2>2, <2>4 DEF ConfirmWrite, OnlyClosure, TypeInv, TypeOK
<1>10. ASSUME FinalizeBegin(w)
       PROVE  TypeInv'
  BY <1>10, LockAndReadType, TablesUnchanged DEF FinalizeBegin, At, CaseSteps
<1>11. ASSUME FinalizeCommit(w)
       PROVE  TypeInv'
  <2>1. /\ req[w].kase \in Cases
        /\ req[w].seenContract.status = "COMPLETED" => req[w].linked \in Contracts
    BY <1>11, <1>a DEF FinalizeCommit, At, Targeted, CaseSteps
  <2>2. liquidations' \in [Cases -> LiquidationRow]
    BY <1>11, <2>1 DEF FinalizeCommit, TypeInv, TypeOK, LiquidationRow
  <2>3. contracts' \in [Contracts -> ContractRow]
    <3>1. /\ contracts \in [Contracts -> ContractRow]
          /\ \/ contracts' = contracts
             \/ /\ req[w].linked \in Contracts
                /\ contracts' = [contracts EXCEPT ![req[w].linked].status = "LIQUIDATED"]
      BY <1>11, <2>1 DEF FinalizeCommit, TypeInv, TypeOK
    <3>2. "LIQUIDATED" \in ContractStatus
      BY DEF ContractStatus
    <3> QED BY <3>1, <3>2, ContractColumns
  <2> QED BY <1>11, <2>2, <2>3, AnswerType DEF FinalizeCommit, OnlyClosure, TypeInv, TypeOK
<1> QED
  BY <1>1, <1>2, <1>3, <1>4, <1>5, <1>6, <1>7, <1>8, <1>9, <1>10, <1>11 DEF ClosureNext

-----------------------------------------------------------------------------
LEMMA TypeInit == Init => TypeInv
<1> SUFFICES ASSUME Init PROVE TypeInv
  OBVIOUS
<1>1. \A v \in Values : SignedContract(v) \in ContractRow
  BY RowTypes, MoneyAssumption DEF SignedContract, ContractRow, ContractStatus, Roles
<1>2. \A c \in Contracts : [status |-> "OPEN", contract |-> c] \in CaseRow
  BY DEF CaseRow, CaseStatus
<1>3. contracts \in [Contracts -> ContractRow]
  BY <1>1, RowTypes DEF Init, InitRows
<1>4. cases \in [Cases -> CaseRow]
  BY <1>2, RowTypes DEF Init, InitRows
<1> QED BY <1>3, <1>4, RowTypes DEF Init, TypeInv, TypeOK, RequestsTargeted

LEMMA TypeCrash ==
  ASSUME TypeInv, Crash
  PROVE  TypeInv'
BY RowTypes DEF TypeInv, TypeOK, Crash, tables, RequestsTargeted

LEMMA TypeStep ==
  ASSUME TypeInv, [Next]_vars
  PROVE  TypeInv'
<1>1. CASE UNCHANGED vars
  BY <1>1 DEF TypeInv, TypeOK, RequestsTargeted, vars
<1> QED BY <1>1, ContractsType, PaymentsType, CasesType, ClosureType, TypeCrash DEF Next

THEOREM TypeInvariant == Spec => []TypeInv
BY TypeInit, TypeStep, PTL DEF Spec

\* Every row and every request is well-typed in every reachable state, for any
\* number of overlapping requests, contracts, cases and installments: no
\* handler writes a row whose id it does not hold (CrmStore, all services).
THEOREM TypeCorrect == Spec => []TypeOK
BY TypeInvariant, PTL DEF TypeInv

-----------------------------------------------------------------------------
(***************************************************************************)
(* Closing a case and liquidating its contract.  The handover precedes     *)
(* both, and the liquidation rows implement the two-party agreement.       *)
(*                                                                         *)
(* The handlers act on what they checked earlier, so the invariant speaks  *)
(* of requests under way: one that may still close a case, or confirm for  *)
(* a party, has a case whose handover is done, and one that may finalize   *)
(* has a case both parties confirmed.  What makes it inductive is that     *)
(* handovers and confirmations are never taken back.                       *)
(***************************************************************************)

Finalizing == {"finalize.begin", "finalize.commit"}
Watched == {"close.check", "close.begin", "close.commit", "confirm.existing", "confirm.write",
            "caseStatus.write"} \cup Finalizing

\* What a request in progress relies on.
Grounded(r) ==
  /\ r.step \in {"close.begin", "close.commit", "confirm.existing", "confirm.write"}
       => handovers[r.kase]
  /\ r.step = "close.check" /\ "REST" \in r.checked /\ ~r.failing => handovers[r.kase]
  /\ r.step = "caseStatus.write" => r.to # "CLOSED"
  /\ r.step \in Finalizing => liquidations[r.kase].confirmed = Parties

ClosureInv == ClosureFollowsHandover /\ \A w \in Workers : Grounded(req[w])

\* A step of worker w that none of this depends on.
Quiet(w) ==
  /\ UNCHANGED <<handovers, liquidations>>
  /\ \A k \in Cases : cases'[k].status = cases[k].status
  /\ \A v \in Workers \ {w} : req'[v] = req[v]
  /\ req'[w] = req[w] \/ req'[w].step \notin Watched

LEMMA QuietStep ==
  ASSUME ClosureInv, NEW w \in Workers, Quiet(w)
  PROVE  ClosureInv'
BY DEF ClosureInv, ClosureFollowsHandover, Grounded, Quiet, Watched

LEMMA AnswerQuiet ==
  ASSUME TypeInv, NEW w \in Workers, Answer(w)
  PROVE  /\ \A v \in Workers \ {w} : req'[v] = req[v]
         /\ req'[w].step \notin Watched
BY DEF TypeInv, TypeOK, Answer, Put, Idle, Watched, Finalizing

LEMMA PutQuiet ==
  ASSUME TypeInv, NEW w \in Workers, NEW r, Put(w, r)
  PROVE  req'[w] = r /\ \A v \in Workers \ {w} : req'[v] = req[v]
BY DEF TypeInv, TypeOK, Put

LEMMA ContractsQuiet ==
  ASSUME TypeInv, NEW w \in Workers, ContractsNext(w)
  PROVE  Quiet(w)
<1> USE DEF Watched, Finalizing
<1>1. ASSUME NEW c \in Contracts, NEW v \in Values, Create(w, c, v)
      PROVE  Quiet(w)
  BY <1>1 DEF Create, OnlyContracts, Quiet
<1>2. ASSUME NEW r, Put(w, r), r.step \notin Watched, UNCHANGED <<cases, handovers, liquidations>>
      PROVE  Quiet(w)
  BY <1>2, PutQuiet DEF Quiet
<1>3. ASSUME NEW c \in Contracts, NEW v \in Values, UpdateRead(w, c, v) \/ AmendRead(w, c, v)
      PROVE  Quiet(w)
  BY <1>3, <1>2 DEF UpdateRead, AmendRead, ReadContract, Begin, ContractRequest, Idle, tables
<1>4. ASSUME NEW c \in Contracts, SubmitRead(w, c) \/ SendRead(w, c) \/ SignRead(w, c)
      PROVE  Quiet(w)
  BY <1>4, <1>2 DEF SubmitRead, SendRead, SignRead, ReadContract, Begin, ContractRequest, Idle, tables
<1>5. ASSUME NEW c \in Contracts, StatusRead(w, c)
      PROVE  Quiet(w)
  BY <1>5, <1>2 DEF StatusRead, ReadContract, Begin, ContractRequest, Idle, tables
<1>6. ASSUME NEW c \in Contracts, NEW role \in Roles, ApproveRead(w, c, role) \/ RejectRead(w, c, role)
      PROVE  Quiet(w)
  BY <1>6, <1>2 DEF ApproveRead, RejectRead, ReadContract, Begin, ContractRequest, Idle, tables
<1>7. ASSUME Answer(w), UNCHANGED <<cases, handovers, liquidations>>
      PROVE  Quiet(w)
  BY <1>7, AnswerQuiet DEF Quiet
<1>8. ASSUME NEW step \in Steps \ Watched, Goto(w, step), UNCHANGED <<cases, handovers, liquidations>>
      PROVE  Quiet(w)
  <2>1. [req[w] EXCEPT !.step = step].step = step
    BY DEF TypeInv, TypeOK, Request
  <2> QED BY <1>8, <1>2, <2>1 DEF Goto
<1>9. ASSUME UpdateWrite(w) \/ SubmitWrite(w) \/ ApproveWrite(w) \/ RejectWrite(w) \/ SendWrite(w)
               \/ StatusTasks(w) \/ AmendWrite(w)
      PROVE  Quiet(w)
  BY <1>9, <1>7 DEF UpdateWrite, SubmitWrite, ApproveWrite, RejectWrite, SendWrite, SetStatus,
                    StatusTasks, AmendWrite, OnlyContracts
<1>10. ASSUME SignFindCase(w)
       PROVE  Quiet(w)
  <2>1. \A k : [req[w] EXCEPT !.step = "sign.write", !.kase = k].step = "sign.write"
    BY DEF TypeInv, TypeOK, Request
  <2> QED BY <1>10, <1>2, <1>7, <2>1 DEF SignFindCase, tables
<1>11. ASSUME SignWrite(w)
       PROVE  Quiet(w)
  <2>1. \A k \in Cases : cases'[k].status = cases[k].status
    <3>1. \/ cases' = cases
          \/ cases' = [cases EXCEPT ![req[w].kase] = [cases[req[w].kase] EXCEPT !.contract = req[w].contract]]
      BY <1>11 DEF SignWrite
    <3>2. req[w].kase \in Cases /\ cases \in [Cases -> CaseRow]
      BY <1>11 DEF SignWrite, At, TypeInv, TypeOK, RequestsTargeted, Targeted, CaseSteps
    <3>3. [cases[req[w].kase] EXCEPT !.contract = req[w].contract].status = cases[req[w].kase].status
      BY <3>2 DEF CaseRow
    <3> QED BY <3>1, <3>2, <3>3
  <2> QED BY <1>11, <2>1, AnswerQuiet DEF SignWrite, Quiet
<1>12. ASSUME StatusLink(w) \/ StatusCheck(w) \/ StatusSwap(w)
       PROVE  Quiet(w)
  <2>1. {"status.check", "status.swap", "status.tasks"} \subseteq Steps \ Watched
    BY DEF Steps
  <2> QED BY <1>12, <1>7, <1>8, <2>1 DEF StatusLink, StatusCheck, StatusSwap, OnlyContracts, tables
<1>13. ASSUME SignLock(w)
       PROVE  Quiet(w)
  BY <1>13, <1>8 DEF SignLock, Steps, tables
<1> QED BY <1>1, <1>3, <1>4, <1>5, <1>6, <1>9, <1>10, <1>11, <1>12, <1>13 DEF ContractsNext

LEMMA PaymentsQuiet ==
  ASSUME TypeInv, NEW w \in Workers, PaymentsNext(w)
  PROVE  Quiet(w)
<1> USE DEF Watched, Finalizing
<1>1. ASSUME NEW r, Put(w, r), r.step \notin Watched, UNCHANGED <<cases, handovers, liquidations>>
      PROVE  Quiet(w)
  BY <1>1, PutQuiet DEF Quiet
<1>2. ASSUME Answer(w), UNCHANGED <<cases, handovers, liquidations>>
      PROVE  Quiet(w)
  BY <1>2, AnswerQuiet DEF Quiet
<1>3. ASSUME NEW c \in Contracts, NEW n \in Installments, NEW amount \in Amounts,
             CreateInstallmentRead(w, c, n, amount) \/ RecordRead(w, c, n, amount)
               \/ RefundRead(w, c, n, amount) \/ WaiveRead(w, c, n)
      PROVE  Quiet(w)
  BY <1>3, <1>1 DEF CreateInstallmentRead, RecordRead, RefundRead, WaiveRead, ReadPayment, Begin,
                    PaymentRequest, Idle, tables
<1>4. ASSUME NEW c \in Contracts, NEW n \in Installments, WaiveRead(w, c, n)
      PROVE  Quiet(w)
  BY <1>4, <1>1 DEF WaiveRead, ReadPayment, Begin, PaymentRequest, Idle, tables
<1>5. ASSUME NEW c \in Contracts, NEW due \in SUBSET Installments, SyncOverdueStatus(c, due)
      PROVE  Quiet(w)
  BY <1>5 DEF SyncOverdueStatus, OnlyPayments, Quiet
<1>6. ASSUME CreateInstallment(w) \/ RecordWrite(w) \/ RefundWrite(w) \/ WaiveWrite(w)
      PROVE  Quiet(w)
  BY <1>6, <1>2 DEF CreateInstallment, RecordWrite, RefundWrite, WaiveWrite, WritePayment, OnlyPayments
<1>7. ASSUME RecordCheckOpen(w)
      PROVE  Quiet(w)
  <2>1. [req[w] EXCEPT !.step = "record.write"].step = "record.write"
    BY DEF TypeInv, TypeOK, Request
  <2> QED BY <1>7, <1>1, <1>2, <2>1 DEF RecordCheckOpen, Goto, tables
<1> QED BY <1>3, <1>4, <1>5, <1>6, <1>7 DEF PaymentsNext

-----------------------------------------------------------------------------
\* The remaining steps change only the request of w besides the row they write.
LEMMA OneRequest ==
  ASSUME TypeInv, ClosureInv, NEW w \in Workers, NEW r, Put(w, r),
         UNCHANGED <<cases, handovers, liquidations>>, Grounded(r)
  PROVE  ClosureInv'
BY PutQuiet DEF ClosureInv, ClosureFollowsHandover, Grounded

LEMMA CasesPreserve ==
  ASSUME TypeInv, ClosureInv, NEW w \in Workers, CasesNext(w)
  PROVE  ClosureInv'
<1> USE DEF Watched, Finalizing
<1>a. req[w] \in Request /\ Targeted(req[w]) /\ Grounded(req[w])
  BY DEF TypeInv, TypeOK, RequestsTargeted, ClosureInv
<1>1. ASSUME CreateForStudentRead(w)
      PROVE  ClosureInv'
  <2>1. Grounded([Idle EXCEPT !.step = "case.create"])
    BY DEF Idle, Grounded
  <2> QED BY <1>1, <2>1, OneRequest DEF CreateForStudentRead, Begin, tables
<1>2. ASSUME CreateForStudentWrite(w)
      PROVE  ClosureInv'
  <2>1. \A k \in Cases : cases'[k].status = "CLOSED" => cases[k].status = "CLOSED"
    BY <1>2 DEF CreateForStudentWrite, TypeInv, TypeOK, NoCase
  <2> QED BY <1>2, <2>1, AnswerQuiet
          DEF CreateForStudentWrite, OnlyCases, ClosureInv, ClosureFollowsHandover, Grounded
<1>3. ASSUME NEW k \in Cases, NEW to \in CaseStatus, UpdateStatusRead(w, k, to)
      PROVE  ClosureInv'
  <2> DEFINE r == [CaseRequest("caseStatus.write", k) EXCEPT !.to = to]
  <2>1. to # "CLOSED"
    BY <1>3 DEF UpdateStatusRead, CASE_TRANSITIONS, TypeInv, TypeOK, CaseRow, CaseStatus
  <2>2. Grounded(r)
    BY <2>1 DEF Grounded, CaseRequest, Idle
  <2> QED BY <1>3, <2>2, OneRequest DEF UpdateStatusRead, Begin, tables
<1>4. ASSUME UpdateStatusWrite(w)
      PROVE  ClosureInv'
  <2>1. req[w].kase \in Cases /\ req[w].to # "CLOSED"
    BY <1>4, <1>a DEF UpdateStatusWrite, At, Targeted, CaseSteps, Grounded
  <2>2. \A k \in Cases : cases'[k].status = "CLOSED" => cases[k].status = "CLOSED"
    BY <1>4, <2>1 DEF UpdateStatusWrite, TypeInv, TypeOK, CaseRow
  <2> QED BY <1>4, <2>2, AnswerQuiet
          DEF UpdateStatusWrite, OnlyCases, ClosureInv, ClosureFollowsHandover, Grounded
<1>5. ASSUME NEW k \in Cases, WorkChanges(k)
      PROVE  ClosureInv'
  BY <1>5 DEF WorkChanges, OnlyCases, ClosureInv, ClosureFollowsHandover, Grounded
<1> QED BY <1>1, <1>2, <1>3, <1>4, <1>5 DEF CasesNext

-----------------------------------------------------------------------------
LEMMA CheckItemPreserves ==
  ASSUME TypeInv, ClosureInv, NEW w \in Workers, At(w, "close.check"),
         NEW item \in Checklist, NEW fails \in BOOLEAN, CheckItem(w, item, fails),
         item = "REST" /\ ~fails => handovers[req[w].kase],
         UNCHANGED <<cases, handovers, liquidations>>
  PROVE  ClosureInv'
<1> DEFINE checked == req[w].checked \cup {item}
           failing == req[w].failing \/ fails
           r == [req[w] EXCEPT !.checked = checked, !.failing = failing]
<1>1. req[w] \in Request /\ req[w].step = "close.check" /\ Grounded(req[w])
  BY DEF TypeInv, TypeOK, ClosureInv, At
<1>2. ~failing /\ "REST" \in checked => handovers[req[w].kase]
  BY <1>1 DEF Grounded, Checklist
<1>3. CASE Put(w, r)
  <2> HIDE DEF checked, failing
  <2>1. r.step = "close.check" /\ r.kase = req[w].kase /\ r.checked = checked /\ r.failing = failing
    BY <1>1 DEF Request
  <2> HIDE DEF r
  <2>2. Grounded(r)
    BY <1>2, <2>1 DEF Grounded, Finalizing
  <2> QED BY <1>3, <2>2, OneRequest
<1>4. CASE ~failing /\ checked = Checklist /\ Goto(w, "close.begin")
  <2> DEFINE s == [req[w] EXCEPT !.step = "close.begin"]
  <2>1. s.step = "close.begin" /\ s.kase = req[w].kase /\ Put(w, s)
    BY <1>1, <1>4 DEF Request, Goto
  <2>2. handovers[req[w].kase]
    BY <1>2, <1>4 DEF Checklist
  <2> HIDE DEF s
  <2>3. Grounded(s)
    BY <2>1, <2>2 DEF Grounded, Finalizing
  <2> QED BY <2>1, <2>3, OneRequest
<1>5. CASE Answer(w)
  BY <1>5, AnswerQuiet, QuietStep DEF Quiet
<1> QED BY <1>3, <1>4, <1>5 DEF CheckItem

\* The second step of a transaction keeps the case of the first.
LEMMA LockAndReadPreserves ==
  ASSUME TypeInv, ClosureInv, NEW w \in Workers, UNCHANGED <<cases, handovers, liquidations>>,
         NEW step, NEW row, Put(w, [req[w] EXCEPT !.step = step, !.seenContract = row]),
         \/ At(w, "close.begin") /\ step = "close.commit"
         \/ At(w, "finalize.begin") /\ step = "finalize.commit"
  PROVE  ClosureInv'
<1> DEFINE r == [req[w] EXCEPT !.step = step, !.seenContract = row]
<1>1. r.step = step /\ r.kase = req[w].kase
  BY DEF TypeInv, TypeOK, Request
<1>2. Grounded(req[w])
  BY DEF ClosureInv
<1> HIDE DEF r
<1>3. Grounded(r)
  BY <1>1, <1>2 DEF Grounded, At, Finalizing
<1> QED BY <1>3, OneRequest DEF r

LEMMA ClosurePreserves ==
  ASSUME TypeInv, ClosureInv, NEW w \in Workers, ClosureNext(w)
  PROVE  ClosureInv'
<1>a. req[w] \in Request /\ Targeted(req[w]) /\ Grounded(req[w])
  BY DEF TypeInv, TypeOK, RequestsTargeted, ClosureInv
<1>b. ASSUME Answer(w), UNCHANGED <<handovers, liquidations>>,
             \A k \in Cases : cases'[k].status = "CLOSED" => cases[k].status = "CLOSED" \/ handovers[k]
      PROVE  ClosureInv'
  BY <1>b, AnswerQuiet DEF ClosureInv, ClosureFollowsHandover, Grounded, Watched
<1>1. ASSUME NEW k \in Cases, ConfirmHandoverRead(w, k) \/ CloseRead(w, k)
      PROVE  ClosureInv'
  <2>1. PICK step \in {"handover.write", "close.check"} :
          Put(w, CaseRequest(step, k)) /\ UNCHANGED tables
    BY <1>1 DEF ConfirmHandoverRead, CloseRead, ReadCase, Begin
  <2>2. Grounded(CaseRequest(step, k))
    BY DEF Grounded, CaseRequest, Idle, Finalizing
  <2> QED BY <2>1, <2>2, OneRequest DEF tables
<1>2. ASSUME NEW k \in Cases, NEW party \in Parties, ConfirmRead(w, k, party)
      PROVE  ClosureInv'
  <2> DEFINE r == [CaseRequest("confirm.existing", k) EXCEPT !.to = party]
  <2>1. handovers[k]
    BY <1>2 DEF ConfirmRead, ReadCase, ClosureInv, ClosureFollowsHandover
  <2>2. Grounded(r)
    BY <2>1 DEF Grounded, CaseRequest, Idle, Finalizing
  <2> QED BY <1>2, <2>2, OneRequest DEF ConfirmRead, ReadCase, Begin, tables
<1>3. ASSUME ConfirmHandoverWrite(w)
      PROVE  ClosureInv'
  <2>1. \A k \in Cases : handovers[k] => handovers'[k]
    BY <1>3 DEF ConfirmHandoverWrite, TypeInv, TypeOK
  <2> QED BY <1>3, <2>1, AnswerQuiet DEF ConfirmHandoverWrite, OnlyClosure, ClosureInv,
            ClosureFollowsHandover, Grounded, Watched, RequestsTargeted, Targeted, TypeInv, CaseSteps,
            Finalizing
<1>4. ASSUME NEW due \in SUBSET Installments, CloseCheckDebt(w, due)
      PROVE  ClosureInv'
  <2>1. PICK fails \in BOOLEAN : CheckItem(w, "DEBT", fails)
    BY <1>4 DEF CloseCheckDebt, HasUnresolved
  <2> QED BY <1>4, <2>1, CheckItemPreserves DEF CloseCheckDebt, Checklist
<1>5. ASSUME CloseCheckRest(w)
      PROVE  ClosureInv'
  <2> DEFINE fails == ~(workDone[req[w].kase] /\ handovers[req[w].kase])
  <2>1. At(w, "close.check") /\ CheckItem(w, "REST", fails) /\ UNCHANGED tables
    BY <1>5 DEF CloseCheckRest
  <2>2. fails \in BOOLEAN /\ (~fails => handovers[req[w].kase])
    OBVIOUS
  <2> HIDE DEF fails
  <2> QED BY <2>1, <2>2, CheckItemPreserves DEF Checklist, tables
<1>6. ASSUME CloseBegin(w) \/ FinalizeBegin(w)
      PROVE  ClosureInv'
  BY <1>6, LockAndReadPreserves DEF CloseBegin, FinalizeBegin, tables
<1>7. ASSUME CloseCommit(w)
      PROVE  ClosureInv'
  <2>1. handovers[req[w].kase]
    BY <1>7, <1>a DEF CloseCommit, At, Grounded
  <2>2. \A k \in Cases : cases'[k].status = "CLOSED" => cases[k].status = "CLOSED" \/ handovers[k]
    BY <1>7, <2>1 DEF CloseCommit, TypeInv, TypeOK
  <2> QED BY <1>7, <2>2, <1>b DEF CloseCommit
<1>8. ASSUME ConfirmExisting(w)
      PROVE  ClosureInv'
  <2> DEFINE r == [req[w] EXCEPT !.step = "confirm.write"]
  <2>1. r.step = "confirm.write" /\ r.kase = req[w].kase
    BY <1>a DEF Request
  <2>2. Grounded(r)
    BY <1>8, <1>a, <2>1 DEF ConfirmExisting, At, Grounded, Finalizing
  <2>3. CASE Answer(w)
    BY <1>8, <2>3, <1>b DEF ConfirmExisting, tables
  <2>4. CASE Put(w, r)
    BY <1>8, <2>2, <2>4, OneRequest DEF ConfirmExisting, tables
  <2> QED BY <1>8, <2>3, <2>4 DEF ConfirmExisting, Goto
<1>9. ASSUME ConfirmWrite(w)
      PROVE  ClosureInv'
  <2> DEFINE k == req[w].kase
             confirmed == liquidations[k].confirmed \cup {req[w].to}
             r == [req[w] EXCEPT !.step = "finalize.begin"]
  <2>1. k \in Cases /\ req[w].to \in Parties /\ handovers[k]
    BY <1>9, <1>a DEF ConfirmWrite, At, Targeted, CaseSteps, Grounded
  <2>2. /\ liquidations'[k].confirmed = confirmed
        /\ \A j \in Cases \ {k} : liquidations'[j] = liquidations[j]
    BY <1>9, <2>1 DEF ConfirmWrite, TypeInv, TypeOK, LiquidationRow
  <2>3. /\ confirmed \subseteq Parties
        /\ liquidations[k].confirmed = Parties => confirmed = Parties
    BY <2>1 DEF TypeInv, TypeOK, LiquidationRow
  <2>4. \A v \in Workers \ {w} : req'[v] = req[v] /\ Grounded(req[v])' 
    <3>1. \A v \in Workers \ {w} : req'[v] = req[v]
      BY <1>9, AnswerQuiet, PutQuiet DEF ConfirmWrite, Goto
    <3>2. \A v \in Workers : req[v].step \in Finalizing => req[v].kase \in Cases
      BY DEF TypeInv, RequestsTargeted, Targeted, CaseSteps, Finalizing
    <3>3. \A v \in Workers : req[v].step \in Finalizing
                               => liquidations'[req[v].kase].confirmed = Parties
      <4> HIDE DEF confirmed, k
      <4> QED BY <2>2, <2>3, <3>2 DEF ClosureInv, Grounded
    <3> QED BY <1>9, <3>1, <3>3 DEF ConfirmWrite, OnlyClosure, ClosureInv, Grounded
  <2>5. Grounded(req[w])'
    <3>1. CASE Answer(w)
      BY <3>1, AnswerQuiet DEF Grounded, Watched
    <3>2. CASE confirmed = Parties /\ Put(w, r)
      <4>1. req'[w] = r /\ r.step = "finalize.begin" /\ r.kase = k
        BY <3>2, <1>a, PutQuiet DEF Request
      <4> HIDE DEF r, k, confirmed
      <4> QED BY <4>1, <3>2, <2>2 DEF Grounded, Finalizing
    <3> QED BY <1>9, <3>1, <3>2 DEF ConfirmWrite, Goto
  <2>6. ClosureFollowsHandover'
    <3> HIDE DEF confirmed, k
    <3> QED BY <1>9, <2>1, <2>2 DEF ConfirmWrite, OnlyClosure, ClosureInv, ClosureFollowsHandover
  <2> QED BY <2>4, <2>5, <2>6 DEF ClosureInv
<1>10. ASSUME FinalizeCommit(w)
       PROVE  ClosureInv'
  <2>1. \A k \in Cases : liquidations'[k].confirmed = liquidations[k].confirmed
    BY <1>10 DEF FinalizeCommit, TypeInv, TypeOK, LiquidationRow
  <2> QED BY <1>10, <2>1, AnswerQuiet DEF FinalizeCommit, OnlyClosure, ClosureInv,
            ClosureFollowsHandover, Grounded, Watched, RequestsTargeted, Targeted, TypeInv, CaseSteps,
            Finalizing
<1> QED
  BY <1>1, <1>2, <1>3, <1>4, <1>5, <1>6, <1>7, <1>8, <1>9, <1>10 DEF ClosureNext

-----------------------------------------------------------------------------
LEMMA ClosureInit == Init => ClosureInv
<1> SUFFICES ASSUME Init PROVE ClosureInv
  OBVIOUS
<1>1. \A k \in Cases : cases[k].status # "CLOSED"
  BY DEF Init, InitRows, NoCase
<1>2. \A k \in Cases : liquidations[k].confirmed = {}
  BY DEF Init, NoLiquidation
<1>3. \A w \in Workers : req[w].step = "idle"
  BY DEF Init, Idle
<1> QED BY <1>1, <1>2, <1>3 DEF ClosureInv, ClosureFollowsHandover, Grounded, Finalizing

LEMMA ClosureStep ==
  ASSUME TypeInv, ClosureInv, [Next]_vars
  PROVE  ClosureInv'
<1>1. CASE UNCHANGED vars
  BY <1>1 DEF vars, ClosureInv, ClosureFollowsHandover, Grounded
<1>2. CASE Crash
  BY <1>2 DEF Crash, tables, ClosureInv, ClosureFollowsHandover, Grounded, Idle, Finalizing
<1>3. ASSUME NEW w \in Workers,
             ContractsNext(w) \/ PaymentsNext(w) \/ CasesNext(w) \/ ClosureNext(w)
      PROVE  ClosureInv'
  BY <1>3, ContractsQuiet, PaymentsQuiet, QuietStep, CasesPreserve, ClosurePreserves
<1> QED BY <1>1, <1>2, <1>3 DEF Next

THEOREM ClosureInvariant == Spec => [](TypeInv /\ ClosureInv)
<1>1. Init => TypeInv /\ ClosureInv
  BY TypeInit, ClosureInit
<1>2. TypeInv /\ ClosureInv /\ [Next]_vars => (TypeInv /\ ClosureInv)'
  BY TypeStep, ClosureStep
<1> QED BY <1>1, <1>2, PTL DEF Spec

\* However many requests overlap and wherever the server dies, a case is CLOSED,
\* and a party's confirmation recorded, only after its documents were handed
\* over (closure.service.ts:124-134, 171).
THEOREM HandoverComesFirst == Spec => []ClosureFollowsHandover
BY ClosureInvariant, PTL DEF ClosureInv

-----------------------------------------------------------------------------
LEMMA AgreementInit == Init => Agreement!Init
<1> SUFFICES ASSUME Init PROVE Agreement!Init
  OBVIOUS
<1>1. \A k \in Cases : liquidations[k].confirmed = {} /\ (liquidations[k].status = "LIQUIDATED") = FALSE
  BY DEF Init, NoLiquidation
<1> QED BY <1>1 DEF Agreement!Init

LEMMA AgreementStep ==
  ASSUME TypeInv, ClosureInv, [Next]_vars
  PROVE  [Agreement!Next]_<<[k \in Cases |-> liquidations[k].confirmed],
                            [k \in Cases |-> liquidations[k].status = "LIQUIDATED"]>>
<1> DEFINE confirmed == [k \in Cases |-> liquidations[k].confirmed]
           final == [k \in Cases |-> liquidations[k].status = "LIQUIDATED"]
<1>a. \A v \in Workers : Targeted(req[v]) /\ Grounded(req[v])
  BY DEF TypeInv, RequestsTargeted, ClosureInv
<1>b. liquidations \in [Cases -> LiquidationRow]
  BY DEF TypeInv, TypeOK
<1>1. CASE UNCHANGED liquidations
  BY <1>1
<1>2. ASSUME NEW w \in Workers, ConfirmWrite(w)
      PROVE  Agreement!Next
  <2> DEFINE k == req[w].kase
             p == req[w].to
  <2>1. k \in Cases /\ p \in Parties
    BY <1>2, <1>a DEF ConfirmWrite, At, Targeted, CaseSteps
  <2>2. liquidations' = [liquidations EXCEPT ![k].confirmed = liquidations[k].confirmed \cup {p}]
    BY <1>2 DEF ConfirmWrite
  <2> HIDE DEF k, p
  <2>3. confirmed' = [confirmed EXCEPT ![k] = @ \cup {p}] /\ final' = final
    BY <1>b, <2>1, <2>2 DEF LiquidationRow
  <2> QED BY <2>1, <2>3 DEF Agreement!Next, Agreement!Confirm
<1>3. ASSUME NEW w \in Workers, FinalizeCommit(w)
      PROVE  Agreement!Next
  <2> DEFINE k == req[w].kase
  <2>1. k \in Cases /\ liquidations[k].confirmed = Parties
    BY <1>3, <1>a DEF FinalizeCommit, At, Targeted, CaseSteps, Grounded, Finalizing
  <2>2. liquidations' = [liquidations EXCEPT ![k].status = "LIQUIDATED"]
    BY <1>3 DEF FinalizeCommit
  <2> HIDE DEF k
  <2>3. confirmed' = confirmed /\ final' = [final EXCEPT ![k] = TRUE] /\ confirmed[k] = Parties
    BY <1>b, <2>1, <2>2 DEF LiquidationRow
  <2> QED BY <2>1, <2>3 DEF Agreement!Next, Agreement!Finalize
<1>4. ASSUME NEW w \in Workers,
             \/ ContractsNext(w) \/ PaymentsNext(w) \/ CasesNext(w)
             \/ ClosureNext(w) /\ ~ConfirmWrite(w) /\ ~FinalizeCommit(w)
      PROVE  UNCHANGED liquidations
  <2>1. CASE ContractsNext(w) \/ PaymentsNext(w)
    BY <2>1, ContractsQuiet, PaymentsQuiet DEF Quiet
  <2>2. CASE CasesNext(w)
    BY <2>2 DEF CasesNext, CreateForStudentRead, CreateForStudentWrite, UpdateStatusRead,
                UpdateStatusWrite, WorkChanges, OnlyCases, tables
  <2>3. CASE ClosureNext(w) /\ ~ConfirmWrite(w) /\ ~FinalizeCommit(w)
    BY <2>3 DEF ClosureNext, ConfirmHandoverRead, CloseRead, ConfirmRead, ReadCase,
                ConfirmHandoverWrite, CloseCheckDebt, CloseCheckRest, CloseBegin, CloseCommit,
                ConfirmExisting, FinalizeBegin, tables
  <2> QED BY <1>4, <2>1, <2>2, <2>3
<1> QED BY <1>1, <1>2, <1>3, <1>4 DEF Next, Crash, tables, vars

\* The liquidation rows implement the abstract agreement: every step of the
\* services and every crash is one party confirming, the agreement becoming
\* final once all have, or a stutter (closure.service.ts:165-209).
THEOREM LiquidationIsAgreed == Spec => AgreementSpec
BY AgreementInit, AgreementStep, ClosureInvariant, PTL DEF Spec, AgreementSpec, Agreement!Spec

-----------------------------------------------------------------------------
(***************************************************************************)
(* The payment rows, for every number of overlapping requests.             *)
(*                                                                         *)
(* Sums are written from the row a handler read before, which other        *)
(* requests may have changed since.  The invariant holds nevertheless      *)
(* because what a handler compares against never changes: the amount of an *)
(* installment is the same in every version of its row, and a row that has *)
(* left PENDING never is PENDING again.                                    *)
(***************************************************************************)

Overpaying == "payment.overpay" \in Operations

SoundRow(p) ==
  /\ p.status = "PAID" => p.paid >= p.amount
  /\ p.status = "PENDING" => p.paid = 0 /\ p.refunded = 0
  /\ ~Overpaying => p.paid <= p.amount /\ p.refunded <= p.amount

CountingSteps == {"record.open", "record.write", "refund.write"}

\* What a request in progress has established about the row it will write.
Counted(r) ==
  /\ r.step \in CountingSteps
       => /\ payments[r.contract][r.installment].status # "ABSENT"
          /\ payments[r.contract][r.installment].amount = r.seenPayment.amount
  /\ r.step \in {"record.open", "record.write"} /\ ~Overpaying
       => r.seenPayment.paid + r.amount <= r.seenPayment.amount
  /\ r.step = "refund.write" /\ ~Overpaying
       => r.seenPayment.refunded + r.amount <= r.seenPayment.amount
  /\ r.step = "refund.write" => payments[r.contract][r.installment].status # "PENDING"

MoneyInv ==
  /\ \A c \in Contracts, n \in Installments : SoundRow(payments[c][n])
  /\ \A w \in Workers : Counted(req[w])

\* A new version of a row that no other request can tell from the old one.
Compatible(p, q) ==
  /\ p.status # "ABSENT" => q.status # "ABSENT" /\ q.amount = p.amount
  /\ p.status \notin {"ABSENT", "PENDING"} => q.status # "PENDING"

-----------------------------------------------------------------------------
\* However a comparison turns out at equality, it never holds below the bound.
LEMMA NotBelow ==
  ASSUME NEW sum \in Nat, NEW bound \in Nat, NEW yes \in AtLeast(sum, bound), yes
  PROVE  sum >= bound
<1>1. CASE sum = bound
  BY <1>1
<1>2. CASE sum # bound
  <2>1. AtLeast(sum, bound) = {sum > bound}
    BY <1>2, Zenon DEF AtLeast
  <2>2. yes = (sum > bound)
    BY <2>1, Zenon
  <2>3. sum > bound
    BY <2>2, Zenon
  <2> QED BY <2>3
<1> QED BY <1>1, <1>2

LEMMA PutOne ==
  ASSUME TypeInv, NEW w \in Workers, NEW r, Put(w, r)
  PROVE  req'[w] = r /\ \A v \in Workers \ {w} : req'[v] = req[v]
BY DEF TypeInv, TypeOK, Put

\* A step that gives some rows sound, compatible versions, and moves only w.
LEMMA SoundWrite ==
  ASSUME TypeInv, MoneyInv, NEW w \in Workers,
         \A v \in Workers \ {w} : req'[v] = req[v],
         req'[w] = req[w] \/ req'[w].step \notin PaymentSteps,
         \A c \in Contracts, n \in Installments :
           SoundRow(payments'[c][n]) /\ Compatible(payments[c][n], payments'[c][n])
  PROVE  MoneyInv'
<1>1. \A c \in Contracts, n \in Installments : SoundRow(payments[c][n])'
  BY DEF SoundRow
<1>2. ASSUME NEW v \in Workers, req'[v] = req[v]
      PROVE  Counted(req[v])'
  <2>1. Counted(req[v])
    BY DEF MoneyInv
  <2>2. req[v].step \in CountingSteps => req[v].contract \in Contracts /\ req[v].installment \in Installments
    BY DEF TypeInv, RequestsTargeted, Targeted, CountingSteps, PaymentSteps
  <2> QED BY <1>2, <2>1, <2>2 DEF Counted, Compatible, CountingSteps
<1>3. req'[w].step \notin PaymentSteps => Counted(req[w])'
  BY DEF Counted, PaymentSteps, CountingSteps
<1> QED BY <1>1, <1>2, <1>3 DEF MoneyInv

LEMMA AnswerSound ==
  ASSUME TypeInv, MoneyInv, NEW w \in Workers, Answer(w), UNCHANGED payments
  PROVE  MoneyInv'
BY PutOne, SoundWrite DEF Answer, Idle, PaymentSteps, MoneyInv, Compatible

LEMMA PutSound ==
  ASSUME TypeInv, MoneyInv, NEW w \in Workers, NEW r, Put(w, r), UNCHANGED payments, Counted(r)
  PROVE  MoneyInv'
BY PutOne DEF MoneyInv, Counted, SoundRow

\* The sweep changes no sum, and makes no row PENDING.
LEMMA SweptSound ==
  ASSUME TypeInv, MoneyInv, NEW c \in Contracts, NEW due
  PROVE  \A n \in Installments :
           SoundRow(Swept(c, due)[n]) /\ Compatible(payments[c][n], Swept(c, due)[n])
<1> SUFFICES ASSUME NEW n \in Installments
             PROVE  SoundRow(Swept(c, due)[n]) /\ Compatible(payments[c][n], Swept(c, due)[n])
  OBVIOUS
<1>1. payments[c][n] \in PaymentRow /\ SoundRow(payments[c][n])
  BY DEF TypeInv, TypeOK, MoneyInv
<1> DEFINE q == [payments[c][n] EXCEPT !.status = "OVERDUE"]
<1>2. /\ q.status = "OVERDUE" /\ q.amount = payments[c][n].amount
      /\ q.paid = payments[c][n].paid /\ q.refunded = payments[c][n].refunded
  BY <1>1 DEF PaymentRow
<1>3. \/ Swept(c, due)[n] = payments[c][n]
      \/ payments[c][n].status \in {"PENDING", "PARTIALLY_PAID"} /\ Swept(c, due)[n] = q
  <2>1. Swept(c, due)[n] = IF n \in due /\ payments[c][n].status \in {"PENDING", "PARTIALLY_PAID"}
                           THEN q ELSE payments[c][n]
    BY DEF Swept
  <2> HIDE DEF q
  <2> QED BY <2>1
<1> HIDE DEF q
<1> QED BY <1>1, <1>2, <1>3 DEF SoundRow, Compatible, PaymentRow

-----------------------------------------------------------------------------
\* The handlers of the other services leave the rows alone, except that a
\* closure sweeps the overdue ones.
LEMMA OthersPreserve ==
  ASSUME TypeInv, MoneyInv, NEW w \in Workers,
         ContractsNext(w) \/ CasesNext(w) \/ ClosureNext(w)
  PROVE  MoneyInv'
<1>1. ASSUME UNCHANGED payments, \A v \in Workers \ {w} : req'[v] = req[v],
             req'[w] = req[w] \/ req'[w].step \notin PaymentSteps
      PROVE  MoneyInv'
  BY <1>1 DEF MoneyInv, Counted, SoundRow, PaymentSteps, CountingSteps
<1>2. ASSUME NEW step \in Steps, NEW r, r.step = step, step \notin PaymentSteps, Put(w, r), UNCHANGED payments
      PROVE  MoneyInv'
  BY <1>1, <1>2, PutOne
<1>3. ASSUME Answer(w), UNCHANGED payments
      PROVE  MoneyInv'
  BY <1>3, AnswerSound
<1>4. ASSUME NEW step \in Steps \ PaymentSteps, Goto(w, step), UNCHANGED payments
      PROVE  MoneyInv'
  <2>1. [req[w] EXCEPT !.step = step].step = step
    BY DEF TypeInv, TypeOK, Request
  <2> QED BY <1>2, <1>4, <2>1 DEF Goto
<1>5. CASE ContractsNext(w)
  <2>1. ASSUME NEW c \in Contracts, NEW v \in Values, Create(w, c, v)
        PROVE  MoneyInv'
    BY <2>1, <1>1 DEF Create, OnlyContracts
  <2>2. ASSUME NEW c \in Contracts, NEW v \in Values, UpdateRead(w, c, v) \/ AmendRead(w, c, v)
        PROVE  MoneyInv'
    <3> DEFINE r1 == [ContractRequest("update.write", c) EXCEPT !.amount = v]
               r2 == [ContractRequest("amend.write", c) EXCEPT !.amount = v]
    <3>1. r1.step = "update.write" /\ r2.step = "amend.write"
      BY DEF ContractRequest, Idle
    <3>2. UNCHANGED payments /\ (Put(w, r1) \/ Put(w, r2))
      BY <2>2 DEF UpdateRead, AmendRead, ReadContract, Begin, tables
    <3>3. {"update.write", "amend.write"} \subseteq Steps \ PaymentSteps
      BY DEF PaymentSteps, Steps
    <3> HIDE DEF r1, r2
    <3>4. CASE Put(w, r1)
      BY <3>1, <3>2, <3>3, <3>4, <1>2
    <3>5. CASE Put(w, r2)
      BY <3>1, <3>2, <3>3, <3>5, <1>2
    <3> QED BY <3>2, <3>4, <3>5
  <2>3. ASSUME NEW c \in Contracts, SubmitRead(w, c) \/ SendRead(w, c) \/ SignRead(w, c)
        PROVE  MoneyInv'
    BY <2>3, <1>2 DEF SubmitRead, SendRead, SignRead, ReadContract, Begin, ContractRequest, Idle,
                      tables, PaymentSteps, Steps
  <2>4. ASSUME NEW c \in Contracts, StatusRead(w, c)
        PROVE  MoneyInv'
    <3> DEFINE to == PostSignTransition[contracts[c].status]
               r == [ContractRequest("status.swap", c) EXCEPT !.to = to,
                       !.step = IF to \in {"COMPLETED", "LIQUIDATED"} THEN "status.link"
                                ELSE IF to = "ACTIVE" THEN "status.check" ELSE @]
    <3>1. Put(w, r) /\ UNCHANGED payments
      BY <2>4 DEF StatusRead, ReadContract, Begin, tables
    <3>2. r.step \in {"status.link", "status.check", "status.swap"}
      <4> HIDE DEF to
      <4> QED BY DEF ContractRequest, Idle
    <3> HIDE DEF r
    <3>3. r.step \in Steps \ PaymentSteps
      BY <3>2 DEF PaymentSteps, Steps
    <3> QED BY <3>1, <3>3, <1>2
  <2>5. ASSUME NEW c \in Contracts, NEW role \in Roles, ApproveRead(w, c, role) \/ RejectRead(w, c, role)
        PROVE  MoneyInv'
    BY <2>5, <1>2 DEF ApproveRead, RejectRead, ReadContract, Begin, ContractRequest, Idle, tables,
                      PaymentSteps, Steps
  <2>6. ASSUME \/ UpdateWrite(w) \/ SubmitWrite(w) \/ ApproveWrite(w) \/ RejectWrite(w) \/ SendWrite(w)
               \/ SignWrite(w) \/ StatusTasks(w) \/ AmendWrite(w)
        PROVE  MoneyInv'
    BY <2>6, <1>3 DEF UpdateWrite, SubmitWrite, ApproveWrite, RejectWrite, SendWrite, SetStatus,
                      SignWrite, StatusTasks, AmendWrite, OnlyContracts
  <2>7. ASSUME SignFindCase(w)
        PROVE  MoneyInv'
    <3>1. \A k : [req[w] EXCEPT !.step = "sign.write", !.kase = k].step = "sign.write"
      BY DEF TypeInv, TypeOK, Request
    <3> QED BY <2>7, <3>1, <1>2, <1>3 DEF SignFindCase, tables, PaymentSteps, Steps
  <2>8. ASSUME SignLock(w) \/ StatusLink(w) \/ StatusCheck(w) \/ StatusSwap(w)
        PROVE  MoneyInv'
    <3>1. {"sign.link", "status.check", "status.swap", "status.tasks"} \subseteq Steps \ PaymentSteps
      BY DEF Steps, PaymentSteps
    <3> QED BY <2>8, <3>1, <1>3, <1>4 DEF SignLock, StatusLink, StatusCheck, StatusSwap, OnlyContracts, tables
  <2> QED BY <1>5, <2>1, <2>2, <2>3, <2>4, <2>5, <2>6, <2>7, <2>8 DEF ContractsNext
<1>6. CASE CasesNext(w)
  <2>1. CASE CreateForStudentRead(w)
    BY <2>1, <1>2 DEF CreateForStudentRead, Begin, Idle, tables, PaymentSteps, Steps
  <2>2. ASSUME NEW k \in Cases, NEW to \in CaseStatus, UpdateStatusRead(w, k, to)
        PROVE  MoneyInv'
    BY <2>2, <1>2 DEF UpdateStatusRead, Begin, CaseRequest, Idle, tables, PaymentSteps, Steps
  <2>3. CASE CreateForStudentWrite(w) \/ UpdateStatusWrite(w)
    BY <2>3, <1>3 DEF CreateForStudentWrite, UpdateStatusWrite, OnlyCases
  <2>4. ASSUME NEW k \in Cases, WorkChanges(k)
        PROVE  MoneyInv'
    BY <2>4, <1>1 DEF WorkChanges, OnlyCases
  <2> QED BY <1>6, <2>1, <2>2, <2>3, <2>4 DEF CasesNext
<1>7. CASE ClosureNext(w)
  <2>1. ASSUME NEW k \in Cases, ConfirmHandoverRead(w, k) \/ CloseRead(w, k)
        PROVE  MoneyInv'
    BY <2>1, <1>2 DEF ConfirmHandoverRead, CloseRead, ReadCase, Begin, CaseRequest, Idle, tables,
                      PaymentSteps, Steps
  <2>2. ASSUME NEW k \in Cases, NEW party \in Parties, ConfirmRead(w, k, party)
        PROVE  MoneyInv'
    BY <2>2, <1>2 DEF ConfirmRead, ReadCase, Begin, CaseRequest, Idle, tables, PaymentSteps, Steps
  <2>3. CASE ConfirmHandoverWrite(w) \/ CloseCommit(w) \/ FinalizeCommit(w)
    BY <2>3, <1>3 DEF ConfirmHandoverWrite, CloseCommit, FinalizeCommit
  <2>4. CASE ConfirmExisting(w) \/ ConfirmWrite(w)
    <3>1. {"confirm.write", "finalize.begin"} \subseteq Steps \ PaymentSteps
      BY DEF Steps, PaymentSteps
    <3> QED BY <2>4, <3>1, <1>3, <1>4 DEF ConfirmExisting, ConfirmWrite, tables
  <2>5. CASE CloseBegin(w) \/ FinalizeBegin(w)
    <3>1. \A step, row : [req[w] EXCEPT !.step = step, !.seenContract = row].step = step
      BY DEF TypeInv, TypeOK, Request
    <3>2. {"close.commit", "finalize.commit"} \subseteq Steps /\ UNCHANGED payments
      BY <2>5 DEF CloseBegin, FinalizeBegin, tables, Steps
    <3>3. PICK r : Put(w, r) /\ r.step \in {"close.commit", "finalize.commit"}
      <4>1. CASE CloseBegin(w)
        BY <3>1, <4>1 DEF CloseBegin
      <4>2. CASE FinalizeBegin(w)
        BY <3>1, <4>2 DEF FinalizeBegin
      <4> QED BY <2>5, <4>1, <4>2
    <3> QED BY <3>2, <3>3, <1>2 DEF PaymentSteps
  <2>6. ASSUME NEW item, NEW fails, At(w, "close.check"), CheckItem(w, item, fails)
        PROVE  (\A v \in Workers \ {w} : req'[v] = req[v]) /\ req'[w].step \notin PaymentSteps
    <3> DEFINE more == [req[w] EXCEPT !.checked = req[w].checked \cup {item},
                                      !.failing = req[w].failing \/ fails]
               next == [req[w] EXCEPT !.step = "close.begin"]
    <3>1. more.step = "close.check" /\ next.step = "close.begin" /\ Idle.step = "idle"
      BY <2>6 DEF TypeInv, TypeOK, Request, At, Idle
    <3>2. Put(w, more) \/ Put(w, Idle) \/ Put(w, next)
      BY <2>6, Zenon DEF CheckItem, Goto, Answer
    <3> HIDE DEF more, next
    <3> QED BY <3>1, <3>2, PutOne DEF PaymentSteps
  <2>7. CASE CloseCheckRest(w)
    BY <2>6, <2>7, <1>1 DEF CloseCheckRest, tables
  <2>8. ASSUME NEW due \in SUBSET Installments, CloseCheckDebt(w, due)
        PROVE  MoneyInv'
    <3> DEFINE c == cases[req[w].kase].contract
    <3>1. c \in Contracts \cup {None}
      <4>1. req[w].kase \in Cases
        BY <2>8 DEF CloseCheckDebt, At, TypeInv, RequestsTargeted, Targeted, CaseSteps
      <4> QED BY <4>1 DEF TypeInv, TypeOK, CaseRow
    <3>2. (\A v \in Workers \ {w} : req'[v] = req[v]) /\ req'[w].step \notin PaymentSteps
      BY <2>6, <2>8 DEF CloseCheckDebt
    <3>3. \/ UNCHANGED payments
          \/ c \in Contracts /\ payments' = [payments EXCEPT ![c] = Swept(c, due)]
      BY <2>8, <3>1 DEF CloseCheckDebt
    <3> HIDE DEF c
    <3>4. CASE UNCHANGED payments
      BY <3>2, <3>4, <1>1
    <3>5. CASE c \in Contracts /\ payments' = [payments EXCEPT ![c] = Swept(c, due)]
      <4>1. \A d \in Contracts, n \in Installments :
              payments'[d][n] = payments[d][n] \/ (d = c /\ payments'[d][n] = Swept(c, due)[n])
        BY <3>5 DEF TypeInv, TypeOK
      <4>2. \A d \in Contracts, n \in Installments :
              SoundRow(payments'[d][n]) /\ Compatible(payments[d][n], payments'[d][n])
        BY <3>5, <4>1, SweptSound DEF MoneyInv, Compatible
      <4> QED BY <3>2, <4>2, SoundWrite
    <3> QED BY <3>3, <3>4, <3>5
  <2> QED BY <1>7, <2>1, <2>2, <2>3, <2>4, <2>5, <2>7, <2>8 DEF ClosureNext
<1> QED BY <1>5, <1>6, <1>7

-----------------------------------------------------------------------------
\* The row that a write gives to its target is all that changes.
LEMMA WriteSound ==
  ASSUME TypeInv, MoneyInv, NEW w \in Workers, req[w].step \in PaymentSteps, NEW q,
         WritePayment(w, q), SoundRow(q), Compatible(Current(w), q)
  PROVE  MoneyInv'
<1> DEFINE c == req[w].contract
           n == req[w].installment
<1>1. c \in Contracts /\ n \in Installments
  BY DEF TypeInv, RequestsTargeted, Targeted
<1>2. \A d \in Contracts, m \in Installments :
        payments'[d][m] = IF d = c /\ m = n THEN q ELSE payments[d][m]
  BY <1>1 DEF WritePayment, TypeInv, TypeOK
<1>3. \A d \in Contracts, m \in Installments :
        SoundRow(payments'[d][m]) /\ Compatible(payments[d][m], payments'[d][m])
  <2> SUFFICES ASSUME NEW d \in Contracts, NEW m \in Installments
               PROVE  SoundRow(payments'[d][m]) /\ Compatible(payments[d][m], payments'[d][m])
    OBVIOUS
  <2>1. CASE d = c /\ m = n
    BY <1>2, <2>1 DEF Current
  <2>2. CASE ~(d = c /\ m = n)
    BY <1>2, <2>2 DEF MoneyInv, Compatible
  <2> QED BY <2>1, <2>2
<1>4. (\A v \in Workers \ {w} : req'[v] = req[v]) /\ req'[w].step \notin PaymentSteps
  BY PutOne DEF WritePayment, Answer, Idle, PaymentSteps
<1> QED BY <1>3, <1>4, SoundWrite

LEMMA PaymentsPreserve ==
  ASSUME TypeInv, MoneyInv, NEW w \in Workers, PaymentsNext(w)
  PROVE  MoneyInv'
<1>a. req[w] \in Request /\ Counted(req[w]) /\ Targeted(req[w])
  BY DEF TypeInv, TypeOK, RequestsTargeted, MoneyInv
<1>b. ASSUME req[w].step \in PaymentSteps
      PROVE  Current(w) \in PaymentRow /\ SoundRow(Current(w))
  BY <1>a, <1>b DEF Targeted, Current, TypeInv, TypeOK, MoneyInv
<1>c. req[w].seenPayment \in PaymentRow /\ req[w].amount \in Nat
  BY <1>a DEF Request
<1>1. ASSUME NEW c \in Contracts, NEW n \in Installments, NEW amount \in Amounts,
             CreateInstallmentRead(w, c, n, amount)
      PROVE  MoneyInv'
  <2> DEFINE r == [Idle EXCEPT !.step = "installment.create", !.contract = c,
                               !.installment = n, !.amount = amount]
  <2>1. r.step = "installment.create"
    BY DEF Idle
  <2>2. Put(w, r) /\ UNCHANGED payments
    BY <1>1 DEF CreateInstallmentRead, Begin, tables
  <2> HIDE DEF r
  <2>3. Counted(r)
    BY <2>1 DEF Counted, CountingSteps
  <2> QED BY <2>2, <2>3, PutSound
<1>2. ASSUME NEW c \in Contracts, NEW n \in Installments, NEW amount \in Amounts,
             RecordRead(w, c, n, amount)
      PROVE  MoneyInv'
  <2> DEFINE r == [PaymentRequest("record.open", c, n) EXCEPT !.amount = amount]
  <2>1. /\ r.step = "record.open" /\ r.amount = amount /\ r.seenPayment = payments[c][n]
        /\ r.contract = c /\ r.installment = n
    BY DEF PaymentRequest, Idle
  <2>2. /\ Put(w, r) /\ UNCHANGED payments /\ payments[c][n].status # "ABSENT"
        /\ payments[c][n].paid + amount <= payments[c][n].amount \/ Overpaying
    BY <1>2 DEF RecordRead, ReadPayment, Begin, tables, Overpaying
  <2> HIDE DEF r
  <2>3. Counted(r)
    BY <2>1, <2>2 DEF Counted, CountingSteps
  <2> QED BY <2>2, <2>3, PutSound
<1>3. ASSUME NEW c \in Contracts, NEW n \in Installments, NEW amount \in Amounts,
             RefundRead(w, c, n, amount)
      PROVE  MoneyInv'
  <2> DEFINE r == [PaymentRequest("refund.write", c, n) EXCEPT !.amount = amount]
  <2>1. /\ r.step = "refund.write" /\ r.amount = amount /\ r.seenPayment = payments[c][n]
        /\ r.contract = c /\ r.installment = n
    BY DEF PaymentRequest, Idle
  <2>2. /\ Put(w, r) /\ UNCHANGED payments /\ payments[c][n].status # "ABSENT"
        /\ amount <= payments[c][n].paid - payments[c][n].refunded
    BY <1>3 DEF RefundRead, ReadPayment, Begin, tables
  <2> HIDE DEF r
  <2>3. payments[c][n] \in PaymentRow /\ SoundRow(payments[c][n]) /\ amount \in Nat
    BY MoneyAssumption DEF TypeInv, TypeOK, MoneyInv
  <2>4. /\ ~Overpaying => payments[c][n].refunded + amount <= payments[c][n].amount
        /\ payments[c][n].status # "PENDING"
    BY <2>2, <2>3, MoneyAssumption DEF SoundRow, PaymentRow
  <2>5. Counted(r)
    BY <2>1, <2>2, <2>4 DEF Counted, CountingSteps
  <2> QED BY <2>2, <2>5, PutSound
<1>4. ASSUME NEW c \in Contracts, NEW n \in Installments, WaiveRead(w, c, n)
      PROVE  MoneyInv'
  <2> DEFINE r == PaymentRequest("waive.write", c, n)
  <2>1. r.step = "waive.write"
    BY DEF PaymentRequest, Idle
  <2>2. Put(w, r) /\ UNCHANGED payments
    BY <1>4 DEF WaiveRead, ReadPayment, Begin, tables
  <2> HIDE DEF r
  <2>3. Counted(r)
    BY <2>1 DEF Counted, CountingSteps
  <2> QED BY <2>2, <2>3, PutSound
<1>5. ASSUME NEW c \in Contracts, NEW due \in SUBSET Installments, SyncOverdueStatus(c, due)
      PROVE  MoneyInv'
  <2>1. \A d \in Contracts, n \in Installments :
          payments'[d][n] = payments[d][n] \/ (d = c /\ payments'[d][n] = Swept(c, due)[n])
    BY <1>5 DEF SyncOverdueStatus, TypeInv, TypeOK
  <2>2. \A d \in Contracts, n \in Installments :
          SoundRow(payments'[d][n]) /\ Compatible(payments[d][n], payments'[d][n])
    BY <2>1, SweptSound DEF MoneyInv, Compatible
  <2> QED BY <1>5, <2>2, SoundWrite DEF SyncOverdueStatus
<1>6. CASE CreateInstallment(w)
  <2> DEFINE q == [NoPayment EXCEPT !.status = "PENDING", !.amount = req[w].amount]
  <2>1. q.status = "PENDING" /\ q.amount = req[w].amount /\ q.paid = 0 /\ q.refunded = 0
    BY DEF NoPayment
  <2>2. \/ Current(w).status = "ABSENT" /\ WritePayment(w, q)
        \/ Answer(w) /\ UNCHANGED payments
    BY <1>6 DEF CreateInstallment
  <2>3. req[w].step = "installment.create"
    BY <1>6 DEF CreateInstallment, At
  <2> HIDE DEF q
  <2>4. SoundRow(q)
    BY <1>c, <2>1 DEF SoundRow
  <2>5. CASE Current(w).status = "ABSENT" /\ WritePayment(w, q)
    BY <2>3, <2>4, <2>5, WriteSound DEF Compatible, PaymentSteps
  <2>6. CASE Answer(w) /\ UNCHANGED payments
    BY <2>6, AnswerSound
  <2> QED BY <2>2, <2>5, <2>6
<1>7. CASE RecordCheckOpen(w)
  <2> DEFINE r == [req[w] EXCEPT !.step = "record.write"]
  <2>1. /\ r.step = "record.write" /\ r.amount = req[w].amount /\ r.seenPayment = req[w].seenPayment
        /\ r.contract = req[w].contract /\ r.installment = req[w].installment
    BY <1>a DEF Request
  <2>2. UNCHANGED payments /\ (Put(w, r) \/ Answer(w)) /\ req[w].step = "record.open"
    BY <1>7 DEF RecordCheckOpen, Goto, tables, At
  <2> HIDE DEF r
  <2>3. Counted(r)
    BY <1>a, <2>1, <2>2 DEF Counted, CountingSteps
  <2> QED BY <2>2, <2>3, PutSound, AnswerSound
<1>8. CASE RecordWrite(w)
  <2> DEFINE seen == req[w].seenPayment
             paid == seen.paid + req[w].amount
  <2>a. PICK covered \in AtLeast(paid, seen.amount) :
          WritePayment(w, [Current(w) EXCEPT !.paid = paid,
                             !.status = IF covered THEN "PAID" ELSE "PARTIALLY_PAID"])
    BY <1>8 DEF RecordWrite
  <2> DEFINE q == [Current(w) EXCEPT !.paid = paid,
                     !.status = IF covered THEN "PAID" ELSE "PARTIALLY_PAID"]
  <2>1. req[w].step = "record.write" /\ WritePayment(w, q)
    BY <1>8, <2>a DEF RecordWrite, At
  <2>2. Current(w) \in PaymentRow /\ SoundRow(Current(w))
    BY <1>b, <2>1 DEF PaymentSteps
  <2>3. /\ q.status = IF covered THEN "PAID" ELSE "PARTIALLY_PAID"
        /\ q.paid = paid /\ q.amount = Current(w).amount /\ q.refunded = Current(w).refunded
    BY <2>2 DEF PaymentRow
  <2>4. /\ Current(w).amount = seen.amount
        /\ ~Overpaying => paid <= seen.amount
    BY <1>a, <2>1 DEF Counted, CountingSteps, Current
  <2>5. paid \in Nat /\ seen.amount \in Nat
    BY <1>c DEF PaymentRow
  <2>b. covered => paid >= seen.amount
    BY <2>5, NotBelow
  <2> HIDE DEF q, paid, seen
  <2>6. SoundRow(q)
    BY <2>2, <2>3, <2>4, <2>5, <2>b DEF SoundRow
  <2>7. Compatible(Current(w), q)
    BY <2>3 DEF Compatible
  <2> QED BY <2>1, <2>6, <2>7, WriteSound DEF PaymentSteps
<1>9. CASE RefundWrite(w)
  <2> DEFINE seen == req[w].seenPayment
             refunded == seen.refunded + req[w].amount
  <2>a. PICK all \in AtLeast(refunded, seen.paid) :
          WritePayment(w, [Current(w) EXCEPT !.refunded = refunded,
                             !.status = IF all THEN "REFUNDED" ELSE @])
    BY <1>9 DEF RefundWrite
  <2> DEFINE q == [Current(w) EXCEPT !.refunded = refunded,
                     !.status = IF all THEN "REFUNDED" ELSE @]
  <2>1. req[w].step = "refund.write" /\ WritePayment(w, q)
    BY <1>9, <2>a DEF RefundWrite, At
  <2>2. Current(w) \in PaymentRow /\ SoundRow(Current(w))
    BY <1>b, <2>1 DEF PaymentSteps
  <2>3. /\ q.status = IF all THEN "REFUNDED" ELSE Current(w).status
        /\ q.paid = Current(w).paid /\ q.amount = Current(w).amount /\ q.refunded = refunded
    BY <2>2 DEF PaymentRow
  <2>4. /\ Current(w).amount = seen.amount
        /\ ~Overpaying => refunded <= seen.amount
    BY <1>a, <2>1 DEF Counted, CountingSteps, Current
  <2>5. Current(w).status \notin {"ABSENT", "PENDING"}
    BY <1>a, <2>1 DEF Counted, CountingSteps, Current
  <2> HIDE DEF q, refunded, seen
  <2>6. SoundRow(q)
    BY <2>2, <2>3, <2>4, <2>5 DEF SoundRow
  <2>7. Compatible(Current(w), q)
    BY <2>3, <2>5 DEF Compatible
  <2> QED BY <2>1, <2>6, <2>7, WriteSound DEF PaymentSteps
<1>10. CASE WaiveWrite(w)
  <2> DEFINE q == [Current(w) EXCEPT !.status = "WAIVED"]
  <2>1. req[w].step = "waive.write" /\ WritePayment(w, q)
    BY <1>10 DEF WaiveWrite, At
  <2>2. Current(w) \in PaymentRow /\ SoundRow(Current(w))
    BY <1>b, <2>1 DEF PaymentSteps
  <2>3. /\ q.status = "WAIVED" /\ q.paid = Current(w).paid
        /\ q.amount = Current(w).amount /\ q.refunded = Current(w).refunded
    BY <2>2 DEF PaymentRow
  <2> HIDE DEF q
  <2> QED BY <2>1, <2>2, <2>3, WriteSound DEF SoundRow, Compatible, PaymentSteps
<1> QED BY <1>1, <1>2, <1>3, <1>4, <1>5, <1>6, <1>7, <1>8, <1>9, <1>10 DEF PaymentsNext

-----------------------------------------------------------------------------
LEMMA MoneyInit == Init => MoneyInv
<1> SUFFICES ASSUME Init PROVE MoneyInv
  OBVIOUS
<1>1. \A c \in Contracts, n \in Installments : payments[c][n] = NoPayment
  BY DEF Init
<1>2. \A w \in Workers : req[w].step = "idle"
  BY DEF Init, Idle
<1>3. SoundRow(NoPayment)
  BY DEF SoundRow, NoPayment
<1> QED BY <1>1, <1>2, <1>3 DEF MoneyInv, Counted, CountingSteps

LEMMA MoneyStep == TypeInv /\ MoneyInv /\ [Next]_vars => MoneyInv'
<1> SUFFICES ASSUME TypeInv, MoneyInv, [Next]_vars PROVE MoneyInv'
  OBVIOUS
<1>1. ASSUME NEW w \in Workers,
             ContractsNext(w) \/ PaymentsNext(w) \/ CasesNext(w) \/ ClosureNext(w)
      PROVE  MoneyInv'
  BY <1>1, OthersPreserve, PaymentsPreserve
<1>2. CASE Crash
  <2>1. UNCHANGED payments /\ \A w \in Workers : req'[w].step = "idle"
    BY <1>2 DEF Crash, tables, Idle
  <2> QED BY <2>1 DEF MoneyInv, SoundRow, Counted, CountingSteps
<1>3. CASE UNCHANGED vars
  BY <1>3 DEF vars, MoneyInv, SoundRow, Counted
<1> QED BY <1>1, <1>2, <1>3 DEF Next

LEMMA MoneyInvariant == Spec => []MoneyInv
<1>1. TypeInv /\ MoneyInv /\ [Next]_vars => MoneyInv'
  BY MoneyStep
<1> QED BY <1>1, MoneyInit, TypeInvariant, PTL DEF Spec

\* In every number of overlapping requests a payment row reads PAID only when
\* its whole installment came in, and PENDING only while nothing was received or
\* given back, however the floating-point comparisons of a record and a refund
\* turn out at equality (payments.service.ts:172-248).
THEOREM SettledRowsAreCovered == Spec => []SettledMeansCovered
<1>1. MoneyInv => SettledMeansCovered
  BY DEF MoneyInv, SoundRow, SettledMeansCovered
<1> QED BY <1>1, MoneyInvariant, PTL

\* Where no caller may ask for allowOverpayment, no row ever holds, or gives
\* back, more than its installment, although both sums are written from a row
\* that other requests may have changed since (payments.service.ts:187-248).
THEOREM NothingIsOverpaid ==
  ASSUME "payment.overpay" \notin Operations
  PROVE  Spec => []NoOverpayment
<1>1. MoneyInv => NoOverpayment
  BY DEF MoneyInv, SoundRow, NoOverpayment, Overpaying
<1> QED BY <1>1, MoneyInvariant, PTL
=============================================================================
