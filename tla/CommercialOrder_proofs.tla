----------------------- MODULE CommercialOrder_proofs -----------------------
(***************************************************************************)
(* What needs an order among requests.  First, what holds while they do    *)
(* not overlap: one worker, every operation.  A handler that nobody comes  *)
(* in between acts on rows as they are, so the invariants say, for each    *)
(* step of a handler, that what it has read is still there and that it was *)
(* let through for it.  Then what holds however requests overlap, once the *)
(* contracts that they work on are signed.                                 *)
(***************************************************************************)
EXTENDS CommercialRules_proofs, FiniteSetTheorems

\* One request at a time.
Sequential == \A v, w \in Workers : v = w

\* The transaction of close() or of the finalization has read the contract.
Committing == {"close.commit", "finalize.commit"}

-----------------------------------------------------------------------------
(* Where the handlers of each service take a request                        *)

ClosureSteps == {"handover.write", "close.check", "close.begin", "close.commit", "confirm.existing",
                 "confirm.write", "finalize.begin", "finalize.commit"}
SigningSteps == {"update.write", "submit.write", "approve.write", "reject.write", "send.write",
                 "sign.case", "sign.write", "sign.link", "amend.write"}

\* The request stays where it is, or goes to one of the steps.
Goes(w, steps) == req'[w] = req[w] \/ req'[w].step \in steps

LEMMA PutGoes ==
  ASSUME TypeInv, NEW w \in Workers, NEW r, NEW steps, Put(w, r), r.step \in steps PROVE Goes(w, steps)
BY PutOne DEF Goes

LEMMA AnswerGoes ==
  ASSUME TypeInv, NEW w \in Workers, Answer(w), NEW steps, "idle" \in steps PROVE Goes(w, steps)
BY PutOne DEF Answer, Idle, Goes

LEMMA GotoGoes ==
  ASSUME TypeInv, NEW w \in Workers, NEW steps, NEW step \in steps, Goto(w, step) PROVE Goes(w, steps)
<1>1. [req[w] EXCEPT !.step = step].step = step
  BY DEF TypeInv, TypeOK, Request
<1> QED BY <1>1, PutGoes DEF Goto

LEMMA PaymentsGo ==
  ASSUME TypeInv, NEW w \in Workers, PaymentsNext(w)
  PROVE  OnlyPayments /\ Goes(w, {"idle"} \cup PaymentSteps)
<1> USE DEF PaymentSteps
<1>a. ASSUME NEW r, Put(w, r), r.step \in {"idle"} \cup PaymentSteps, UNCHANGED tables
      PROVE  OnlyPayments /\ Goes(w, {"idle"} \cup PaymentSteps)
  BY <1>a, PutGoes DEF tables, OnlyPayments
<1>1. ASSUME NEW c \in Contracts, NEW n \in Installments, NEW amount \in Amounts,
             CreateInstallmentRead(w, c, n, amount) \/ RecordRead(w, c, n, amount)
               \/ RefundRead(w, c, n, amount) \/ WaiveRead(w, c, n)
      PROVE  OnlyPayments /\ Goes(w, {"idle"} \cup PaymentSteps)
  BY <1>1, <1>a DEF CreateInstallmentRead, RecordRead, RefundRead, WaiveRead, ReadPayment, Begin,
                    PaymentRequest, Idle
<1>2. ASSUME NEW c \in Contracts, NEW n \in Installments, WaiveRead(w, c, n)
      PROVE  OnlyPayments /\ Goes(w, {"idle"} \cup PaymentSteps)
  BY <1>2, <1>a DEF WaiveRead, ReadPayment, Begin, PaymentRequest, Idle
<1>3. ASSUME NEW c \in Contracts, NEW due \in SUBSET Installments, SyncOverdueStatus(c, due)
      PROVE  OnlyPayments /\ Goes(w, {"idle"} \cup PaymentSteps)
  BY <1>3 DEF SyncOverdueStatus, Goes
<1>4. CASE CreateInstallment(w) \/ RecordWrite(w) \/ RefundWrite(w) \/ WaiveWrite(w)
  BY <1>4, AnswerGoes DEF CreateInstallment, RecordWrite, RefundWrite, WaiveWrite, WritePayment
<1>5. CASE RecordCheckOpen(w)
  <2>1. UNCHANGED tables /\ (Answer(w) \/ Goto(w, "record.write"))
    BY <1>5 DEF RecordCheckOpen
  <2> QED BY <2>1, AnswerGoes, GotoGoes DEF tables, OnlyPayments
<1> QED BY <1>1, <1>2, <1>3, <1>4, <1>5 DEF PaymentsNext

LEMMA CasesGo ==
  ASSUME TypeInv, NEW w \in Workers, CasesNext(w)
  PROVE  OnlyCases /\ Goes(w, {"idle", "case.create", "caseStatus.write"})
<1>1. CASE CreateForStudentRead(w) \/ \E k \in Cases, to \in CaseStatus : UpdateStatusRead(w, k, to)
  BY <1>1, PutGoes DEF CreateForStudentRead, UpdateStatusRead, Begin, CaseRequest, Idle, tables, OnlyCases
<1>2. CASE CreateForStudentWrite(w) \/ UpdateStatusWrite(w)
  BY <1>2, AnswerGoes DEF CreateForStudentWrite, UpdateStatusWrite
<1>3. CASE \E k \in Cases : WorkChanges(k)
  BY <1>3 DEF WorkChanges, Goes
<1> QED BY <1>1, <1>2, <1>3 DEF CasesNext

\* Every step of the closure workflow besides the commits leaves the contracts alone.
LEMMA ClosureGo ==
  ASSUME TypeInv, NEW w \in Workers, ClosureNext(w)
  PROVE  /\ OnlyClosure /\ Goes(w, {"idle"} \cup ClosureSteps)
         /\ UNCHANGED payments \/ \E due \in SUBSET Installments : CloseCheckDebt(w, due)
         /\ UNCHANGED contracts \/ CloseCommit(w) \/ FinalizeCommit(w)
         /\ UNCHANGED cases \/ CloseCommit(w)
         /\ req'[w].step \in Committing => req'[w] = req[w] \/ CloseBegin(w) \/ FinalizeBegin(w)
<1> USE DEF ClosureSteps, Committing
<1>1. ASSUME NEW r, r.step \in ClosureSteps \ Committing, Put(w, r)
      PROVE  Goes(w, {"idle"} \cup ClosureSteps) /\ req'[w].step \notin Committing
  BY <1>1, PutOne DEF Goes
<1>2. ASSUME Answer(w)
      PROVE  Goes(w, {"idle"} \cup ClosureSteps) /\ req'[w].step \notin Committing
  BY <1>2, PutOne DEF Goes, Answer, Idle
<1>3. ASSUME NEW step \in ClosureSteps \ Committing, Goto(w, step)
      PROVE  Goes(w, {"idle"} \cup ClosureSteps) /\ req'[w].step \notin Committing
  <2>1. [req[w] EXCEPT !.step = step].step = step
    BY DEF TypeInv, TypeOK, Request
  <2> QED BY <1>1, <1>3, <2>1 DEF Goto
<1>4. CASE \/ \E k \in Cases : ConfirmHandoverRead(w, k) \/ CloseRead(w, k)
           \/ \E k \in Cases, party \in Parties : ConfirmRead(w, k, party)
  BY <1>1, <1>4 DEF ConfirmHandoverRead, CloseRead, ConfirmRead, ReadCase, Begin, CaseRequest, Idle, tables, OnlyClosure
<1>5. CASE ConfirmHandoverWrite(w)
  BY <1>2, <1>5 DEF ConfirmHandoverWrite
<1>6. ASSUME NEW item, NEW fails, At(w, "close.check"), CheckItem(w, item, fails)
      PROVE  Goes(w, {"idle"} \cup ClosureSteps) /\ req'[w].step \notin Committing
  <2>1. \A checked, failing : [req[w] EXCEPT !.checked = checked, !.failing = failing].step = "close.check"
    BY <1>6 DEF TypeInv, TypeOK, Request, At
  <2> QED BY <1>1, <1>2, <1>3, <1>6, <2>1 DEF CheckItem
<1>7. CASE CloseCheckRest(w) \/ \E due \in SUBSET Installments : CloseCheckDebt(w, due)
  BY <1>6, <1>7 DEF CloseCheckRest, CloseCheckDebt, tables, OnlyClosure
<1>8. CASE CloseBegin(w) \/ FinalizeBegin(w)
  <2>1. \A step, row : [req[w] EXCEPT !.step = step, !.seenContract = row].step = step
    BY DEF TypeInv, TypeOK, Request
  <2>2. \E r : Put(w, r) /\ r.step \in Committing
    BY <1>8, <2>1 DEF CloseBegin, FinalizeBegin
  <2>3. Goes(w, {"idle"} \cup ClosureSteps)
    BY <2>2, PutOne DEF Goes
  <2> QED BY <1>8, <2>3 DEF CloseBegin, FinalizeBegin, tables, OnlyClosure
<1>9. CASE CloseCommit(w) \/ FinalizeCommit(w)
  BY <1>2, <1>9 DEF CloseCommit, FinalizeCommit
<1>10. CASE ConfirmExisting(w) \/ ConfirmWrite(w)
  BY <1>2, <1>3, <1>10 DEF ConfirmExisting, ConfirmWrite, tables, OnlyClosure
<1> QED BY <1>4, <1>5, <1>7, <1>8, <1>9, <1>10 DEF ClosureNext

\* A contract handler writes cases only when it signs.
LEMMA ContractsGo ==
  ASSUME TypeInv, NEW w \in Workers, ContractsNext(w)
  PROVE  /\ UNCHANGED <<payments, handovers, liquidations>>
         /\ UNCHANGED cases \/ SignWrite(w)
         /\ Goes(w, {"idle"} \cup ContractSteps)
         /\ \/ \E c \in Contracts : StatusRead(w, c)
            \/ StatusLink(w) \/ StatusCheck(w) \/ StatusSwap(w)
            \/ Goes(w, {"idle"} \cup SigningSteps)
         /\ req'[w].step = "sign.write" => req'[w] = req[w] \/ SignFindCase(w)
         /\ req'[w].step = "sign.link" => req'[w] = req[w] \/ SignLock(w)
<1> DEFINE Result == /\ Goes(w, {"idle"} \cup SigningSteps)
                     /\ Goes(w, {"idle"} \cup ContractSteps)
                     /\ req'[w].step = "sign.write" => req'[w] = req[w] \/ SignFindCase(w)
                     /\ req'[w].step = "sign.link" => req'[w] = req[w] \/ SignLock(w)
<1> USE DEF SigningSteps
<1>a. ASSUME NEW r, Put(w, r), r.step \in {"idle"} \cup SigningSteps, r.step = "sign.write" => SignFindCase(w),
             r.step = "sign.link" => SignLock(w)
      PROVE  Result
  BY <1>a, PutOne DEF Goes, ContractSteps
<1>b. ASSUME Answer(w) PROVE Result
  BY <1>a, <1>b DEF Answer, Idle
<1>c. ASSUME req' = req PROVE Result
  BY <1>c DEF Goes
<1>d. ASSUME NEW r, Put(w, r), r.step \in ContractSteps \ {"sign.write", "sign.link"}
      PROVE  Goes(w, {"idle"} \cup ContractSteps) /\ req'[w].step \notin {"sign.write", "sign.link"}
  BY <1>d, PutOne DEF Goes
<1> HIDE DEF Result
<1>1. CASE \/ \E c \in Contracts, v \in Values : UpdateRead(w, c, v) \/ AmendRead(w, c, v)
           \/ \E c \in Contracts : SubmitRead(w, c) \/ SendRead(w, c) \/ SignRead(w, c)
           \/ \E c \in Contracts, role \in Roles : ApproveRead(w, c, role) \/ RejectRead(w, c, role)
  <2>1. Result
    BY <1>1, <1>a DEF UpdateRead, AmendRead, SubmitRead, SendRead, SignRead, ApproveRead, RejectRead,
                      ReadContract, Begin, ContractRequest, Idle
  <2> QED BY <1>1, <2>1 DEF UpdateRead, AmendRead, SubmitRead, SendRead, SignRead, ApproveRead, RejectRead,
                            ReadContract, tables, Result
<1>2. CASE UpdateWrite(w) \/ SubmitWrite(w) \/ ApproveWrite(w) \/ RejectWrite(w) \/ SendWrite(w)
             \/ StatusTasks(w) \/ AmendWrite(w) \/ SignWrite(w)
  <2>1. Answer(w)
    BY <1>2 DEF UpdateWrite, SubmitWrite, ApproveWrite, RejectWrite, SendWrite, SetStatus, SignWrite, StatusTasks, AmendWrite
  <2> QED BY <1>2, <2>1, <1>b DEF UpdateWrite, SubmitWrite, ApproveWrite, RejectWrite, SendWrite, SetStatus, SignWrite,
                                  StatusTasks, AmendWrite, OnlyContracts, Result
<1>3. CASE SignFindCase(w)
  <2>1. \A k : [req[w] EXCEPT !.step = "sign.write", !.kase = k].step = "sign.write"
    BY DEF TypeInv, TypeOK, Request
  <2>2. Result
    BY <1>3, <2>1, <1>a, <1>b DEF SignFindCase
  <2> QED BY <1>3, <2>2 DEF SignFindCase, tables, Result
<1>7. CASE SignLock(w)
  <2>1. [req[w] EXCEPT !.step = "sign.link"].step = "sign.link"
    BY DEF TypeInv, TypeOK, Request
  <2>2. Result
    BY <1>7, <2>1, <1>a DEF SignLock, Goto
  <2> QED BY <1>7, <2>2 DEF SignLock, tables, Result
<1>4. CASE \E c \in Contracts, v \in Values : Create(w, c, v)
  BY <1>4, <1>c DEF Create, OnlyContracts, Result
<1>5. ASSUME NEW c \in Contracts, StatusRead(w, c)
      PROVE  Goes(w, {"idle"} \cup ContractSteps) /\ req'[w].step \notin {"sign.write", "sign.link"} /\ UNCHANGED tables
  <2> DEFINE to == PostSignTransition[contracts[c].status]
             r == [ContractRequest("status.swap", c) EXCEPT !.to = to,
                     !.step = IF to \in {"COMPLETED", "LIQUIDATED"} THEN "status.link"
                              ELSE IF to = "ACTIVE" THEN "status.check" ELSE @]
  <2>1. r.step \in {"status.link", "status.check", "status.swap"}
    BY DEF ContractRequest, Idle
  <2>2. Put(w, r) /\ UNCHANGED tables
    BY <1>5 DEF StatusRead, ReadContract, Begin
  <2> HIDE DEF r
  <2> QED BY <2>1, <2>2, <1>d DEF ContractSteps
<1>6. ASSUME StatusLink(w) \/ StatusCheck(w) \/ StatusSwap(w)
      PROVE  Goes(w, {"idle"} \cup ContractSteps) /\ req'[w].step \notin {"sign.write", "sign.link"}
  <2>1. Answer(w) \/ \E step \in {"status.check", "status.swap", "status.tasks"} : Goto(w, step)
    BY <1>6 DEF StatusLink, StatusCheck, StatusSwap
  <2>2. \A step : [req[w] EXCEPT !.step = step].step = step
    BY DEF TypeInv, TypeOK, Request
  <2>3. CASE Answer(w)
    BY <2>3, PutOne DEF Answer, Idle, Goes
  <2> QED BY <2>1, <2>2, <2>3, <1>d DEF Goto, ContractSteps
<1> QED BY <1>1, <1>2, <1>3, <1>4, <1>5, <1>6, <1>7 DEF ContractsNext, StatusLink, StatusCheck, StatusSwap, OnlyContracts, tables

-----------------------------------------------------------------------------
(* Contracts and their amendments                                           *)

Unsigned == {"ABSENT", "DRAFT", "REVIEW", "APPROVED", "SENT"}

\* The steps at which a handler holds the contract row that it read.
ReadingSteps == ContractSteps \ {"status.tasks"}

\* The row a handler holds is the row there is, and its status lets the handler go on.
ContractHeld(r) ==
  /\ r.step \in ReadingSteps => r.seenContract = contracts[r.contract]
  /\ r.step \in Committing /\ r.seenContract.status # "ABSENT" => r.seenContract = contracts[r.linked]
  /\ r.step \in {"update.write", "submit.write"} => r.seenContract.status = "DRAFT"
  /\ r.step \in {"approve.write", "reject.write"} => r.seenContract.status = "REVIEW"
  /\ r.step = "approve.write" => MayApprove(r.to, r.seenContract)
  /\ r.step = "send.write" => r.seenContract.status = "APPROVED"
  /\ r.step \in {"sign.case", "sign.write", "sign.link"} => r.seenContract.status = "SENT"
  /\ r.step \in {"status.link", "status.check", "status.swap"} =>
       r.seenContract.status \in DOMAIN PostSignTransition /\ r.to = PostSignTransition[r.seenContract.status]
  /\ r.step = "amend.write" => r.seenContract.signed

\* Rows and history of one contract.
SignedStatus(c) == contracts[c].signed <=> contracts[c].status \notin Unsigned
Authorised(c)   == contracts[c].status \in {"APPROVED", "SENT"} /\ contracts[c].value >= ApprovalThreshold
                     => contracts[c].approvedBy = "EXECUTIVE_DIRECTOR"
Chained(h)      == /\ \A i \in DOMAIN h : h[i].previousVersion = i /\ h[i].newVersion = i + 1
                   /\ \A i \in 2..Len(h) : h[i].before = h[i-1].after
History(c)      == /\ contracts[c].version = Len(amendments[c]) + 1
                   /\ Chained(amendments[c])
                   /\ amendments[c] # << >> => /\ contracts[c].signed
                                               /\ contracts[c].value = amendments[c][Len(amendments[c])].after
ContractSound(c) == SignedStatus(c) /\ Authorised(c) /\ History(c)

ContractInv == /\ \A c \in Contracts : ContractSound(c)
               /\ \A w \in Workers : ContractHeld(req[w])

\* A contract of which only approver and status change, on one side of the signature,
\* keeps its history.
LEMMA SameHistory ==
  ASSUME NEW c \in Contracts, History(c), amendments'[c] = amendments[c],
         contracts'[c].version = contracts[c].version,
         amendments[c] # << >> => contracts'[c].signed /\ contracts'[c].value = contracts[c].value
  PROVE  History(c)'
BY DEF History, Chained

LEMMA SameContract ==
  ASSUME NEW c \in Contracts, ContractSound(c), amendments'[c] = amendments[c], contracts'[c] = contracts[c]
  PROVE  ContractSound(c)'
BY DEF ContractSound, History, Chained, SignedStatus, Authorised

\* A step of the only request is judged by what it leaves of the one contract and of itself.
LEMMA ContractWrite ==
  ASSUME TypeInv, ContractInv, Sequential, NEW w \in Workers, NEW c \in Contracts,
         \A d \in Contracts \ {c} : contracts'[d] = contracts[d] /\ amendments'[d] = amendments[d],
         ContractSound(c)', ContractHeld(req[w])'
  PROVE  ContractInv'
BY SameContract DEF ContractInv, Sequential

LEMMA ContractRead ==
  ASSUME TypeInv, ContractInv, Sequential, NEW w \in Workers, UNCHANGED <<contracts, amendments>>, ContractHeld(req[w])'
  PROVE  ContractInv'
BY SameContract DEF ContractInv, Sequential

\* A request that holds no contract.
LEMMA NoContractHeld ==
  ASSUME NEW w \in Workers, req'[w].step \notin ReadingSteps \cup Committing PROVE ContractHeld(req[w])'
BY DEF ContractHeld, ReadingSteps, ContractSteps, Committing

LEMMA AnswerHolds ==
  ASSUME TypeInv, NEW w \in Workers, Answer(w) PROVE ContractHeld(req[w])'
<1>1. req'[w].step = "idle"
  BY PutOne DEF Answer, Idle
<1> QED BY <1>1, NoContractHeld DEF ReadingSteps, ContractSteps, Committing

LEMMA ContractAnswer ==
  ASSUME TypeInv, ContractInv, Sequential, NEW w \in Workers, Answer(w), UNCHANGED <<contracts, amendments>>
  PROVE  ContractInv'
BY ContractRead, AnswerHolds

\* What a handler holds that has just read c, and was let through.
LEMMA ContractBegins ==
  ASSUME TypeInv, ContractInv, Sequential, NEW w \in Workers, NEW c \in Contracts, NEW r, NEW op, Begin(w, op, r),
         UNCHANGED tables, r.step \in ReadingSteps, r.contract = c, r.seenContract = contracts[c],
         r.step \in {"update.write", "submit.write"} => contracts[c].status = "DRAFT",
         r.step \in {"approve.write", "reject.write"} => contracts[c].status = "REVIEW",
         r.step = "approve.write" => MayApprove(r.to, contracts[c]),
         r.step = "send.write" => contracts[c].status = "APPROVED",
         r.step \in {"sign.case", "sign.write", "sign.link"} => contracts[c].status = "SENT",
         r.step \in {"status.link", "status.check", "status.swap"} =>
           contracts[c].status \in DOMAIN PostSignTransition /\ r.to = PostSignTransition[contracts[c].status],
         r.step = "amend.write" => contracts[c].signed
  PROVE  ContractInv'
<1>1. req'[w] = r /\ UNCHANGED <<contracts, amendments>>
  BY PutOne DEF Begin, tables
<1>2. ReadingSteps \cap Committing = {}
  BY DEF ReadingSteps, ContractSteps, Committing
<1>3. ContractHeld(req[w])'
  BY <1>1, <1>2 DEF ContractHeld, MayApprove
<1> QED BY <1>1, <1>3, ContractRead

-----------------------------------------------------------------------------
LEMMA HeldRow ==
  ASSUME TypeInv, ContractInv, NEW w \in Workers, req[w].step \in ReadingSteps
  PROVE  /\ req[w].contract \in Contracts
         /\ req[w].seenContract = contracts[req[w].contract]
         /\ contracts[req[w].contract] \in ContractRow
         /\ amendments[req[w].contract] \in Seq(AmendmentRow)
         /\ ContractSound(req[w].contract)
         /\ ContractHeld(req[w])
BY DEF TypeInv, TypeOK, RequestsTargeted, Targeted, ContractInv, ContractHeld, ReadingSteps

\* The write that ends a handler: one contract row, the amendments as they are.
LEMMA RowWritten ==
  ASSUME TypeInv, ContractInv, Sequential, NEW w \in Workers, NEW c \in Contracts, Answer(w),
         NEW row, contracts' = [contracts EXCEPT ![c] = row], UNCHANGED amendments,
         row.version = contracts[c].version,
         amendments[c] # << >> => row.signed /\ row.value = contracts[c].value,
         row.signed <=> row.status \notin Unsigned,
         row.status \in {"APPROVED", "SENT"} /\ row.value >= ApprovalThreshold => row.approvedBy = "EXECUTIVE_DIRECTOR"
  PROVE  ContractInv'
<1>1. contracts'[c] = row /\ \A d \in Contracts \ {c} : contracts'[d] = contracts[d] /\ amendments'[d] = amendments[d]
  BY DEF TypeInv, TypeOK
<1>2. ContractSound(c)'
  <2>1. History(c) /\ amendments'[c] = amendments[c]
    BY DEF ContractInv, ContractSound
  <2>2. History(c)'
    BY <1>1, <2>1, SameHistory
  <2> QED BY <1>1, <2>2 DEF ContractSound, SignedStatus, Authorised
<1>3. ContractHeld(req[w])'
  BY AnswerHolds
<1> QED BY <1>1, <1>2, <1>3, ContractWrite

LEMMA UnsignedSteps ==
  ASSUME TypeInv, ContractInv, Sequential, NEW w \in Workers,
         UpdateWrite(w) \/ SubmitWrite(w) \/ ApproveWrite(w) \/ RejectWrite(w) \/ SendWrite(w)
  PROVE  ContractInv'
<1> DEFINE c == req[w].contract
<1>a. req[w].step \in {"update.write", "submit.write", "approve.write", "reject.write", "send.write"}
  BY DEF UpdateWrite, SubmitWrite, ApproveWrite, RejectWrite, SendWrite, At
<1>b. /\ c \in Contracts /\ req[w].seenContract = contracts[c]
      /\ contracts[c] \in ContractRow /\ ContractSound(c) /\ ContractHeld(req[w])
  BY <1>a, HeldRow DEF ReadingSteps, ContractSteps
<1>c. Answer(w) /\ UNCHANGED amendments
  BY DEF UpdateWrite, SubmitWrite, ApproveWrite, RejectWrite, SendWrite, SetStatus, OnlyContracts
<1>d. amendments[c] # << >> => contracts[c].signed
  BY <1>b DEF ContractSound, History
<1>e. contracts[c].status \in Unsigned /\ ~contracts[c].signed
  BY <1>a, <1>b DEF ContractHeld, ContractSound, SignedStatus, Unsigned, ContractRow
<1>1. CASE UpdateWrite(w)
  <2> DEFINE row == [contracts[c] EXCEPT !.value = req[w].amount]
  <2>1. contracts' = [contracts EXCEPT ![c] = row] /\ contracts[c].status = "DRAFT"
    BY <1>1, <1>b DEF UpdateWrite, At, ContractHeld
  <2>2. row.version = contracts[c].version /\ row.signed = contracts[c].signed /\ row.status = contracts[c].status
    BY <1>b DEF ContractRow
  <2> HIDE DEF row
  <2> QED BY <1>b, <1>c, <1>d, <1>e, <2>1, <2>2, RowWritten
<1>2. ASSUME NEW status \in {"DRAFT", "REVIEW", "SENT"}, SetStatus(w, status), status = "SENT" => contracts[c].status = "APPROVED"
      PROVE  ContractInv'
  <2> DEFINE row == [contracts[c] EXCEPT !.status = status]
  <2>1. contracts' = [contracts EXCEPT ![c] = row]
    BY <1>2 DEF SetStatus
  <2>2. /\ row.version = contracts[c].version /\ row.signed = contracts[c].signed /\ row.status = status
        /\ row.value = contracts[c].value /\ row.approvedBy = contracts[c].approvedBy
    BY <1>b DEF ContractRow
  <2>3. row.status \in {"APPROVED", "SENT"} /\ row.value >= ApprovalThreshold => row.approvedBy = "EXECUTIVE_DIRECTOR"
    BY <1>2, <1>b, <2>2 DEF ContractSound, Authorised
  <2> HIDE DEF row
  <2> QED BY <1>2, <1>b, <1>c, <1>d, <1>e, <2>1, <2>2, <2>3, RowWritten DEF Unsigned
<1>3. CASE ApproveWrite(w)
  <2> DEFINE row == [contracts[c] EXCEPT !.status = "APPROVED", !.approvedBy = req[w].to]
  <2>1. contracts' = [contracts EXCEPT ![c] = row]
    BY <1>3, <1>b DEF ApproveWrite, TypeInv, TypeOK
  <2>2. /\ row.version = contracts[c].version /\ row.signed = contracts[c].signed /\ row.status = "APPROVED"
        /\ row.value = contracts[c].value /\ row.approvedBy = req[w].to
    BY <1>b DEF ContractRow
  <2>3. contracts[c].value >= ApprovalThreshold => req[w].to = "EXECUTIVE_DIRECTOR"
    BY <1>3, <1>b DEF ContractHeld, ApproveWrite, At, MayApprove
  <2> HIDE DEF row
  <2> QED BY <1>b, <1>c, <1>d, <1>e, <2>1, <2>2, <2>3, RowWritten DEF Unsigned
<1>4. CASE SendWrite(w)
  <2>1. contracts[c].status = "APPROVED"
    BY <1>4, <1>b DEF SendWrite, At, ContractHeld
  <2> QED BY <1>2, <1>4, <2>1 DEF SendWrite
<1>5. CASE SubmitWrite(w) \/ RejectWrite(w)
  BY <1>2, <1>5 DEF SubmitWrite, RejectWrite
<1> QED BY <1>1, <1>3, <1>4, <1>5

LEMMA ContractReads ==
  ASSUME TypeInv, ContractInv, Sequential, NEW w \in Workers, NEW c \in Contracts,
         \/ \E v \in Values : UpdateRead(w, c, v) \/ AmendRead(w, c, v)
         \/ SubmitRead(w, c) \/ SendRead(w, c) \/ SignRead(w, c) \/ StatusRead(w, c)
         \/ \E role \in Roles : ApproveRead(w, c, role) \/ RejectRead(w, c, role)
  PROVE  ContractInv'
<1> USE DEF ReadingSteps, ContractSteps
<1>1. ASSUME NEW v \in Values, UpdateRead(w, c, v) PROVE ContractInv'
  <2> DEFINE r == [ContractRequest("update.write", c) EXCEPT !.amount = v]
  <2>1. r.step = "update.write" /\ r.contract = c /\ r.seenContract = contracts[c]
    BY DEF ContractRequest, Idle
  <2>2. Begin(w, "contract.update", r) /\ UNCHANGED tables /\ contracts[c].status = "DRAFT"
    BY <1>1 DEF UpdateRead, ReadContract
  <2> HIDE DEF r
  <2> QED BY <2>1, <2>2, ContractBegins
<1>2. ASSUME NEW v \in Values, AmendRead(w, c, v) PROVE ContractInv'
  <2> DEFINE r == [ContractRequest("amend.write", c) EXCEPT !.amount = v]
  <2>1. r.step = "amend.write" /\ r.contract = c /\ r.seenContract = contracts[c]
    BY DEF ContractRequest, Idle
  <2>2. Begin(w, "contract.amend", r) /\ UNCHANGED tables /\ contracts[c].signed
    BY <1>2 DEF AmendRead
  <2> HIDE DEF r
  <2> QED BY <2>1, <2>2, ContractBegins
<1>3. ASSUME NEW role \in Roles, ApproveRead(w, c, role) PROVE ContractInv'
  <2> DEFINE r == [ContractRequest("approve.write", c) EXCEPT !.to = role]
  <2>1. r.step = "approve.write" /\ r.contract = c /\ r.seenContract = contracts[c] /\ r.to = role
    BY DEF ContractRequest, Idle
  <2>2. Begin(w, "contract.approve", r) /\ UNCHANGED tables /\ contracts[c].status = "REVIEW"
        /\ MayApprove(role, contracts[c])
    BY <1>3 DEF ApproveRead, ReadContract
  <2> HIDE DEF r
  <2> QED BY <2>1, <2>2, ContractBegins
<1>4. ASSUME NEW op, NEW step \in {"submit.write", "reject.write", "send.write", "sign.case"},
             Begin(w, op, ContractRequest(step, c)), UNCHANGED tables,
             step = "submit.write" => contracts[c].status = "DRAFT",
             step = "reject.write" => contracts[c].status = "REVIEW",
             step = "send.write" => contracts[c].status = "APPROVED",
             step = "sign.case" => contracts[c].status = "SENT"
      PROVE  ContractInv'
  <2> DEFINE r == ContractRequest(step, c)
  <2>1. r.step = step /\ r.contract = c /\ r.seenContract = contracts[c]
    BY DEF ContractRequest, Idle
  <2> HIDE DEF r
  <2> QED BY <1>4, <2>1, ContractBegins DEF r
<1>5. CASE SubmitRead(w, c) \/ SendRead(w, c) \/ SignRead(w, c) \/ \E role \in Roles : RejectRead(w, c, role)
  BY <1>4, <1>5 DEF SubmitRead, SendRead, SignRead, RejectRead, ReadContract
<1>6. CASE StatusRead(w, c)
  <2> DEFINE to == PostSignTransition[contracts[c].status]
             r == [ContractRequest("status.swap", c) EXCEPT !.to = to,
                     !.step = IF to \in {"COMPLETED", "LIQUIDATED"} THEN "status.link"
                              ELSE IF to = "ACTIVE" THEN "status.check" ELSE @]
  <2>1. r.step \in {"status.link", "status.check", "status.swap"} /\ r.contract = c /\ r.seenContract = contracts[c] /\ r.to = to
    BY DEF ContractRequest, Idle
  <2>2. Begin(w, "contract.status", r) /\ UNCHANGED tables /\ contracts[c].status \in DOMAIN PostSignTransition
    BY <1>6 DEF StatusRead, ReadContract
  <2> HIDE DEF r
  <2> QED BY <2>1, <2>2, ContractBegins
<1> QED BY <1>1, <1>2, <1>3, <1>5, <1>6

\* A step that leaves the contract row as it was, in a handler that goes on.
LEMMA ContractGoesOn ==
  ASSUME TypeInv, ContractInv, Sequential, NEW w \in Workers, req[w].step \in ReadingSteps,
         UNCHANGED <<contracts, amendments>>, NEW r, Put(w, r),
         r.contract = req[w].contract, r.seenContract = req[w].seenContract, r.to = req[w].to,
         \/ r.step \in {"sign.write", "sign.link"} /\ req[w].step \in {"sign.case", "sign.write"}
         \/ r.step \in {"status.check", "status.swap"} /\ req[w].step \in {"status.link", "status.check"}
  PROVE  ContractInv'
<1>1. req'[w] = r
  BY PutOne
<1>2. ContractHeld(req[w]) /\ req[w].seenContract = contracts[req[w].contract]
  BY HeldRow
<1>3. ContractHeld(req[w])'
  BY <1>1, <1>2 DEF ContractHeld, ReadingSteps, ContractSteps, Committing
<1> QED BY <1>3, ContractRead

LEMMA SignStep ==
  ASSUME TypeInv, ContractInv, Sequential, NEW w \in Workers, SignFindCase(w) \/ SignLock(w) \/ SignWrite(w)
  PROVE  ContractInv'
<1> DEFINE c == req[w].contract
<1>a. req[w].step \in ReadingSteps /\ req[w].step \in {"sign.case", "sign.write", "sign.link"}
  BY DEF SignFindCase, SignLock, SignWrite, At, ReadingSteps, ContractSteps
<1>b. /\ c \in Contracts /\ contracts[c] \in ContractRow /\ ContractSound(c)
      /\ contracts[c].status = "SENT" /\ req[w] \in Request
  BY <1>a, HeldRow DEF ContractHeld, TypeInv, TypeOK
<1>1. ASSUME NEW k \in ActiveCases, Put(w, [req[w] EXCEPT !.step = "sign.write", !.kase = k]), At(w, "sign.case"),
             UNCHANGED tables
      PROVE  ContractInv'
  <2> DEFINE r == [req[w] EXCEPT !.step = "sign.write", !.kase = k]
  <2>1. r.contract = req[w].contract /\ r.seenContract = req[w].seenContract /\ r.to = req[w].to /\ r.step = "sign.write"
    BY <1>b DEF Request
  <2> HIDE DEF r
  <2> QED BY <1>1, <1>a, <2>1, ContractGoesOn DEF tables, At, r
<1>2. CASE Answer(w) /\ UNCHANGED <<contracts, amendments>>
  BY <1>2, ContractAnswer
<1>3. CASE Answer(w) /\ UNCHANGED amendments /\ contracts' = [contracts EXCEPT ![c].status = "SIGNED", ![c].signed = TRUE]
  <2> DEFINE row == [contracts[c] EXCEPT !.status = "SIGNED", !.signed = TRUE]
  <2>1. contracts' = [contracts EXCEPT ![c] = row]
    BY <1>3, <1>b DEF TypeInv, TypeOK
  <2>2. row.version = contracts[c].version /\ row.signed = TRUE /\ row.status = "SIGNED" /\ row.value = contracts[c].value
    BY <1>b DEF ContractRow
  <2>3. amendments[c] # << >> => contracts[c].signed
    BY <1>b DEF ContractSound, History
  <2>4. row.signed /\ row.status \notin Unsigned /\ row.status \notin {"APPROVED", "SENT"}
    BY <2>2 DEF Unsigned
  <2> HIDE DEF row
  <2> QED BY <1>3, <1>b, <2>1, <2>2, <2>3, <2>4, RowWritten
<1>4. CASE SignLock(w)
  <2> DEFINE r == [req[w] EXCEPT !.step = "sign.link"]
  <2>1. r.contract = req[w].contract /\ r.seenContract = req[w].seenContract /\ r.to = req[w].to /\ r.step = "sign.link"
    BY <1>b DEF Request
  <2>2. Put(w, r) /\ req[w].step = "sign.write" /\ UNCHANGED tables
    BY <1>4 DEF SignLock, Goto, At
  <2> HIDE DEF r
  <2> QED BY <1>a, <2>1, <2>2, ContractGoesOn DEF tables
<1> QED BY <1>1, <1>2, <1>3, <1>4 DEF SignFindCase, SignWrite, tables

LEMMA StatusSteps ==
  ASSUME TypeInv, ContractInv, Sequential, NEW w \in Workers,
         StatusLink(w) \/ StatusCheck(w) \/ StatusSwap(w) \/ StatusTasks(w)
  PROVE  ContractInv'
<1>1. CASE Answer(w) /\ UNCHANGED <<contracts, amendments>>
  BY <1>1, ContractAnswer
<1>2. ASSUME At(w, "status.link") \/ At(w, "status.check"), UNCHANGED <<contracts, amendments>>,
             NEW step \in {"status.check", "status.swap"}, Goto(w, step)
      PROVE  ContractInv'
  <2> DEFINE r == [req[w] EXCEPT !.step = step]
  <2>1. /\ r.contract = req[w].contract /\ r.seenContract = req[w].seenContract /\ r.to = req[w].to /\ r.step = step
    BY DEF TypeInv, TypeOK, Request
  <2>2. Put(w, r) /\ req[w].step \in ReadingSteps /\ req[w].step \in {"status.link", "status.check"}
    BY <1>2 DEF Goto, At, ReadingSteps, ContractSteps
  <2> HIDE DEF r
  <2> QED BY <1>2, <2>1, <2>2, ContractGoesOn
<1>3. CASE StatusLink(w) \/ StatusCheck(w) \/ StatusTasks(w)
  BY <1>1, <1>2, <1>3 DEF StatusLink, StatusCheck, StatusTasks, tables
<1>4. CASE StatusSwap(w)
  <2>a. req[w].step = "status.swap" /\ req[w].step \in ReadingSteps
    BY <1>4 DEF StatusSwap, At, ReadingSteps, ContractSteps
  <2>d. PICK c \in Contracts : c = req[w].contract
    BY <2>a, HeldRow
  <2>b. /\ contracts[c] \in ContractRow /\ ContractSound(c) /\ req[w] \in Request
        /\ contracts[c].status \in DOMAIN PostSignTransition
        /\ req[w].to = PostSignTransition[contracts[c].status]
    BY <2>a, <2>d, HeldRow DEF ContractHeld, TypeInv, TypeOK
  <2>c. contracts[c].signed /\ req[w].to \notin Unsigned
    BY <2>b DEF ContractSound, SignedStatus, PostSignTransition, Unsigned
  <2> DEFINE row == [contracts[c] EXCEPT !.status = req[w].to]
  <2>1. /\ contracts' = contracts \/ contracts' = [contracts EXCEPT ![c] = row]
        /\ UNCHANGED amendments
        /\ Answer(w) \/ Goto(w, "status.tasks")
    BY <1>4, <2>d DEF StatusSwap, OnlyContracts
  <2>2. /\ row.version = contracts[c].version /\ row.signed = contracts[c].signed /\ row.status = req[w].to
        /\ row.value = contracts[c].value
    BY <2>b DEF ContractRow
  <2> HIDE DEF row
  <2>3. \A d \in Contracts \ {c} : contracts'[d] = contracts[d] /\ amendments'[d] = amendments[d]
    BY <2>1 DEF TypeInv, TypeOK
  <2>4. ContractSound(c)'
    <3>1. CASE contracts' = contracts
      BY <2>1, <2>b, <3>1, SameContract
    <3>2. CASE contracts' = [contracts EXCEPT ![c] = row]
      <4>1. contracts'[c] = row /\ amendments'[c] = amendments[c]
        BY <2>1, <2>b, <3>2 DEF TypeInv, TypeOK
      <4>2. History(c)'
        BY <2>b, <2>c, <2>2, <4>1, SameHistory DEF ContractSound
      <4> QED BY <2>c, <2>2, <4>1, <4>2 DEF ContractSound, SignedStatus, Authorised, Unsigned
    <3> QED BY <2>1, <3>1, <3>2
  <2>5. ContractHeld(req[w])'
    <3>1. [req[w] EXCEPT !.step = "status.tasks"].step = "status.tasks"
      BY <2>b DEF Request
    <3>2. CASE Goto(w, "status.tasks")
      BY <3>1, <3>2, PutOne, NoContractHeld DEF Goto, ReadingSteps, Committing
    <3> QED BY <2>1, <3>2, AnswerHolds
  <2> QED BY <2>b, <2>3, <2>4, <2>5, ContractWrite
<1> QED BY <1>3, <1>4

\* The amendment row takes up where the last one left off.
LEMMA Extended ==
  ASSUME NEW h \in Seq(AmendmentRow), NEW row \in AmendmentRow, NEW s, s = Append(h, row), Chained(h),
         row.previousVersion = Len(h) + 1, row.newVersion = Len(h) + 2,
         h # << >> => row.before = h[Len(h)].after
  PROVE  Chained(s) /\ Len(s) = Len(h) + 1 /\ s[Len(s)] = row /\ s # << >>
<1>1. /\ Len(s) = Len(h) + 1 /\ Len(h) \in Nat
      /\ \A i \in 1..Len(h) : s[i] = h[i]
      /\ s[Len(h) + 1] = row /\ DOMAIN s = 1..(Len(h) + 1) /\ DOMAIN h = 1..Len(h)
  OBVIOUS
<1>2. Chained(s)
  <2>1. \A i \in DOMAIN s : s[i].previousVersion = i /\ s[i].newVersion = i + 1
    BY <1>1 DEF Chained
  <2>2. ASSUME NEW i \in 2..Len(s) PROVE s[i].before = s[i-1].after
    <3>1. CASE i <= Len(h)
      BY <1>1, <3>1 DEF Chained
    <3>2. CASE i = Len(h) + 1
      <4>1. s[i] = row /\ i - 1 = Len(h) /\ i - 1 \in 1..Len(h) /\ h # << >>
        BY <1>1, <3>2
      <4> QED BY <1>1, <4>1
    <3> QED BY <1>1, <3>1, <3>2
  <2> QED BY <2>1, <2>2 DEF Chained
<1> QED BY <1>1, <1>2

LEMMA AmendStep ==
  ASSUME TypeInv, ContractInv, Sequential, NEW w \in Workers, AmendWrite(w)
  PROVE  /\ ContractInv'
         /\ \A c \in Contracts : contracts'[c].value # contracts[c].value =>
              LET h == amendments'[c]
              IN  Len(h) = Len(amendments[c]) + 1 /\ h[Len(h)].before = contracts[c].value
                                                 /\ h[Len(h)].after = contracts'[c].value
<1>a. req[w].step = "amend.write" /\ req[w].step \in ReadingSteps /\ req[w] \in Request
  BY DEF AmendWrite, At, ReadingSteps, ContractSteps, TypeInv, TypeOK
<1>0. PICK c \in Contracts : c = req[w].contract
  BY <1>a, HeldRow
<1> DEFINE seen == req[w].seenContract
           row  == [previousVersion |-> seen.version, newVersion |-> seen.version + 1,
                    before |-> seen.value, after |-> req[w].amount]
           new  == [contracts[c] EXCEPT !.version = row.newVersion, !.value = row.after]
           h    == amendments[c]
<1>b. /\ contracts[c] \in ContractRow /\ ContractSound(c) /\ seen = contracts[c]
      /\ contracts[c].signed /\ h \in Seq(AmendmentRow)
  BY <1>a, <1>0, HeldRow DEF ContractHeld
<1>c. row \in AmendmentRow /\ seen.version = Len(h) + 1 /\ Chained(h) /\ (h # << >> => seen.value = h[Len(h)].after)
  BY <1>a, <1>b DEF AmendmentRow, Request, ContractRow, ContractSound, History
<1>d. Answer(w) /\ amendments' = [amendments EXCEPT ![c] = Append(h, row)] /\ contracts' = [contracts EXCEPT ![c] = new]
  BY <1>0 DEF AmendWrite, TypeInv, TypeOK
<1>e. /\ amendments'[c] = Append(h, row) /\ contracts'[c] = new
      /\ \A d \in Contracts \ {c} : contracts'[d] = contracts[d] /\ amendments'[d] = amendments[d]
  BY <1>b, <1>d DEF TypeInv, TypeOK
<1>f. /\ new.version = seen.version + 1 /\ new.value = req[w].amount /\ new.signed = contracts[c].signed
      /\ new.status = contracts[c].status /\ new.approvedBy = contracts[c].approvedBy
  BY <1>b DEF ContractRow
<1>g. /\ row.previousVersion = seen.version /\ row.newVersion = seen.version + 1
      /\ row.before = seen.value /\ row.after = req[w].amount
  OBVIOUS
<1> HIDE DEF row, new
<1>1. LET s == amendments'[c] IN Chained(s) /\ Len(s) = Len(h) + 1 /\ s[Len(s)] = row /\ s # << >>
  <2>1. Len(h) \in Nat /\ row.newVersion = Len(h) + 2
    BY <1>b, <1>c, <1>g
  <2>2. row.previousVersion = Len(h) + 1 /\ (h # << >> => row.before = h[Len(h)].after)
    BY <1>c, <1>g
  <2>3. \A s : s = Append(h, row) => Chained(s) /\ Len(s) = Len(h) + 1 /\ s[Len(s)] = row /\ s # << >>
    <3> HIDE DEF h, seen
    <3> QED BY <1>b, <1>c, <2>1, <2>2, Extended
  <2> QED BY <1>e, <2>3
<1>2. ContractSound(c)'
  <2>1. History(c)'
    BY <1>b, <1>c, <1>e, <1>f, <1>g, <1>1 DEF History
  <2>2. contracts[c].status \notin {"APPROVED", "SENT"}
    BY <1>b DEF ContractSound, SignedStatus, Unsigned
  <2> QED BY <1>b, <1>e, <1>f, <2>1, <2>2 DEF ContractSound, SignedStatus, Authorised
<1>3. ContractInv'
  BY <1>b, <1>d, <1>e, <1>2, AnswerHolds, ContractWrite
<1>4. \A d \in Contracts : contracts'[d].value # contracts[d].value =>
        LET s == amendments'[d]
        IN  Len(s) = Len(amendments[d]) + 1 /\ s[Len(s)].before = contracts[d].value
                                           /\ s[Len(s)].after = contracts'[d].value
  BY <1>b, <1>e, <1>f, <1>g, <1>1
<1> QED BY <1>3, <1>4

-----------------------------------------------------------------------------
\* Steps of the other handlers leave contracts and amendments alone.
Away(w) == /\ UNCHANGED <<contracts, amendments>>
           /\ req'[w] = req[w] \/ req'[w].step \notin ReadingSteps \cup Committing

LEMMA AwayHolds ==
  ASSUME TypeInv, ContractInv, Sequential, NEW w \in Workers, Away(w) PROVE ContractInv'
<1>1. CASE req'[w] = req[w]
  BY <1>1, ContractRead DEF Away, ContractInv, ContractHeld, MayApprove
<1>2. CASE req'[w].step \notin ReadingSteps \cup Committing
  BY <1>2, NoContractHeld, ContractRead DEF Away
<1> QED BY <1>1, <1>2 DEF Away

LEMMA OthersAway ==
  ASSUME TypeInv, NEW w \in Workers, PaymentsNext(w) \/ CasesNext(w) PROVE Away(w)
BY PaymentsGo, CasesGo DEF Away, Goes, OnlyPayments, OnlyCases, ReadingSteps, ContractSteps, Committing, PaymentSteps

\* Every step of the closure workflow but the two transactions.
LEMMA ClosureAway ==
  ASSUME TypeInv, NEW w \in Workers, ClosureNext(w)
  PROVE  Away(w) \/ CloseBegin(w) \/ CloseCommit(w) \/ FinalizeBegin(w) \/ FinalizeCommit(w)
BY ClosureGo DEF Away, Goes, OnlyClosure, ReadingSteps, ContractSteps, Committing, ClosureSteps

LEMMA TransactionBegins ==
  ASSUME TypeInv, ContractInv, Sequential, NEW w \in Workers, CloseBegin(w) \/ FinalizeBegin(w)
  PROVE  ContractInv'
<1> DEFINE seen == IF req[w].linked = None THEN NoContract ELSE contracts[req[w].linked]
<1>1. PICK step \in Committing : Put(w, [req[w] EXCEPT !.step = step, !.seenContract = seen])
  BY DEF CloseBegin, FinalizeBegin, Committing
<1>2. UNCHANGED tables /\ req'[w] = [req[w] EXCEPT !.step = step, !.seenContract = seen]
  BY <1>1, PutOne DEF CloseBegin, FinalizeBegin
<1>3. req'[w].step = step /\ req'[w].seenContract = seen /\ req'[w].linked = req[w].linked
  BY <1>2 DEF TypeInv, TypeOK, Request
<1>4. seen.status # "ABSENT" => seen = contracts'[req[w].linked]
  BY <1>2 DEF NoContract, tables
<1>5. ContractHeld(req[w])'
  <2> HIDE DEF seen
  <2> QED BY <1>3, <1>4 DEF ContractHeld, Committing, ReadingSteps, ContractSteps
<1> QED BY <1>2, <1>5, ContractRead DEF tables

LEMMA TransactionCommits ==
  ASSUME TypeInv, ContractInv, Sequential, NEW w \in Workers, CloseCommit(w) \/ FinalizeCommit(w)
  PROVE  ContractInv'
<1>1. CASE Answer(w) /\ UNCHANGED <<contracts, amendments>>
  BY <1>1, ContractAnswer
<1>2. ASSUME NEW before \in {"ACTIVE", "COMPLETED"}, NEW after \in {"COMPLETED", "LIQUIDATED"},
             req[w].step \in Committing, req[w].seenContract.status = before,
             contracts' = [contracts EXCEPT ![req[w].linked].status = after],
             Answer(w), UNCHANGED amendments
      PROVE  ContractInv'
  <2>1. PICK c \in Contracts : c = req[w].linked /\ contracts[c] = req[w].seenContract
    BY <1>2 DEF TypeInv, RequestsTargeted, Targeted, ContractInv, ContractHeld, Committing
  <2>2. contracts[c] \in ContractRow /\ ContractSound(c) /\ contracts[c].status = before
    BY <1>2, <2>1 DEF TypeInv, TypeOK, ContractInv
  <2> DEFINE row == [contracts[c] EXCEPT !.status = after]
  <2>3. contracts' = [contracts EXCEPT ![c] = row]
    BY <1>2, <2>1
  <2>4. row.version = contracts[c].version /\ row.signed = contracts[c].signed /\ row.status = after
        /\ row.value = contracts[c].value
    BY <2>2 DEF ContractRow
  <2>5. contracts[c].signed /\ row.status \notin Unsigned /\ row.status \notin {"APPROVED", "SENT"}
    BY <1>2, <2>2, <2>4 DEF ContractSound, SignedStatus, Unsigned
  <2> HIDE DEF row
  <2> QED BY <1>2, <2>3, <2>4, <2>5, RowWritten
<1> QED BY <1>1, <1>2 DEF CloseCommit, FinalizeCommit, OnlyClosure, At, Committing

LEMMA CreateStep ==
  ASSUME TypeInv, ContractInv, Sequential, NEW w \in Workers, NEW c \in Contracts, NEW v \in Values, Create(w, c, v)
  PROVE  ContractInv'
<1> DEFINE row == [NoContract EXCEPT !.status = "DRAFT", !.value = v]
<1>1. /\ row.status = "DRAFT" /\ row.version = 1 /\ row.signed = FALSE
  BY DEF NoContract
<1>2. contracts[c].status = "ABSENT" /\ contracts' = [contracts EXCEPT ![c] = row] /\ UNCHANGED <<amendments, req>>
      /\ req[w].step = "idle"
  BY DEF Create, OnlyContracts, At
<1> HIDE DEF row
<1>3. contracts'[c] = row /\ \A d \in Contracts \ {c} : contracts'[d] = contracts[d] /\ amendments'[d] = amendments[d]
  BY <1>2 DEF TypeInv, TypeOK
<1>4. ~contracts[c].signed
  BY <1>2 DEF ContractInv, ContractSound, SignedStatus, Unsigned, TypeInv, TypeOK, ContractRow
<1>5. amendments[c] = << >>
  BY <1>4 DEF ContractInv, ContractSound, History
<1>6. ContractSound(c)'
  BY <1>1, <1>2, <1>3, <1>5 DEF ContractSound, SignedStatus, Authorised, History, Chained, Unsigned
<1>7. ContractHeld(req[w])'
  BY <1>2, NoContractHeld DEF ReadingSteps, ContractSteps, Committing
<1> QED BY <1>3, <1>6, <1>7, ContractWrite

LEMMA ContractInit == Init => ContractInv
<1> SUFFICES ASSUME Init PROVE ContractInv
  OBVIOUS
<1>1. ASSUME NEW c \in Contracts PROVE ContractSound(c)
  <2>1. /\ amendments[c] = << >>
        /\ contracts[c] = NoContract \/ \E v \in Values : contracts[c] = SignedContract(v)
    BY DEF Init, InitRows
  <2>2. /\ contracts[c].version = 1
        /\ contracts[c].signed <=> contracts[c].status \notin Unsigned
        /\ contracts[c].status \notin {"APPROVED", "SENT"}
    <3>1. NoContract.version = 1 /\ NoContract.signed = FALSE /\ NoContract.status = "ABSENT"
      BY DEF NoContract
    <3>2. \A v : LET row == SignedContract(v) IN row.version = 1 /\ row.signed = TRUE /\ row.status = "SIGNED"
      BY DEF SignedContract, NoContract
    <3> QED BY <2>1, <3>1, <3>2 DEF Unsigned
  <2>3. Chained(<< >>)
    BY DEF Chained
  <2> QED BY <2>1, <2>2, <2>3 DEF ContractSound, SignedStatus, Authorised, History
<1>2. \A w \in Workers : ContractHeld(req[w])
  BY DEF Init, Idle, ContractHeld, ReadingSteps, ContractSteps, Committing
<1> QED BY <1>1, <1>2 DEF ContractInv

LEMMA ContractStep ==
  ASSUME TypeInv, ContractInv, Sequential, [Next]_vars
  PROVE  ContractInv'
<1>1. CASE UNCHANGED vars
  BY <1>1, SameContract DEF vars, ContractInv, ContractHeld, MayApprove
<1>2. CASE Crash
  <2>1. UNCHANGED <<contracts, amendments>> /\ \A w \in Workers : req'[w].step = "idle"
    BY <1>2 DEF Crash, tables, Idle
  <2> QED BY <2>1, NoContractHeld, SameContract DEF ContractInv, ReadingSteps, ContractSteps, Committing
<1>3. ASSUME NEW w \in Workers, ContractsNext(w) PROVE ContractInv'
  BY <1>3, CreateStep, ContractReads, UnsignedSteps, SignStep, StatusSteps, AmendStep DEF ContractsNext
<1>4. ASSUME NEW w \in Workers, PaymentsNext(w) \/ CasesNext(w) PROVE ContractInv'
  BY <1>4, OthersAway, AwayHolds
<1>5. ASSUME NEW w \in Workers, ClosureNext(w) PROVE ContractInv'
  BY <1>5, ClosureAway, AwayHolds, TransactionBegins, TransactionCommits
<1> QED BY <1>1, <1>2, <1>3, <1>4, <1>5 DEF Next

LEMMA ContractInvariant == ASSUME Sequential PROVE Spec => [](TypeInv /\ ContractInv)
<1>1. Init => TypeInv /\ ContractInv
  BY TypeInit, ContractInit
<1>2. TypeInv /\ ContractInv /\ [Next]_vars => (TypeInv /\ ContractInv)'
  BY TypeStep, ContractStep
<1> QED BY <1>1, <1>2, PTL DEF Spec

\* While requests do not overlap a contract approved at or above the threshold was
\* approved by the director (contracts.service.ts:193-204, 480-490).
THEOREM TermsWithinAuthority == ASSUME Sequential PROVE Spec => []ApprovalAuthority
<1>1. ContractInv => ApprovalAuthority
  BY DEF ContractInv, ContractSound, Authorised, ApprovalAuthority
<1> QED BY <1>1, ContractInvariant, PTL

\* While requests do not overlap the amendments are a gapless history that leads to
\* the contract's present version and value (contracts.service.ts:425-452).
THEOREM HistoryIsGapless == ASSUME Sequential PROVE Spec => []AmendmentHistory
<1>1. ContractInv => AmendmentHistory
  BY DEF ContractInv, ContractSound, History, Chained, AmendmentHistory
<1> QED BY <1>1, ContractInvariant, PTL

-----------------------------------------------------------------------------
(* The terms of a signed contract                                           *)

\* A write of status and signature columns.
LEMMA StatusColumns ==
  ASSUME TypeInv, NEW c,
         \/ \E x : contracts' = [contracts EXCEPT ![c].status = x]
         \/ \E x, y : contracts' = [contracts EXCEPT ![c].status = x, ![c].approvedBy = y]
         \/ \E x, y : contracts' = [contracts EXCEPT ![c].status = x, ![c].signed = y]
  PROVE  \A d \in Contracts : contracts'[d].value = contracts[d].value
<1>a. contracts \in [Contracts -> ContractRow]
  BY DEF TypeInv, TypeOK
<1>1. PICK row : contracts' = [contracts EXCEPT ![c] = row] /\ (c \in Contracts => row.value = contracts[c].value)
  <2>1. ASSUME NEW x, contracts' = [contracts EXCEPT ![c].status = x]
        PROVE  \E row : contracts' = [contracts EXCEPT ![c] = row] /\ (c \in Contracts => row.value = contracts[c].value)
    <3>1. c \in Contracts => [contracts[c] EXCEPT !.status = x].value = contracts[c].value
      BY <1>a DEF ContractRow
    <3> QED BY <2>1, <3>1
  <2>2. ASSUME NEW x, NEW y, contracts' = [contracts EXCEPT ![c].status = x, ![c].approvedBy = y]
        PROVE  \E row : contracts' = [contracts EXCEPT ![c] = row] /\ (c \in Contracts => row.value = contracts[c].value)
    <3> DEFINE row == [contracts[c] EXCEPT !.status = x, !.approvedBy = y]
    <3>1. c \in Contracts => row.value = contracts[c].value
      BY <1>a DEF ContractRow
    <3>2. contracts' = [contracts EXCEPT ![c] = row]
      BY <1>a, <2>2
    <3> QED BY <3>1, <3>2
  <2>3. ASSUME NEW x, NEW y, contracts' = [contracts EXCEPT ![c].status = x, ![c].signed = y]
        PROVE  \E row : contracts' = [contracts EXCEPT ![c] = row] /\ (c \in Contracts => row.value = contracts[c].value)
    <3> DEFINE row == [contracts[c] EXCEPT !.status = x, !.signed = y]
    <3>1. c \in Contracts => row.value = contracts[c].value
      BY <1>a DEF ContractRow
    <3>2. contracts' = [contracts EXCEPT ![c] = row]
      BY <1>a, <2>3
    <3> QED BY <3>1, <3>2
  <2> QED BY <2>1, <2>2, <2>3
<1> QED BY <1>a, <1>1

LEMMA SameTerms ==
  ASSUME TypeInv, ContractInv, Sequential, NEW w \in Workers,
         ContractsNext(w) \/ PaymentsNext(w) \/ CasesNext(w) \/ ClosureNext(w),
         ~AmendWrite(w)
  PROVE  \A c \in Contracts : contracts[c].signed => contracts'[c].value = contracts[c].value
<1>1. CASE UNCHANGED contracts
  BY <1>1
<1>2. CASE \E c \in Contracts, v \in Values : Create(w, c, v)
  <2>1. PICK c \in Contracts : contracts[c].status = "ABSENT" /\ \A d \in Contracts \ {c} : contracts'[d] = contracts[d]
    BY <1>2 DEF Create, TypeInv, TypeOK
  <2>2. ~contracts[c].signed
    BY <2>1 DEF ContractInv, ContractSound, SignedStatus, Unsigned, TypeInv, TypeOK, ContractRow
  <2> QED BY <2>1, <2>2
<1>3. CASE UpdateWrite(w)
  <2>1. req[w].step = "update.write" /\ req[w].step \in ReadingSteps
    BY <1>3 DEF UpdateWrite, At, ReadingSteps, ContractSteps
  <2>2. PICK c \in Contracts : c = req[w].contract /\ contracts[c].status = "DRAFT" /\ ContractSound(c)
    BY <2>1, HeldRow DEF ContractHeld
  <2>3. ~contracts[c].signed
    BY <2>2 DEF ContractSound, SignedStatus, Unsigned, TypeInv, TypeOK, ContractRow
  <2>4. \A d \in Contracts \ {c} : contracts'[d] = contracts[d]
    BY <1>3, <2>2 DEF UpdateWrite, TypeInv, TypeOK
  <2> QED BY <2>3, <2>4
<1>4. CASE SubmitWrite(w) \/ ApproveWrite(w) \/ RejectWrite(w) \/ SendWrite(w)
  BY <1>4, StatusColumns DEF SubmitWrite, ApproveWrite, RejectWrite, SendWrite, SetStatus
<1>5. CASE SignWrite(w) \/ StatusSwap(w)
  BY <1>1, <1>5, StatusColumns DEF SignWrite, StatusSwap
<1>6. CASE \/ \E c \in Contracts, v \in Values : UpdateRead(w, c, v) \/ AmendRead(w, c, v)
           \/ \E c \in Contracts : SubmitRead(w, c) \/ SendRead(w, c) \/ SignRead(w, c) \/ StatusRead(w, c)
           \/ \E c \in Contracts, role \in Roles : ApproveRead(w, c, role) \/ RejectRead(w, c, role)
           \/ SignFindCase(w) \/ SignLock(w) \/ StatusLink(w) \/ StatusCheck(w) \/ StatusTasks(w)
  BY <1>1, <1>6 DEF UpdateRead, AmendRead, SubmitRead, SendRead, SignRead, StatusRead, ApproveRead, RejectRead,
                    ReadContract, SignFindCase, SignLock, StatusLink, StatusCheck, StatusTasks, tables
<1>7. CASE ContractsNext(w)
  BY <1>2, <1>3, <1>4, <1>5, <1>6, <1>7 DEF ContractsNext
<1>8. CASE PaymentsNext(w) \/ CasesNext(w)
  BY <1>1, <1>8, OthersAway DEF Away
<1>9. CASE ClosureNext(w)
  BY <1>1, <1>9, ClosureAway, StatusColumns DEF Away, CloseBegin, FinalizeBegin, CloseCommit, FinalizeCommit, tables
<1> QED BY <1>7, <1>8, <1>9

\* The terms of a signed contract change only together with an amendment row that
\* records them before and after (contracts.service.ts:135-138, 425-452).
THEOREM TermsNeedAmendment == ASSUME Sequential PROVE Spec => TermsChangeByAmendment
<1>1. ASSUME TypeInv, ContractInv, [Next]_vars, NEW c \in Contracts, contracts[c].signed, contracts'[c].value # contracts[c].value
      PROVE  LET h == amendments'[c]
             IN  /\ Len(h) = Len(amendments[c]) + 1
                 /\ h[Len(h)].before = contracts[c].value
                 /\ h[Len(h)].after = contracts'[c].value
  <2>1. CASE UNCHANGED vars \/ Crash
    BY <1>1, <2>1 DEF vars, Crash, tables
  <2>2. ASSUME NEW w \in Workers, AmendWrite(w)
        PROVE  LET h == amendments'[c]
               IN  /\ Len(h) = Len(amendments[c]) + 1
                   /\ h[Len(h)].before = contracts[c].value
                   /\ h[Len(h)].after = contracts'[c].value
    BY <1>1, <2>2, AmendStep
  <2> QED BY <1>1, <2>1, <2>2, SameTerms DEF Next
<1>2. TypeInv /\ ContractInv /\ [Next]_vars =>
        \A c \in Contracts :
          contracts[c].signed /\ contracts'[c].value # contracts[c].value
            => LET h == amendments'[c]
               IN  /\ Len(h) = Len(amendments[c]) + 1
                   /\ h[Len(h)].before = contracts[c].value
                   /\ h[Len(h)].after = contracts'[c].value
  BY <1>1
<1> QED BY <1>2, ContractInvariant, PTL DEF Spec, TermsChangeByAmendment

-----------------------------------------------------------------------------
(* Payments: the ledger and the money behind an activation                  *)

\* The steps at which a handler holds the payment row that it read.
HoldingSteps == PaymentSteps \ {"installment.create"}

LedgerRow(p) == /\ p.refunded <= p.paid
                /\ p.status = "REFUNDED" => p.paid > 0 /\ p.refunded = p.paid
                /\ p.paid > p.amount => p.status \notin UnresolvedStatuses

\* The sums a handler holds are the sums there are; only a sweep comes in between.
PaymentHeld(r) ==
  r.step \in HoldingSteps =>
    LET p    == payments[r.contract][r.installment]
        seen == r.seenPayment
    IN  /\ p.amount = seen.amount /\ p.paid = seen.paid /\ p.refunded = seen.refunded
        /\ r.step # "waive.write" => r.amount > 0
        /\ IF r.step = "refund.write" THEN r.amount <= seen.paid - seen.refunded
           ELSE p.status \notin ResolvedStatuses \cup {"ABSENT"}

\* A request about to activate a contract has seen the money.
ActivationHeld(r) ==
  /\ r.step = "status.link" => r.to # "ACTIVE"
  /\ r.step = "status.swap" /\ r.to = "ACTIVE" => Activatable(r.contract, r.seenContract.value)

LedgerInv == /\ \A c \in Contracts, n \in Installments : LedgerRow(payments[c][n])
             /\ \A w \in Workers : PaymentHeld(req[w]) /\ ActivationHeld(req[w])

\* What a sweep does to a row.
Ages(p, q) == /\ q.amount = p.amount /\ q.paid = p.paid /\ q.refunded = p.refunded
              /\ \/ q.status = p.status
                 \/ p.status \in {"PENDING", "PARTIALLY_PAID"} /\ q.status = "OVERDUE"
Aged == \A c \in Contracts, n \in Installments : Ages(payments[c][n], payments'[c][n])

LEMMA SweptAges ==
  ASSUME TypeInv, NEW c, NEW due, payments' = [payments EXCEPT ![c] = Swept(c, due)]
  PROVE  Aged
<1> SUFFICES ASSUME NEW d \in Contracts, NEW n \in Installments PROVE Ages(payments[d][n], payments'[d][n])
  BY DEF Aged
<1>1. CASE d # c
  BY <1>1 DEF TypeInv, TypeOK, Ages
<1>2. CASE d = c
  <2> DEFINE q == [payments[c][n] EXCEPT !.status = "OVERDUE"]
  <2>1. payments[c][n] \in PaymentRow
    BY <1>2 DEF TypeInv, TypeOK
  <2>2. q.status = "OVERDUE" /\ q.amount = payments[c][n].amount
        /\ q.paid = payments[c][n].paid /\ q.refunded = payments[c][n].refunded
    BY <2>1 DEF PaymentRow
  <2>3. payments'[c][n] = IF n \in due /\ payments[c][n].status \in {"PENDING", "PARTIALLY_PAID"}
                          THEN q ELSE payments[c][n]
    BY <1>2 DEF TypeInv, TypeOK, Swept
  <2> HIDE DEF q
  <2> QED BY <1>2, <2>2, <2>3 DEF Ages
<1> QED BY <1>1, <1>2

LEMMA SameAges == ASSUME UNCHANGED payments PROVE Aged
BY DEF Aged, Ages

LEMMA AgedRows ==
  ASSUME TypeInv, LedgerInv, Aged
  PROVE  \A c \in Contracts, n \in Installments : LedgerRow(payments[c][n])'
<1> SUFFICES ASSUME NEW c \in Contracts, NEW n \in Installments PROVE LedgerRow(payments[c][n])'
  OBVIOUS
<1>1. Ages(payments[c][n], payments'[c][n]) /\ LedgerRow(payments[c][n])
  BY DEF Aged, LedgerInv
<1>2. payments[c][n] \in PaymentRow
  BY DEF TypeInv, TypeOK
<1> QED BY <1>1, <1>2 DEF Ages, LedgerRow, PaymentRow, UnresolvedStatuses

\* What came in and was not given back depends on the two sums alone.
LEMMA SameNetPaid ==
  ASSUME NEW c \in Contracts,
         \A n \in Installments : payments'[c][n].paid = payments[c][n].paid
                                   /\ payments'[c][n].refunded = payments[c][n].refunded
  PROVE  NetPaid(c)' = NetPaid(c)
<1>1. [n \in Installments |-> payments'[c][n].paid - payments'[c][n].refunded] =
        [n \in Installments |-> payments[c][n].paid - payments[c][n].refunded]
  OBVIOUS
<1> QED BY <1>1 DEF NetPaid

LEMMA AgedActivation ==
  ASSUME TypeInv, Aged, NEW w \in Workers, ActivationHeld(req[w]), req'[w] = req[w]
  PROVE  ActivationHeld(req[w])'
<1>1. CASE req[w].step = "status.swap"
  <2>1. PICK c \in Contracts : c = req[w].contract
    BY <1>1 DEF TypeInv, RequestsTargeted, Targeted, ContractSteps
  <2>2. NetPaid(c)' = NetPaid(c)
    BY SameNetPaid DEF Aged, Ages
  <2> QED BY <1>1, <2>1, <2>2 DEF ActivationHeld, Activatable
<1>2. CASE req[w].step # "status.swap"
  BY <1>2 DEF ActivationHeld
<1> QED BY <1>1, <1>2

LEMMA AgedPayment ==
  ASSUME TypeInv, Aged, NEW w \in Workers, PaymentHeld(req[w]), req'[w] = req[w]
  PROVE  PaymentHeld(req[w])'
<1> SUFFICES ASSUME req[w].step \in HoldingSteps PROVE PaymentHeld(req[w])'
  BY DEF PaymentHeld
<1>1. PICK c \in Contracts, n \in Installments : c = req[w].contract /\ n = req[w].installment
  BY DEF TypeInv, RequestsTargeted, Targeted, HoldingSteps
<1>2. Ages(payments[c][n], payments'[c][n])
  BY DEF Aged
<1>3. payments[c][n].status \notin ResolvedStatuses \cup {"ABSENT"}
        => payments'[c][n].status \notin ResolvedStatuses \cup {"ABSENT"}
  BY <1>2 DEF Ages, ResolvedStatuses
<1> QED BY <1>1, <1>2, <1>3 DEF Ages, PaymentHeld

\* A step of the only request that changes at most the status of unresolved rows.
LEMMA LedgerStays ==
  ASSUME TypeInv, LedgerInv, Sequential, NEW w \in Workers, Aged,
         \/ req'[w] = req[w]
         \/ req'[w].step \notin HoldingSteps \cup {"status.link", "status.swap"}
         \/ PaymentHeld(req[w])' /\ ActivationHeld(req[w])'
  PROVE  LedgerInv'
<1>1. PaymentHeld(req[w])' /\ ActivationHeld(req[w])'
  BY AgedPayment, AgedActivation DEF LedgerInv, PaymentHeld, ActivationHeld
<1> QED BY <1>1, AgedRows DEF LedgerInv, Sequential

LEMMA LedgerAnswer ==
  ASSUME TypeInv, LedgerInv, Sequential, NEW w \in Workers, Aged, Answer(w) PROVE LedgerInv'
<1>1. req'[w].step \notin HoldingSteps \cup {"status.link", "status.swap"}
  BY PutOne DEF Answer, Idle, HoldingSteps, PaymentSteps
<1> QED BY <1>1, LedgerStays

-----------------------------------------------------------------------------
\* A handler reads a row it will write: nothing can be resolved or over-refunded.
LEMMA PaymentReads ==
  ASSUME TypeInv, LedgerInv, Sequential, NEW w \in Workers, NEW c \in Contracts, NEW n \in Installments,
         NEW amount \in Amounts, RecordRead(w, c, n, amount) \/ RefundRead(w, c, n, amount) \/ WaiveRead(w, c, n)
  PROVE  LedgerInv'
<1> DEFINE held(step) == PaymentRequest(step, c, n)
<1>a. amount > 0
  BY MoneyAssumption
<1>b. \A step : /\ held(step).step = step /\ held(step).contract = c /\ held(step).installment = n
                /\ held(step).seenPayment = payments[c][n]
                /\ LET r == [held(step) EXCEPT !.amount = amount]
                   IN  r.step = step /\ r.contract = c /\ r.installment = n /\ r.seenPayment = payments[c][n]
                                     /\ r.amount = amount
  BY DEF PaymentRequest, Idle
<1>1. PICK r : /\ Put(w, r) /\ r.contract = c /\ r.installment = n /\ r.seenPayment = payments[c][n]
               /\ r.step # "waive.write" => r.amount > 0
               /\ \/ r.step \in {"record.open", "waive.write"} /\ payments[c][n].status \notin ResolvedStatuses \cup {"ABSENT"}
                  \/ r.step = "refund.write" /\ r.amount <= payments[c][n].paid - payments[c][n].refunded
  <2> HIDE DEF held
  <2>1. CASE RecordRead(w, c, n, amount)
    BY <1>a, <1>b, <2>1 DEF RecordRead, ReadPayment, Begin, held
  <2>2. CASE RefundRead(w, c, n, amount)
    <3>1. LET r == [held("refund.write") EXCEPT !.amount = amount]
          IN  Put(w, r) /\ r.amount <= payments[c][n].paid - payments[c][n].refunded
      BY <1>b, <2>2 DEF RefundRead, ReadPayment, Begin, held
    <3> QED BY <1>a, <1>b, <3>1
  <2>3. CASE WaiveRead(w, c, n)
    BY <1>b, <2>3 DEF WaiveRead, ReadPayment, Begin, held
  <2> QED BY <2>1, <2>2, <2>3
<1>2. UNCHANGED payments
  BY DEF RecordRead, RefundRead, WaiveRead, ReadPayment, tables
<1>3. req'[w] = r
  BY <1>1, PutOne
<1>4. PaymentHeld(req[w])' /\ ActivationHeld(req[w])'
  BY <1>1, <1>2, <1>3 DEF PaymentHeld, ActivationHeld
<1> QED BY <1>2, <1>4, SameAges, LedgerStays

LEMMA OpenCheck ==
  ASSUME TypeInv, LedgerInv, Sequential, NEW w \in Workers, RecordCheckOpen(w)
  PROVE  LedgerInv'
<1>1. UNCHANGED payments /\ req[w].step = "record.open" /\ PaymentHeld(req[w])
  BY DEF RecordCheckOpen, tables, At, LedgerInv
<1>2. CASE Answer(w)
  BY <1>1, <1>2, SameAges, LedgerAnswer
<1>3. CASE Goto(w, "record.write")
  <2> DEFINE r == [req[w] EXCEPT !.step = "record.write"]
  <2>1. /\ r.step = "record.write" /\ r.contract = req[w].contract /\ r.installment = req[w].installment
        /\ r.seenPayment = req[w].seenPayment /\ r.amount = req[w].amount
    BY DEF TypeInv, TypeOK, Request
  <2>2. req'[w] = r
    BY <1>3, PutOne DEF Goto
  <2> HIDE DEF r
  <2>3. PaymentHeld(req[w])' /\ ActivationHeld(req[w])'
    BY <1>1, <2>1, <2>2 DEF PaymentHeld, ActivationHeld, HoldingSteps, PaymentSteps
  <2> QED BY <1>1, <2>3, SameAges, LedgerStays
<1> QED BY <1>2, <1>3 DEF RecordCheckOpen

\* The write that ends a handler of PaymentsService.
LEMMA LedgerWrite ==
  ASSUME TypeInv, LedgerInv, Sequential, NEW w \in Workers, req[w].step \in PaymentSteps,
         NEW row, WritePayment(w, row), LedgerRow(row)
  PROVE  LedgerInv'
<1>1. PICK c \in Contracts, n \in Installments : c = req[w].contract /\ n = req[w].installment
  BY DEF TypeInv, RequestsTargeted, Targeted
<1>2. \A d \in Contracts, m \in Installments : payments'[d][m] = IF d = c /\ m = n THEN row ELSE payments[d][m]
  BY <1>1 DEF WritePayment, TypeInv, TypeOK
<1>3. \A d \in Contracts, m \in Installments : LedgerRow(payments[d][m])'
  BY <1>2 DEF LedgerInv, LedgerRow
<1>4. req'[w].step = "idle"
  BY PutOne DEF WritePayment, Answer, Idle
<1> QED BY <1>3, <1>4 DEF LedgerInv, Sequential, PaymentHeld, ActivationHeld, HoldingSteps, PaymentSteps

\* Above the bound a comparison leaves no doubt.
LEMMA CertainAbove ==
  ASSUME NEW sum \in Nat, NEW bound \in Nat, NEW yes \in AtLeast(sum, bound), sum > bound
  PROVE  yes
<1>1. AtLeast(sum, bound) = {sum > bound}
  <2>1. sum # bound
    OBVIOUS
  <2> QED BY <2>1, Zenon DEF AtLeast
<1>2. yes = (sum > bound)
  BY <1>1, Zenon
<1> QED BY <1>2, Zenon

LEMMA PaymentWrites ==
  ASSUME TypeInv, LedgerInv, Sequential, NEW w \in Workers,
         CreateInstallment(w) \/ RecordWrite(w) \/ RefundWrite(w) \/ WaiveWrite(w)
  PROVE  LedgerInv'
<1> DEFINE p == Current(w)
           seen == req[w].seenPayment
           a == req[w].amount
<1>a. req[w].step \in PaymentSteps
  BY DEF CreateInstallment, RecordWrite, RefundWrite, WaiveWrite, At, PaymentSteps
<1>b. p \in PaymentRow /\ LedgerRow(p) /\ PaymentHeld(req[w]) /\ seen \in PaymentRow /\ a \in Nat
  BY <1>a DEF TypeInv, TypeOK, RequestsTargeted, Targeted, LedgerInv, Current, Request
<1>1. CASE CreateInstallment(w)
  <2>1. CASE Answer(w) /\ UNCHANGED payments
    BY <2>1, SameAges, LedgerAnswer
  <2>2. CASE WritePayment(w, [NoPayment EXCEPT !.status = "PENDING", !.amount = a])
    <3> DEFINE row == [NoPayment EXCEPT !.status = "PENDING", !.amount = a]
    <3>1. row.status = "PENDING" /\ row.amount = a /\ row.paid = 0 /\ row.refunded = 0
      BY DEF NoPayment
    <3> HIDE DEF row
    <3>2. LedgerRow(row)
      BY <1>b, <3>1 DEF LedgerRow
    <3> QED BY <1>a, <2>2, <3>2, LedgerWrite DEF row
  <2> QED BY <1>1, <2>1, <2>2 DEF CreateInstallment
<1>2. CASE RecordWrite(w)
  <2> DEFINE paid == seen.paid + a
  <2>a. PICK covered \in AtLeast(paid, seen.amount) :
          WritePayment(w, [p EXCEPT !.paid = paid, !.status = IF covered THEN "PAID" ELSE "PARTIALLY_PAID"])
    BY <1>2 DEF RecordWrite
  <2> DEFINE row == [p EXCEPT !.paid = paid, !.status = IF covered THEN "PAID" ELSE "PARTIALLY_PAID"]
  <2>1. req[w].step = "record.write" /\ WritePayment(w, row)
    BY <1>2, <2>a DEF RecordWrite, At
  <2>2. p.amount = seen.amount /\ p.paid = seen.paid /\ p.refunded = seen.refunded /\ a > 0
    BY <1>b, <2>1 DEF PaymentHeld, HoldingSteps, PaymentSteps, Current
  <2>3. row.paid = paid /\ row.amount = p.amount /\ row.refunded = p.refunded
        /\ row.status = IF covered THEN "PAID" ELSE "PARTIALLY_PAID"
    BY <1>b DEF PaymentRow
  <2>4. p.refunded <= p.paid /\ p.paid \in Nat /\ p.refunded \in Nat
    BY <1>b DEF LedgerRow, PaymentRow
  <2>b. paid > seen.amount => covered
    <3>1. seen.amount \in Nat /\ paid \in Nat
      BY <1>b DEF PaymentRow
    <3> HIDE DEF paid, seen
    <3> QED BY <2>a, <3>1, CertainAbove
  <2> HIDE DEF row, p
  <2>5. LedgerRow(row)
    BY <1>b, <2>2, <2>3, <2>4, <2>b DEF LedgerRow, UnresolvedStatuses
  <2> QED BY <1>a, <2>1, <2>5, LedgerWrite
<1>3. CASE RefundWrite(w)
  <2> DEFINE refunded == seen.refunded + a
  <2>a. PICK all \in AtLeast(refunded, seen.paid) :
          WritePayment(w, [p EXCEPT !.refunded = refunded, !.status = IF all THEN "REFUNDED" ELSE @])
    BY <1>3 DEF RefundWrite
  <2> DEFINE row == [p EXCEPT !.refunded = refunded, !.status = IF all THEN "REFUNDED" ELSE @]
  <2>1. req[w].step = "refund.write" /\ WritePayment(w, row)
    BY <1>3, <2>a DEF RefundWrite, At
  <2>2. p.paid = seen.paid /\ p.refunded = seen.refunded /\ a > 0 /\ a <= seen.paid - seen.refunded
    BY <1>b, <2>1 DEF PaymentHeld, HoldingSteps, PaymentSteps, Current
  <2>3. row.paid = p.paid /\ row.amount = p.amount /\ row.refunded = refunded
        /\ row.status = IF all THEN "REFUNDED" ELSE p.status
    BY <1>b DEF PaymentRow
  <2>4. p.paid \in Nat /\ p.refunded \in Nat /\ seen.paid \in Nat
    BY <1>b DEF PaymentRow
  <2>b. all => refunded >= seen.paid
    <3>1. refunded \in Nat
      BY <1>b, <2>2 DEF PaymentRow
    <3> HIDE DEF refunded
    <3> QED BY <2>4, <3>1, NotBelow
  <2> HIDE DEF row, p
  <2>5. LedgerRow(row)
    BY <1>b, <2>2, <2>3, <2>4, <2>b DEF LedgerRow, UnresolvedStatuses
  <2> QED BY <1>a, <2>1, <2>5, LedgerWrite
<1>4. CASE WaiveWrite(w)
  <2> DEFINE row == [p EXCEPT !.status = "WAIVED"]
  <2>1. req[w].step = "waive.write" /\ WritePayment(w, row)
    BY <1>4 DEF WaiveWrite, At
  <2>3. row.paid = p.paid /\ row.refunded = p.refunded /\ row.status = "WAIVED"
    BY <1>b DEF PaymentRow
  <2> HIDE DEF row, p
  <2>4. LedgerRow(row)
    BY <1>b, <2>3 DEF LedgerRow, UnresolvedStatuses
  <2> QED BY <1>a, <2>1, <2>4, LedgerWrite
<1> QED BY <1>1, <1>2, <1>3, <1>4

\* updateStatus() activates a contract only through the check of what came in.
LEMMA LedgerStatusSteps ==
  ASSUME TypeInv, LedgerInv, Sequential, NEW w \in Workers,
         (\E c \in Contracts : StatusRead(w, c)) \/ StatusLink(w) \/ StatusCheck(w) \/ StatusSwap(w)
  PROVE  LedgerInv'
<1>a. UNCHANGED payments /\ req[w] \in Request /\ ActivationHeld(req[w])
  BY DEF StatusRead, ReadContract, StatusLink, StatusCheck, StatusSwap, OnlyContracts, tables, TypeInv, TypeOK, LedgerInv
<1>b. Aged
  BY <1>a, SameAges
<1>c. ASSUME NEW step \in Steps, Goto(w, step)
      PROVE  /\ req'[w].step = step /\ req'[w].contract = req[w].contract /\ req'[w].to = req[w].to
             /\ req'[w].seenContract = req[w].seenContract
  BY <1>a, <1>c, PutOne DEF Goto, Request
<1>d. {"status.check", "status.swap", "status.tasks"} \subseteq Steps \ HoldingSteps /\ "status.link" \notin HoldingSteps
  BY DEF Steps, HoldingSteps, PaymentSteps
<1>e. CASE Answer(w)
  BY <1>b, <1>e, LedgerAnswer
<1>1. ASSUME NEW c \in Contracts, StatusRead(w, c) PROVE LedgerInv'
  <2> DEFINE to == PostSignTransition[contracts[c].status]
             r == [ContractRequest("status.swap", c) EXCEPT !.to = to,
                     !.step = IF to \in {"COMPLETED", "LIQUIDATED"} THEN "status.link"
                              ELSE IF to = "ACTIVE" THEN "status.check" ELSE @]
  <2>1. r.to = to /\ \/ r.step = "status.link" /\ to \in {"COMPLETED", "LIQUIDATED"}
                     \/ r.step = "status.check"
                     \/ r.step = "status.swap" /\ to # "ACTIVE"
    BY DEF ContractRequest, Idle
  <2>2. Put(w, r)
    BY <1>1 DEF StatusRead, ReadContract, Begin
  <2> HIDE DEF r
  <2>3. PaymentHeld(req[w])' /\ ActivationHeld(req[w])'
    BY <1>d, <2>1, <2>2, PutOne DEF PaymentHeld, ActivationHeld
  <2> QED BY <1>b, <2>3, LedgerStays
<1>2. CASE StatusLink(w)
  <2>1. ASSUME NEW step \in {"status.check", "status.swap"}, Goto(w, step) PROVE LedgerInv'
    <3>1. req[w].to # "ACTIVE"
      BY <1>2, <1>a DEF StatusLink, At, ActivationHeld
    <3>2. PaymentHeld(req[w])' /\ ActivationHeld(req[w])'
      BY <1>c, <1>d, <2>1, <3>1 DEF PaymentHeld, ActivationHeld
    <3> QED BY <1>b, <3>2, LedgerStays
  <2> QED BY <1>2, <1>e, <2>1 DEF StatusLink
<1>3. CASE StatusCheck(w)
  <2>1. CASE Goto(w, "status.swap")
    <3>1. PICK c \in Contracts : c = req[w].contract
      BY <1>3 DEF StatusCheck, At, TypeInv, RequestsTargeted, Targeted, ContractSteps
    <3>2. req[w].to = "ACTIVE" => Activatable(c, req[w].seenContract.value)
      <4> SUFFICES ASSUME req[w].to = "ACTIVE" PROVE Activatable(c, req[w].seenContract.value)
        OBVIOUS
      <4>1. PICK ok \in AtLeast(10 * NetPaid(c), 3 * req[w].seenContract.value) :
              IF ok THEN Goto(w, "status.swap") ELSE Answer(w)
        BY <1>3, <3>1 DEF StatusCheck
      <4>2. ok
        <5>1. ~Answer(w)
          BY <2>1, <1>c, <1>d, PutOne DEF Answer, Idle
        <5> QED BY <4>1, <5>1
      <4>3. ok = TRUE
        BY <4>1, <4>2 DEF AtLeast
      <4> QED BY <4>1, <4>3, Zenon DEF Activatable
    <3>3. NetPaid(c)' = NetPaid(c)
      BY <1>a, SameNetPaid
    <3>4. PaymentHeld(req[w])' /\ ActivationHeld(req[w])'
      BY <1>c, <1>d, <2>1, <3>1, <3>2, <3>3 DEF PaymentHeld, ActivationHeld, Activatable
    <3> QED BY <1>b, <3>4, LedgerStays
  <2> QED BY <1>3, <1>e, <2>1 DEF StatusCheck
<1>4. CASE StatusSwap(w)
  <2>1. CASE Goto(w, "status.tasks")
    BY <1>b, <1>c, <1>d, <2>1, LedgerStays
  <2> QED BY <1>4, <1>e, <2>1 DEF StatusSwap
<1> QED BY <1>1, <1>2, <1>3, <1>4

LEMMA LedgerInit == Init => LedgerInv
<1> SUFFICES ASSUME Init PROVE LedgerInv
  OBVIOUS
<1>1. \A c \in Contracts, n \in Installments : LedgerRow(payments[c][n])
  BY DEF Init, NoPayment, LedgerRow
<1>2. \A w \in Workers : PaymentHeld(req[w]) /\ ActivationHeld(req[w])
  BY DEF Init, Idle, PaymentHeld, ActivationHeld, HoldingSteps, PaymentSteps
<1> QED BY <1>1, <1>2 DEF LedgerInv

LEMMA LedgerStep ==
  ASSUME TypeInv, LedgerInv, Sequential, [Next]_vars
  PROVE  LedgerInv'
<1> USE DEF HoldingSteps, PaymentSteps
<1>1. CASE UNCHANGED vars
  <2>1. UNCHANGED payments /\ UNCHANGED req
    BY <1>1 DEF vars
  <2>2. \A w \in Workers : PaymentHeld(req[w])' /\ ActivationHeld(req[w])'
    BY <2>1, SameAges, AgedPayment, AgedActivation DEF LedgerInv
  <2> QED BY <2>1, <2>2, SameAges, AgedRows DEF LedgerInv
<1>2. CASE Crash
  <2>1. UNCHANGED payments /\ \A w \in Workers : req'[w].step = "idle"
    BY <1>2 DEF Crash, tables, Idle
  <2> QED BY <2>1, SameAges, AgedRows DEF LedgerInv, PaymentHeld, ActivationHeld
<1>3. ASSUME NEW w \in Workers, ContractsNext(w) PROVE LedgerInv'
  <2>1. UNCHANGED payments
    BY <1>3, ContractsGo
  <2>2. CASE Goes(w, {"idle"} \cup SigningSteps)
    BY <2>1, <2>2, SameAges, LedgerStays DEF Goes, SigningSteps
  <2> QED BY <1>3, <2>2, ContractsGo, LedgerStatusSteps
<1>4. ASSUME NEW w \in Workers, PaymentsNext(w) PROVE LedgerInv'
  <2>1. CASE \E c \in Contracts, n \in Installments, amount \in Amounts : CreateInstallmentRead(w, c, n, amount)
    <3>1. UNCHANGED payments /\ req'[w].step = "installment.create"
      BY <2>1, PutOne DEF CreateInstallmentRead, Begin, tables, Idle
    <3> QED BY <3>1, SameAges, LedgerStays
  <2>2. ASSUME NEW c \in Contracts, NEW n \in Installments, WaiveRead(w, c, n) PROVE LedgerInv'
    <3>1. UNCHANGED payments /\ Put(w, PaymentRequest("waive.write", c, n))
          /\ payments[c][n].status \notin ResolvedStatuses \cup {"ABSENT"}
      BY <2>2 DEF WaiveRead, ReadPayment, Begin, tables
    <3> DEFINE r == PaymentRequest("waive.write", c, n)
    <3>a. r.step = "waive.write" /\ r.contract = c /\ r.installment = n /\ r.seenPayment = payments[c][n]
      BY DEF PaymentRequest, Idle
    <3>b. req'[w] = r
      BY <3>1, PutOne
    <3> HIDE DEF r
    <3>2. PaymentHeld(req[w])' /\ ActivationHeld(req[w])'
      BY <3>1, <3>a, <3>b DEF PaymentHeld, ActivationHeld
    <3> QED BY <3>1, <3>2, SameAges, LedgerStays
  <2>3. ASSUME NEW c \in Contracts, NEW due \in SUBSET Installments, SyncOverdueStatus(c, due) PROVE LedgerInv'
    BY <2>3, SweptAges, LedgerStays DEF SyncOverdueStatus
  <2> QED BY <1>4, <2>1, <2>2, <2>3, PaymentReads, OpenCheck, PaymentWrites DEF PaymentsNext
<1>5. ASSUME NEW w \in Workers, CasesNext(w) PROVE LedgerInv'
  BY <1>5, CasesGo, SameAges, LedgerStays DEF Goes, OnlyCases
<1>6. ASSUME NEW w \in Workers, ClosureNext(w) PROVE LedgerInv'
  <2>1. Aged
    <3>1. ASSUME NEW due, CloseCheckDebt(w, due) PROVE Aged
      BY <3>1, SameAges, SweptAges DEF CloseCheckDebt
    <3> QED BY <1>6, <3>1, ClosureGo, SameAges
  <2> QED BY <1>6, <2>1, ClosureGo, LedgerStays DEF Goes, ClosureSteps
<1> QED BY <1>1, <1>2, <1>3, <1>4, <1>5, <1>6 DEF Next

LEMMA LedgerInvariant == ASSUME Sequential PROVE Spec => [](TypeInv /\ LedgerInv)
<1>1. Init => TypeInv /\ LedgerInv
  BY TypeInit, LedgerInit
<1>2. TypeInv /\ LedgerInv /\ [Next]_vars => (TypeInv /\ LedgerInv)'
  BY TypeStep, LedgerStep
<1> QED BY <1>1, <1>2, PTL DEF Spec

\* While requests do not overlap no more is given back than came in, a payment that
\* reads REFUNDED was given back whole, and one that took more than its installment
\* owes nothing, however the comparisons at equality turn out
\* (payments.service.ts:187-248).
THEOREM LedgerTellsTheTruth == ASSUME Sequential PROVE Spec => []LedgerAgrees
<1>1. LedgerInv => LedgerAgrees
  BY DEF LedgerInv, LedgerRow, LedgerAgrees
<1> QED BY <1>1, LedgerInvariant, PTL

\* The only step that turns a SIGNED contract ACTIVE is the swap of updateStatus().
LEMMA OnlySwapActivates ==
  ASSUME TypeInv, ContractInv, Sequential, NEW w \in Workers, NEW c \in Contracts,
         ContractsNext(w) \/ PaymentsNext(w) \/ CasesNext(w) \/ ClosureNext(w),
         contracts[c].status = "SIGNED", contracts'[c].status = "ACTIVE"
  PROVE  StatusSwap(w) /\ c = req[w].contract /\ req[w].to = "ACTIVE" /\ req[w].seenContract = contracts[c]
<1> USE DEF ReadingSteps, ContractSteps
<1>a. contracts \in [Contracts -> ContractRow] /\ ContractSound(c)
  BY DEF TypeInv, TypeOK, ContractInv
<1>b. contracts' # contracts /\ contracts[c].signed
  BY <1>a DEF ContractSound, SignedStatus, Unsigned
<1>c. ASSUME NEW x, NEW row, contracts' = [contracts EXCEPT ![x] = row] PROVE x = c /\ row.status = "ACTIVE"
  BY <1>a, <1>c
<1>1. CASE PaymentsNext(w) \/ CasesNext(w)
  BY <1>1, <1>b, OthersAway DEF Away
<1>2. CASE ClosureNext(w)
  <2>1. ASSUME NEW x, NEW after \in {"COMPLETED", "LIQUIDATED"}, contracts' = [contracts EXCEPT ![x].status = after]
        PROVE  FALSE
    <3>1. x = c /\ [contracts[x] EXCEPT !.status = after].status = "ACTIVE"
      BY <2>1, <1>c
    <3> QED BY <3>1, <1>a DEF ContractRow
  <2> QED BY <1>2, <1>b, <2>1, ClosureGo DEF CloseCommit, FinalizeCommit
<1>3. CASE ContractsNext(w)
  <2>1. ASSUME NEW v \in Values, NEW d \in Contracts, Create(w, d, v) PROVE FALSE
    BY <2>1, <1>c DEF Create
  <2>2. CASE UpdateWrite(w) \/ SubmitWrite(w) \/ ApproveWrite(w) \/ RejectWrite(w) \/ SendWrite(w) \/ SignWrite(w)
    <3>1. PICK d \in Contracts : d = req[w].contract /\ contracts[d].status \in Unsigned
      BY <2>2, HeldRow DEF UpdateWrite, SubmitWrite, ApproveWrite, RejectWrite, SendWrite, SignWrite, At,
                           ContractHeld, Unsigned
    <3>2. \E row : contracts' = [contracts EXCEPT ![d] = row] \/ UNCHANGED contracts
      BY <2>2, <3>1, <1>a DEF UpdateWrite, SubmitWrite, ApproveWrite, RejectWrite, SendWrite, SetStatus, SignWrite
    <3> QED BY <3>1, <3>2, <1>b, <1>c DEF Unsigned
  <2>3. CASE AmendWrite(w)
    <3>1. PICK d \in Contracts : d = req[w].contract
      BY <2>3, HeldRow DEF AmendWrite, At
    <3>2. contracts'[d].status = contracts[d].status /\ \A x \in Contracts \ {d} : contracts'[x] = contracts[x]
      BY <2>3, <3>1, <1>a DEF AmendWrite, ContractRow
    <3> QED BY <3>1, <3>2
  <2>4. CASE StatusSwap(w)
    <3>1. PICK d \in Contracts : d = req[w].contract /\ req[w].seenContract = contracts[d]
      BY <2>4, HeldRow DEF StatusSwap, At
    <3>2. contracts' = [contracts EXCEPT ![d].status = req[w].to]
      BY <2>4, <3>1, <1>b DEF StatusSwap
    <3>3. [contracts[d] EXCEPT !.status = req[w].to].status = req[w].to
      BY <1>a DEF ContractRow
    <3> QED BY <2>4, <3>1, <3>2, <3>3, <1>c
  <2>5. CASE \/ \E x \in Contracts, v \in Values : UpdateRead(w, x, v) \/ AmendRead(w, x, v)
             \/ \E x \in Contracts : SubmitRead(w, x) \/ SendRead(w, x) \/ SignRead(w, x) \/ StatusRead(w, x)
             \/ \E x \in Contracts, role \in Roles : ApproveRead(w, x, role) \/ RejectRead(w, x, role)
             \/ SignFindCase(w) \/ SignLock(w) \/ StatusLink(w) \/ StatusCheck(w) \/ StatusTasks(w)
    BY <2>5, <1>b DEF UpdateRead, AmendRead, SubmitRead, SendRead, SignRead, StatusRead, ApproveRead, RejectRead,
                      ReadContract, SignFindCase, SignLock, StatusLink, StatusCheck, StatusTasks, tables
  <2> QED BY <1>3, <2>1, <2>2, <2>3, <2>4, <2>5 DEF ContractsNext
<1> QED BY <1>1, <1>2, <1>3

\* While requests do not overlap a contract becomes ACTIVE only on 30% of its value,
\* refunds deducted (contracts.service.ts:302-336).
THEOREM ActivationIsFunded == ASSUME Sequential PROVE Spec => ActivationFunded
<1>1. ASSUME TypeInv, ContractInv, LedgerInv, [Next]_vars, NEW c \in Contracts,
             contracts[c].status = "SIGNED", contracts'[c].status = "ACTIVE"
      PROVE  Activatable(c, contracts[c].value)
  <2>1. contracts' # contracts
    BY <1>1
  <2>2. PICK w \in Workers : ContractsNext(w) \/ PaymentsNext(w) \/ CasesNext(w) \/ ClosureNext(w)
    BY <1>1, <2>1 DEF Next, vars, Crash, tables
  <2>3. StatusSwap(w) /\ c = req[w].contract /\ req[w].to = "ACTIVE" /\ req[w].seenContract = contracts[c]
    BY <1>1, <2>2, OnlySwapActivates
  <2> QED BY <1>1, <2>3 DEF LedgerInv, ActivationHeld, StatusSwap, At
<1>2. TypeInv /\ ContractInv /\ LedgerInv /\ [Next]_vars =>
        \A c \in Contracts : contracts[c].status = "SIGNED" /\ contracts'[c].status = "ACTIVE"
                               => Activatable(c, contracts[c].value)
  BY <1>1
<1> QED BY <1>2, ContractInvariant, LedgerInvariant, PTL DEF Spec, ActivationFunded

-----------------------------------------------------------------------------
(* Cases: one that is active, and a case for every signed contract          *)

\* What the handlers that write a case row have read of it.
CaseHeld(r) ==
  /\ r.step \in {"sign.write", "sign.link"} => /\ cases[r.kase].contract \in {None, r.contract}
                                                /\ cases[r.kase].status # "ABSENT"
  /\ r.step = "case.create" => ActiveCases = {}
  /\ r.step = "caseStatus.write" => r.to \in CASE_TRANSITIONS[cases[r.kase].status]

CaseInv == /\ \A j, k \in ActiveCases : j = k
           /\ \A k \in Cases : cases[k].status = "ABSENT" => cases[k].contract = None
           /\ \A c \in Contracts : contracts[c].signed => IsLinked(c)
           /\ \A w \in Workers : CaseHeld(req[w])

CaseHolding == {"sign.write", "sign.link", "case.create", "caseStatus.write"}

\* Nothing is signed but by sign().
NoneSigned == \A c \in Contracts : contracts'[c].signed => contracts[c].signed

LEMMA StatusColumn ==
  ASSUME TypeInv, NEW c, NEW x, contracts' = [contracts EXCEPT ![c].status = x] PROVE NoneSigned
BY DEF TypeInv, TypeOK, ContractRow, NoneSigned

LEMMA OnlySignSigns ==
  ASSUME TypeInv, NEW w \in Workers,
         ContractsNext(w) \/ PaymentsNext(w) \/ CasesNext(w) \/ ClosureNext(w), ~SignWrite(w)
  PROVE  NoneSigned
<1>a. contracts \in [Contracts -> ContractRow]
  BY DEF TypeInv, TypeOK
<1>1. CASE UNCHANGED contracts
  BY <1>1 DEF NoneSigned
<1>2. CASE \E c \in Contracts, v \in Values : Create(w, c, v)
  <2>1. \A v : [NoContract EXCEPT !.status = "DRAFT", !.value = v].signed = FALSE
    BY DEF NoContract
  <2> QED BY <1>2, <1>a, <2>1 DEF Create, NoneSigned
<1>3. CASE UpdateWrite(w) \/ AmendWrite(w) \/ ApproveWrite(w)
  <2>1. PICK c \in Contracts : c = req[w].contract
    BY <1>3 DEF UpdateWrite, AmendWrite, ApproveWrite, At, TypeInv, RequestsTargeted, Targeted, ContractSteps
  <2>2. contracts'[c].signed = contracts[c].signed /\ \A d \in Contracts \ {c} : contracts'[d] = contracts[d]
    <3>1. CASE UpdateWrite(w)
      BY <3>1, <2>1, <1>a DEF UpdateWrite, ContractRow
    <3>2. CASE AmendWrite(w)
      BY <3>2, <2>1, <1>a DEF AmendWrite, ContractRow
    <3>3. CASE ApproveWrite(w)
      BY <3>3, <2>1, <1>a DEF ApproveWrite, ContractRow
    <3> QED BY <1>3, <3>1, <3>2, <3>3
  <2> QED BY <2>2 DEF NoneSigned
<1>4. CASE SubmitWrite(w) \/ RejectWrite(w) \/ SendWrite(w) \/ StatusSwap(w)
  BY <1>1, <1>4, StatusColumn DEF SubmitWrite, RejectWrite, SendWrite, SetStatus, StatusSwap
<1>5. CASE \/ \E c \in Contracts, v \in Values : UpdateRead(w, c, v) \/ AmendRead(w, c, v)
           \/ \E c \in Contracts : SubmitRead(w, c) \/ SendRead(w, c) \/ SignRead(w, c) \/ StatusRead(w, c)
           \/ \E c \in Contracts, role \in Roles : ApproveRead(w, c, role) \/ RejectRead(w, c, role)
           \/ SignFindCase(w) \/ SignLock(w) \/ StatusLink(w) \/ StatusCheck(w) \/ StatusTasks(w)
  BY <1>1, <1>5 DEF UpdateRead, AmendRead, SubmitRead, SendRead, SignRead, StatusRead, ApproveRead, RejectRead,
                    ReadContract, SignFindCase, SignLock, StatusLink, StatusCheck, StatusTasks, tables
<1>6. CASE ContractsNext(w)
  BY <1>2, <1>3, <1>4, <1>5, <1>6 DEF ContractsNext
<1>7. CASE PaymentsNext(w) \/ CasesNext(w)
  BY <1>1, <1>7, PaymentsGo, CasesGo DEF OnlyPayments, OnlyCases
<1>8. CASE ClosureNext(w)
  BY <1>1, <1>8, ClosureGo, StatusColumn DEF CloseCommit, FinalizeCommit
<1> QED BY <1>6, <1>7, <1>8

LEMMA CasesStay ==
  ASSUME TypeInv, CaseInv, Sequential, NEW w \in Workers, UNCHANGED cases, NoneSigned,
         req'[w] = req[w] \/ req'[w].step \notin CaseHolding \/ CaseHeld(req[w])'
  PROVE  CaseInv'
<1>1. CaseHeld(req[w])'
  BY DEF CaseInv, CaseHeld, CaseHolding, ActiveCases
<1> QED BY <1>1 DEF CaseInv, NoneSigned, Sequential, IsLinked, ActiveCases

\* A write to one case row that activates none but, at most, itself.
LEMMA CaseWritten ==
  ASSUME TypeInv, CaseInv, Sequential, NEW w \in Workers, NEW k \in Cases, NEW row, Answer(w),
         cases' = [cases EXCEPT ![k] = row],
         \/ k \in ActiveCases
         \/ ActiveCases = {}
         \/ row.status \in {"CLOSED", "ARCHIVED", "ABSENT"},
         row.status = "ABSENT" => row.contract = None,
         cases[k].contract = None \/ row.contract = cases[k].contract,
         \A c \in Contracts : contracts'[c].signed => contracts[c].signed \/ row.contract = c
  PROVE  CaseInv'
<1>a. cases \in [Cases -> CaseRow] /\ cases'[k] = row /\ \A j \in Cases \ {k} : cases'[j] = cases[j]
  BY DEF TypeInv, TypeOK
<1>1. \A i, j \in ActiveCases' : i = j
  BY <1>a DEF CaseInv, ActiveCases
<1>2. \A j \in Cases : cases'[j].status = "ABSENT" => cases'[j].contract = None
  BY <1>a DEF CaseInv
<1>3. \A c \in Contracts : contracts'[c].signed => IsLinked(c)'
  <2> SUFFICES ASSUME NEW c \in Contracts, contracts'[c].signed PROVE \E j \in Cases : cases'[j].contract = c
    BY DEF IsLinked
  <2>1. CASE row.contract = c
    BY <1>a, <2>1
  <2>2. CASE contracts[c].signed
    <3>1. PICK j \in Cases : cases[j].contract = c
      BY <2>2 DEF CaseInv, IsLinked
    <3>2. c # None
      BY NoneAssumption
    <3> QED BY <1>a, <3>1, <3>2
  <2> QED BY <2>1, <2>2
<1>4. CaseHeld(req[w])'
  BY PutOne DEF Answer, Idle, CaseHeld
<1> QED BY <1>1, <1>2, <1>3, <1>4 DEF CaseInv, Sequential

LEMMA SignKeepsCases ==
  ASSUME TypeInv, CaseInv, Sequential, NEW w \in Workers, SignWrite(w) \/ SignLock(w) \/ SignFindCase(w)
  PROVE  CaseInv'
<1>1. CASE SignFindCase(w)
  <2>1. UNCHANGED cases /\ NoneSigned
    BY <1>1 DEF SignFindCase, tables, NoneSigned
  <2>2. CASE Answer(w)
    BY <2>1, <2>2, PutOne, CasesStay DEF Answer, Idle, CaseHolding
  <2>3. ASSUME NEW k \in ActiveCases, cases[k].contract \in {None, req[w].contract},
               Put(w, [req[w] EXCEPT !.step = "sign.write", !.kase = k])
        PROVE  CaseInv'
    <3> DEFINE r == [req[w] EXCEPT !.step = "sign.write", !.kase = k]
    <3>1. r.step = "sign.write" /\ r.kase = k /\ r.contract = req[w].contract
      BY DEF TypeInv, TypeOK, Request
    <3>2. req'[w] = r
      BY <2>3, PutOne
    <3> HIDE DEF r
    <3>3. CaseHeld(req[w])'
      BY <2>1, <2>3, <3>1, <3>2 DEF CaseHeld, ActiveCases
    <3> QED BY <2>1, <3>3, CasesStay
  <2> QED BY <1>1, <2>2, <2>3 DEF SignFindCase
<1>2. CASE SignWrite(w)
  <2>1. PICK c \in Contracts, k \in Cases : c = req[w].contract /\ k = req[w].kase
    BY <1>2 DEF SignWrite, At, TypeInv, RequestsTargeted, Targeted, ContractSteps, CaseSteps
  <2>2. cases[k].contract \in {None, c} /\ cases[k].status # "ABSENT" /\ cases[k] \in CaseRow
    BY <1>2, <2>1 DEF SignWrite, At, CaseInv, CaseHeld, TypeInv, TypeOK
  <2>3. CASE UNCHANGED <<contracts, cases>>
    BY <1>2, <2>3, PutOne, CasesStay DEF SignWrite, Answer, Idle, CaseHolding, NoneSigned
  <2>4. CASE /\ contracts' = [contracts EXCEPT ![c].status = "SIGNED", ![c].signed = TRUE]
             /\ cases' = [cases EXCEPT ![k].contract = c]
    <3> DEFINE row == [cases[k] EXCEPT !.contract = c]
    <3>1. row.contract = c /\ row.status = cases[k].status
      BY <2>2 DEF CaseRow
    <3>2. cases' = [cases EXCEPT ![k] = row] /\ Answer(w)
      BY <1>2, <2>4 DEF SignWrite
    <3>3. \A d \in Contracts \ {c} : contracts'[d] = contracts[d]
      BY <2>4 DEF TypeInv, TypeOK
    <3>4. k \in ActiveCases \/ row.status \in {"CLOSED", "ARCHIVED", "ABSENT"}
      BY <3>1 DEF ActiveCases
    <3> HIDE DEF row
    <3> QED BY <2>2, <3>1, <3>2, <3>3, <3>4, CaseWritten
  <2> QED BY <1>2, <2>1, <2>3, <2>4 DEF SignWrite
<1>3. CASE SignLock(w)
  <2> DEFINE r == [req[w] EXCEPT !.step = "sign.link"]
  <2>1. r.step = "sign.link" /\ r.kase = req[w].kase /\ r.contract = req[w].contract
    BY DEF TypeInv, TypeOK, Request
  <2>2. UNCHANGED cases /\ NoneSigned /\ req'[w] = r /\ req[w].step = "sign.write"
    BY <1>3, PutOne DEF SignLock, Goto, At, tables, NoneSigned
  <2> HIDE DEF r
  <2>3. CaseHeld(req[w])'
    BY <2>1, <2>2 DEF CaseHeld, CaseInv
  <2> QED BY <2>2, <2>3, CasesStay
<1> QED BY <1>1, <1>2, <1>3

LEMMA CasesKept ==
  ASSUME TypeInv, CaseInv, Sequential, NEW w \in Workers, CasesNext(w)
  PROVE  CaseInv'
<1>a. NoneSigned
  BY CasesGo DEF OnlyCases, NoneSigned
<1>1. CASE CreateForStudentRead(w)
  <2>1. UNCHANGED cases /\ ActiveCases = {} /\ req'[w].step = "case.create"
    BY <1>1, PutOne DEF CreateForStudentRead, Begin, tables, Idle
  <2>2. CaseHeld(req[w])'
    BY <2>1 DEF CaseHeld, ActiveCases
  <2> QED BY <1>a, <2>1, <2>2, CasesStay
<1>2. CASE CreateForStudentWrite(w)
  <2> DEFINE row == [NoCase EXCEPT !.status = "OPEN"]
  <2>1. row.status = "OPEN" /\ row.contract = None
    BY DEF NoCase
  <2>2. PICK k \in Cases : cases[k].status = "ABSENT" /\ cases' = [cases EXCEPT ![k] = row]
    BY <1>2 DEF CreateForStudentWrite
  <2>3. Answer(w) /\ ActiveCases = {} /\ cases[k].contract = None
    BY <1>2, <2>2 DEF CreateForStudentWrite, At, CaseInv, CaseHeld
  <2> HIDE DEF row
  <2> QED BY <1>a, <2>1, <2>2, <2>3, CaseWritten DEF NoneSigned
<1>3. ASSUME NEW k \in Cases, NEW to \in CaseStatus, UpdateStatusRead(w, k, to) PROVE CaseInv'
  <2> DEFINE r == [CaseRequest("caseStatus.write", k) EXCEPT !.to = to]
  <2>1. r.step = "caseStatus.write" /\ r.kase = k /\ r.to = to
    BY DEF CaseRequest, Idle
  <2>2. UNCHANGED cases /\ to \in CASE_TRANSITIONS[cases[k].status] /\ req'[w] = r
    BY <1>3, PutOne DEF UpdateStatusRead, Begin, tables
  <2> HIDE DEF r
  <2>3. CaseHeld(req[w])'
    BY <2>1, <2>2 DEF CaseHeld
  <2> QED BY <1>a, <2>2, <2>3, CasesStay
<1>4. CASE UpdateStatusWrite(w)
  <2>1. PICK k \in Cases : k = req[w].kase
    BY <1>4 DEF UpdateStatusWrite, At, TypeInv, RequestsTargeted, Targeted, CaseSteps
  <2>2. cases[k] \in CaseRow /\ req[w].to \in CASE_TRANSITIONS[cases[k].status]
    BY <1>4, <2>1 DEF UpdateStatusWrite, At, CaseInv, CaseHeld, TypeInv, TypeOK
  <2>3. /\ req[w].to # "ABSENT"
        /\ cases[k].status \in {"CLOSED", "ARCHIVED", "ABSENT"} => req[w].to = "ARCHIVED"
    BY <2>2 DEF CASE_TRANSITIONS, CaseRow, CaseStatus
  <2> DEFINE row == [cases[k] EXCEPT !.status = req[w].to]
  <2>4. row.status = req[w].to /\ row.contract = cases[k].contract
    BY <2>2 DEF CaseRow
  <2>5. cases' = [cases EXCEPT ![k] = row] /\ Answer(w)
    BY <1>4, <2>1 DEF UpdateStatusWrite
  <2>6. k \in ActiveCases \/ row.status \in {"CLOSED", "ARCHIVED", "ABSENT"}
    BY <2>3, <2>4 DEF ActiveCases
  <2> HIDE DEF row
  <2> QED BY <1>a, <2>3, <2>4, <2>5, <2>6, CaseWritten DEF NoneSigned
<1>5. CASE \E k \in Cases : WorkChanges(k)
  BY <1>a, <1>5, CasesStay DEF WorkChanges
<1> QED BY <1>1, <1>2, <1>3, <1>4, <1>5 DEF CasesNext

LEMMA CloseKeepsCases ==
  ASSUME TypeInv, CaseInv, Sequential, NEW w \in Workers, CloseCommit(w)
  PROVE  CaseInv'
<1>1. PICK k \in Cases : k = req[w].kase
  BY DEF CloseCommit, At, TypeInv, RequestsTargeted, Targeted, CaseSteps
<1> DEFINE row == [cases[k] EXCEPT !.status = "CLOSED"]
<1>2. row.status = "CLOSED" /\ row.contract = cases[k].contract
  BY DEF TypeInv, TypeOK, CaseRow
<1>3. Answer(w) /\ NoneSigned
  <2>1. ClosureNext(w) /\ ~SignWrite(w)
    BY DEF ClosureNext, CloseCommit, SignWrite, At
  <2> QED BY <2>1, OnlySignSigns DEF CloseCommit
<1>4. cases' = [cases EXCEPT ![k] = row] \/ UNCHANGED cases
  BY <1>1 DEF CloseCommit
<1>5. CASE UNCHANGED cases
  BY <1>3, <1>5, PutOne, CasesStay DEF Answer, Idle, CaseHolding
<1> HIDE DEF row
<1> QED BY <1>2, <1>3, <1>4, <1>5, CaseWritten DEF NoneSigned

LEMMA CaseInit == Init => CaseInv
<1> SUFFICES ASSUME Init PROVE CaseInv
  OBVIOUS
<1>1. CASE StartSigned
  <2>1. PICK c \in Contracts, k \in Cases : \E v \in Values :
          /\ contracts = [x \in Contracts |-> IF x = c THEN SignedContract(v) ELSE NoContract]
          /\ cases = [x \in Cases |-> IF x = k THEN [status |-> "OPEN", contract |-> c] ELSE NoCase]
    BY <1>1 DEF Init, InitRows
  <2>2. \A x \in Contracts \ {c} : ~contracts[x].signed
    BY <2>1 DEF NoContract
  <2>3. cases[k].contract = c /\ \A x \in Cases \ {k} : cases[x].status = "ABSENT" /\ cases[x].contract = None
    BY <2>1 DEF NoCase
  <2>4. cases[k].status = "OPEN"
    BY <2>1
  <2>5. ActiveCases \subseteq {k}
    BY <2>3 DEF ActiveCases
  <2> QED BY <2>2, <2>3, <2>4, <2>5 DEF Init, Idle, CaseInv, CaseHeld, IsLinked
<1>2. CASE ~StartSigned
  <2>1. /\ \A c \in Contracts : ~contracts[c].signed
        /\ \A k \in Cases : cases[k].status = "ABSENT" /\ cases[k].contract = None
    BY <1>2 DEF Init, InitRows, NoContract, NoCase
  <2> QED BY <2>1 DEF Init, Idle, CaseInv, CaseHeld, ActiveCases
<1> QED BY <1>1, <1>2

LEMMA CaseStep ==
  ASSUME TypeInv, CaseInv, Sequential, [Next]_vars
  PROVE  CaseInv'
<1>1. CASE UNCHANGED vars
  BY <1>1 DEF vars, CaseInv, CaseHeld, IsLinked, ActiveCases
<1>2. CASE Crash
  <2>1. UNCHANGED <<contracts, cases>> /\ \A w \in Workers : req'[w].step = "idle"
    BY <1>2 DEF Crash, tables, Idle
  <2> QED BY <2>1 DEF CaseInv, CaseHeld, IsLinked, ActiveCases
<1>3. ASSUME NEW w \in Workers, ContractsNext(w) PROVE CaseInv'
  <2>1. CASE SignWrite(w) \/ SignLock(w) \/ SignFindCase(w)
    BY <2>1, SignKeepsCases
  <2>2. CASE ~SignWrite(w) /\ ~SignLock(w) /\ ~SignFindCase(w)
    <3>1. NoneSigned /\ UNCHANGED cases /\ (req'[w] = req[w] \/ req'[w].step \notin CaseHolding)
      BY <1>3, <2>2, OnlySignSigns, ContractsGo DEF Goes, ContractSteps, CaseHolding
    <3> QED BY <3>1, CasesStay
  <2> QED BY <2>1, <2>2
<1>4. ASSUME NEW w \in Workers, PaymentsNext(w) PROVE CaseInv'
  BY <1>4, PaymentsGo, CasesStay DEF Goes, OnlyPayments, PaymentSteps, CaseHolding, NoneSigned
<1>5. ASSUME NEW w \in Workers, CasesNext(w) PROVE CaseInv'
  BY <1>5, CasesKept
<1>6. ASSUME NEW w \in Workers, ClosureNext(w) PROVE CaseInv'
  <2>1. ~SignWrite(w) \/ UNCHANGED contracts
    BY <1>6, ClosureGo DEF SignWrite, CloseCommit, FinalizeCommit, At
  <2>2. NoneSigned
    BY <1>6, <2>1, OnlySignSigns DEF NoneSigned
  <2>3. req'[w] = req[w] \/ req'[w].step \notin CaseHolding
    BY <1>6, ClosureGo DEF Goes, ClosureSteps, CaseHolding
  <2> QED BY <1>6, <2>2, <2>3, ClosureGo, CasesStay, CloseKeepsCases
<1> QED BY <1>1, <1>2, <1>3, <1>4, <1>5, <1>6 DEF Next

LEMMA CaseInvariant == ASSUME Sequential PROVE Spec => [](TypeInv /\ CaseInv)
<1>1. Init => TypeInv /\ CaseInv
  BY TypeInit, CaseInit
<1>2. TypeInv /\ CaseInv /\ [Next]_vars => (TypeInv /\ CaseInv)'
  BY TypeStep, CaseStep
<1> QED BY <1>1, <1>2, PTL DEF Spec

\* While requests do not overlap a student has at most one active case, and every
\* signed contract belongs to a case (cases.service.ts:97-117,
\* contracts.service.ts:234-262).
THEOREM OneCaseAtATime == ASSUME Sequential PROVE Spec => []OneActiveCase
<1>1. ASSUME CaseInv PROVE OneActiveCase
  <2>1. CASE ActiveCases = {}
    BY <1>1, <2>1, FS_EmptySet DEF CaseInv, OneActiveCase
  <2>2. CASE ActiveCases # {}
    <3>1. PICK k \in ActiveCases : TRUE
      BY <2>2
    <3>2. ActiveCases = {k}
      BY <1>1, <3>1 DEF CaseInv
    <3>3. Cardinality({k}) = 1
      BY FS_Singleton
    <3>4. Cardinality(ActiveCases) <= 1
      BY <3>2, <3>3
    <3> QED BY <1>1, <3>4 DEF CaseInv, OneActiveCase
  <2> QED BY <2>1, <2>2
<1> QED BY <1>1, CaseInvariant, PTL

-----------------------------------------------------------------------------
(* Closing a case: its contract is paid up and leaves ACTIVE                *)

Closing == {"close.check", "close.begin", "close.commit"}

Settled(k) == \A c \in Contracts : cases[k].contract = c => ~HasUnresolved(c)

\* What close() has found out about the case it closes.
SettledHeld(r) ==
  /\ r.step \in Closing => r.linked = cases[r.kase].contract
  /\ r.step \in {"close.begin", "close.commit"} => Settled(r.kase)
  /\ r.step = "close.check" /\ "DEBT" \in r.checked /\ ~r.failing => Settled(r.kase)
  /\ r.step = "close.commit" /\ r.linked # None => r.seenContract = contracts[r.linked]

SettledInv == \A w \in Workers : SettledHeld(req[w])

\* A sweep resolves nothing and unresolves nothing.
LEMMA AgedUnresolved ==
  ASSUME TypeInv, Aged, NEW c \in Contracts, HasUnresolved(c)' PROVE HasUnresolved(c)
BY DEF Aged, Ages, HasUnresolved, UnresolvedStatuses

LEMMA AgedSettled ==
  ASSUME TypeInv, Aged, UNCHANGED cases, NEW k, Settled(k) PROVE Settled(k)'
BY AgedUnresolved DEF Settled

LEMMA SettledStays ==
  ASSUME TypeInv, SettledInv, Sequential, NEW w \in Workers, Aged, UNCHANGED cases,
         \/ req'[w] = req[w] /\ UNCHANGED contracts
         \/ req'[w].step \notin Closing
         \/ SettledHeld(req[w])'
  PROVE  SettledInv'
<1>1. ASSUME req'[w] = req[w], UNCHANGED contracts PROVE SettledHeld(req[w])'
  <2>1. Settled(req[w].kase) => Settled(req[w].kase)'
    <3>1. \A k : Settled(k) => Settled(k)'
      BY AgedSettled
    <3> QED BY <1>1, <3>1 DEF Settled
  <2> QED BY <1>1, <2>1 DEF SettledInv, SettledHeld
<1>2. req'[w].step \notin Closing => SettledHeld(req[w])'
  BY DEF SettledHeld, Closing
<1> QED BY <1>1, <1>2 DEF SettledInv, Sequential

LEMMA SettledAway ==
  ASSUME Sequential, NEW w \in Workers, req'[w].step \notin Closing PROVE SettledInv'
BY DEF SettledInv, SettledHeld, Closing, Sequential

LEMMA ItemSettles ==
  ASSUME TypeInv, SettledInv, Sequential, NEW w \in Workers, At(w, "close.check"), Aged, UNCHANGED cases,
         NEW item \in Checklist, NEW fails \in BOOLEAN, CheckItem(w, item, fails),
         item = "DEBT" /\ ~fails => Settled(req[w].kase)
  PROVE  SettledInv'
<1> DEFINE checked == req[w].checked \cup {item}
           failing == req[w].failing \/ fails
           k == req[w].kase
<1>a. req[w] \in Request /\ SettledHeld(req[w]) /\ req[w].step = "close.check"
  BY DEF TypeInv, TypeOK, SettledInv, At
<1>b. ~failing /\ "DEBT" \in checked => Settled(k)
  BY <1>a DEF SettledHeld, Checklist
<1>c. PICK j : j = k
  OBVIOUS
<1>d. Settled(j) => Settled(j)'
  BY AgedSettled
<1>e. ASSUME NEW r, Put(w, r), r.kase = j, r.linked = req[w].linked,
             \/ r.step = "close.check" /\ r.checked = checked /\ r.failing = failing
             \/ r.step = "close.begin" /\ ~failing /\ checked = Checklist
      PROVE  SettledInv'
  <2>1. req'[w] = r /\ r.linked = cases'[j].contract
    BY <1>a, <1>c, <1>e, PutOne DEF SettledHeld, Closing
  <2> HIDE DEF checked, failing, k
  <2>2. SettledHeld(req[w])'
    <3>1. r.step = "close.check" /\ "DEBT" \in r.checked /\ ~r.failing => Settled(j)'
      BY <1>b, <1>c, <1>d, <1>e
    <3>2. r.step = "close.begin" => Settled(j)'
      BY <1>b, <1>c, <1>d, <1>e DEF Checklist
    <3> QED BY <1>e, <2>1, <3>1, <3>2 DEF SettledHeld, Settled
  <2> QED BY <2>2, SettledStays
<1>1. CASE Answer(w)
  <2>1. req'[w].step \notin Closing
    BY <1>1, PutOne DEF Answer, Idle, Closing
  <2> QED BY <2>1, SettledAway
<1>2. CASE Put(w, [req[w] EXCEPT !.checked = checked, !.failing = failing])
  <2> DEFINE r == [req[w] EXCEPT !.checked = checked, !.failing = failing]
  <2>1. r.kase = j /\ r.linked = req[w].linked /\ r.step = "close.check" /\ r.checked = checked /\ r.failing = failing
    BY <1>a, <1>c DEF Request
  <2> HIDE DEF r, checked, failing
  <2> QED BY <1>2, <2>1, <1>e DEF r
<1>3. CASE Goto(w, "close.begin") /\ ~failing /\ checked = Checklist
  <2> DEFINE r == [req[w] EXCEPT !.step = "close.begin"]
  <2>1. r.kase = j /\ r.linked = req[w].linked /\ r.step = "close.begin"
    BY <1>a, <1>c DEF Request
  <2>2. Put(w, r)
    BY <1>3 DEF Goto
  <2> HIDE DEF r, checked, failing
  <2> QED BY <1>3, <2>1, <2>2, <1>e
<1> QED BY <1>1, <1>2, <1>3 DEF CheckItem

LEMMA ClosingSteps ==
  ASSUME TypeInv, SettledInv, Sequential, NEW w \in Workers, ClosureNext(w)
  PROVE  SettledInv'
<1>a. req[w] \in Request /\ SettledHeld(req[w])
  BY DEF TypeInv, TypeOK, SettledInv
<1>1. ASSUME NEW k \in Cases, CloseRead(w, k) PROVE SettledInv'
  <2> DEFINE r == CaseRequest("close.check", k)
  <2>1. r.step = "close.check" /\ r.kase = k /\ r.linked = cases[k].contract /\ r.checked = {}
    BY DEF CaseRequest, Idle
  <2>2. req'[w] = r /\ UNCHANGED tables
    BY <1>1, PutOne DEF CloseRead, ReadCase, Begin
  <2> HIDE DEF r
  <2>3. SettledHeld(req[w])'
    BY <2>1, <2>2 DEF SettledHeld, tables
  <2> QED BY <2>2, <2>3, SameAges, SettledStays DEF tables
<1>2. ASSUME NEW due, CloseCheckDebt(w, due) PROVE SettledInv'
  <2>1. PICK k \in Cases : k = req[w].kase
    BY <1>2 DEF CloseCheckDebt, At, TypeInv, RequestsTargeted, Targeted, CaseSteps
  <2>2. Aged /\ UNCHANGED cases /\ At(w, "close.check")
    BY <1>2, SameAges, SweptAges DEF CloseCheckDebt
  <2>3. CASE cases[k].contract = None
    <3>1. Settled(k) /\ CheckItem(w, "DEBT", FALSE)
      BY <1>2, <2>1, <2>3, NoneAssumption DEF CloseCheckDebt, Settled
    <3> QED BY <2>1, <2>2, <3>1, ItemSettles DEF Checklist
  <2>4. CASE cases[k].contract # None
    <3>1. CheckItem(w, "DEBT", HasUnresolved(cases[k].contract))
      BY <1>2, <2>1, <2>4 DEF CloseCheckDebt
    <3>2. PICK fails \in BOOLEAN : fails = HasUnresolved(cases[k].contract)
      BY DEF HasUnresolved
    <3>3. ~fails => Settled(k)
      BY <3>2 DEF Settled
    <3> QED BY <2>1, <2>2, <3>1, <3>2, <3>3, ItemSettles DEF Checklist
  <2> QED BY <2>3, <2>4
<1>3. CASE CloseCheckRest(w)
  <2>1. At(w, "close.check") /\ UNCHANGED tables
    BY <1>3 DEF CloseCheckRest
  <2>2. PICK fails \in BOOLEAN : CheckItem(w, "REST", fails)
    BY <1>3 DEF CloseCheckRest
  <2> QED BY <2>1, <2>2, SameAges, ItemSettles DEF tables, Checklist
<1>4. CASE CloseBegin(w)
  <2> DEFINE seen == IF req[w].linked = None THEN NoContract ELSE contracts[req[w].linked]
             r == [req[w] EXCEPT !.step = "close.commit", !.seenContract = seen]
  <2>1. PICK k \in Cases : k = req[w].kase
    BY <1>4 DEF CloseBegin, At, TypeInv, RequestsTargeted, Targeted, CaseSteps
  <2>2. r.step = "close.commit" /\ r.kase = k /\ r.linked = req[w].linked /\ r.seenContract = seen
    BY <1>a, <2>1 DEF Request
  <2>3. req'[w] = r /\ UNCHANGED tables
    BY <1>4, PutOne DEF CloseBegin
  <2>4. req[w].linked = cases[k].contract /\ Settled(k)
    BY <1>4, <1>a, <2>1 DEF CloseBegin, At, SettledHeld, Closing
  <2> HIDE DEF r
  <2>5. Settled(k)'
    BY <2>3, <2>4, SameAges, AgedSettled DEF tables
  <2>6. SettledHeld(req[w])'
    BY <2>2, <2>3, <2>4, <2>5 DEF SettledHeld, Settled, tables
  <2> QED BY <2>3, <2>6, SameAges, SettledStays DEF tables
<1>5. ASSUME req'[w].step \notin Closing PROVE SettledInv'
  BY <1>5, SettledAway
<1>b. ASSUME NEW r, Put(w, r), r.step \notin Closing PROVE SettledInv'
  BY <1>5, <1>b, PutOne
<1>6. CASE \/ \E k \in Cases : ConfirmHandoverRead(w, k)
           \/ \E k \in Cases, party \in Parties : ConfirmRead(w, k, party)
  BY <1>6, <1>b DEF ConfirmHandoverRead, ConfirmRead, ReadCase, Begin, CaseRequest, Idle, Closing
<1>7. CASE ConfirmHandoverWrite(w) \/ CloseCommit(w) \/ FinalizeCommit(w)
  BY <1>5, <1>7, PutOne DEF ConfirmHandoverWrite, CloseCommit, FinalizeCommit, Answer, Idle, Closing
<1>8. CASE ConfirmExisting(w) \/ ConfirmWrite(w)
  <2>1. \A step : [req[w] EXCEPT !.step = step].step = step
    BY <1>a DEF Request
  <2>2. Answer(w) \/ \E step \in {"confirm.write", "finalize.begin"} : Put(w, [req[w] EXCEPT !.step = step])
    BY <1>8 DEF ConfirmExisting, ConfirmWrite, Goto
  <2>3. CASE Answer(w)
    BY <2>3, <1>b DEF Answer, Idle, Closing
  <2>4. ASSUME NEW step \in {"confirm.write", "finalize.begin"}, Put(w, [req[w] EXCEPT !.step = step])
        PROVE  SettledInv'
    BY <2>1, <2>4, <1>b DEF Closing
  <2> QED BY <2>2, <2>3, <2>4
<1>9. CASE FinalizeBegin(w)
  <2>1. \A row : [req[w] EXCEPT !.step = "finalize.commit", !.seenContract = row].step = "finalize.commit"
    BY <1>a DEF Request
  <2> QED BY <1>5, <1>9, <2>1, PutOne DEF FinalizeBegin, Closing
<1> QED BY <1>1, <1>2, <1>3, <1>4, <1>6, <1>7, <1>8, <1>9 DEF ClosureNext

LEMMA SettledStep ==
  ASSUME TypeInv, SettledInv, Sequential, [Next]_vars
  PROVE  SettledInv'
<1>1. CASE UNCHANGED vars
  <2>1. \A k : Settled(k) => Settled(k)'
    BY <1>1, SameAges, AgedSettled DEF vars
  <2> QED BY <1>1, <2>1 DEF vars, SettledInv, SettledHeld, Settled, HasUnresolved
<1>2. CASE Crash
  BY <1>2 DEF Crash, Idle, SettledInv, SettledHeld, Closing
<1>3. ASSUME NEW w \in Workers, ContractsNext(w) PROVE SettledInv'
  <2>1. CASE req'[w].step \in Closing
    <3>1. req'[w] = req[w] /\ req[w].step \in Closing
      BY <1>3, <2>1, ContractsGo DEF Goes, ContractSteps, Closing
    <3>2. PICK c \in Contracts, v \in Values : Create(w, c, v)
      BY <1>3, <3>1 DEF ContractsNext, UpdateRead, AmendRead, SubmitRead, SendRead, SignRead, StatusRead, ApproveRead,
           RejectRead, ReadContract, Begin, UpdateWrite, SubmitWrite, ApproveWrite, RejectWrite, SendWrite, SignFindCase,
           SignLock, SignWrite, StatusLink, StatusCheck, StatusSwap, StatusTasks, AmendWrite, At, Closing
    <3> QED BY <3>1, <3>2 DEF Create, At, Closing
  <2> QED BY <2>1, SettledAway
<1>4. ASSUME NEW w \in Workers, PaymentsNext(w) PROVE SettledInv'
  <2>1. CASE \E c \in Contracts, due \in SUBSET Installments : SyncOverdueStatus(c, due)
    BY <2>1, SweptAges, SettledStays DEF SyncOverdueStatus, OnlyPayments
  <2>2. CASE ~\E c \in Contracts, due \in SUBSET Installments : SyncOverdueStatus(c, due)
    <3>1. req[w].step \notin Closing
      BY <1>4, <2>2 DEF PaymentsNext, CreateInstallmentRead, RecordRead, RefundRead, WaiveRead, ReadPayment, Begin,
           CreateInstallment, RecordCheckOpen, RecordWrite, RefundWrite, WaiveWrite, At, Closing
    <3> QED BY <1>4, <3>1, PaymentsGo, SettledAway DEF Goes, PaymentSteps, Closing
  <2> QED BY <2>1, <2>2
<1>5. ASSUME NEW w \in Workers, CasesNext(w) PROVE SettledInv'
  <2>1. CASE \E k \in Cases : WorkChanges(k)
    BY <2>1, SameAges, SettledStays DEF WorkChanges, OnlyCases
  <2>2. CASE ~\E k \in Cases : WorkChanges(k)
    <3>1. req[w].step \notin Closing
      BY <1>5, <2>2 DEF CasesNext, CreateForStudentRead, CreateForStudentWrite, UpdateStatusRead, UpdateStatusWrite,
           Begin, At, Closing
    <3> QED BY <1>5, <3>1, CasesGo, SettledAway DEF Goes, Closing
  <2> QED BY <2>1, <2>2
<1>6. ASSUME NEW w \in Workers, ClosureNext(w) PROVE SettledInv'
  BY <1>6, ClosingSteps
<1> QED BY <1>1, <1>2, <1>3, <1>4, <1>5, <1>6 DEF Next

LEMMA SettledInvariant == ASSUME Sequential PROVE Spec => [](TypeInv /\ SettledInv)
<1>1. Init => TypeInv /\ SettledInv
  BY TypeInit DEF Init, Idle, SettledInv, SettledHeld, Closing
<1>2. TypeInv /\ SettledInv /\ [Next]_vars => (TypeInv /\ SettledInv)'
  BY TypeStep, SettledStep
<1> QED BY <1>1, <1>2, PTL DEF Spec

LEMMA OnlyCommitCloses ==
  ASSUME TypeInv, ClosureInv, [Next]_vars, NEW k \in Cases, cases[k].status # "CLOSED", cases'[k].status = "CLOSED"
  PROVE  \E w \in Workers : CloseCommit(w) /\ k = req[w].kase
<1>a. cases \in [Cases -> CaseRow]
  BY DEF TypeInv, TypeOK
<1>1. CASE UNCHANGED cases
  BY <1>1
<1>2. CASE UNCHANGED vars \/ Crash
  BY <1>1, <1>2 DEF vars, Crash, tables
<1>3. ASSUME NEW w \in Workers, ContractsNext(w) PROVE FALSE
  <2>1. cases'[k].status = cases[k].status
    BY <1>3, ContractsQuiet DEF Quiet
  <2> QED BY <2>1
<1>4. ASSUME NEW w \in Workers, PaymentsNext(w) PROVE FALSE
  BY <1>1, <1>4, PaymentsGo DEF OnlyPayments
<1>5. ASSUME NEW w \in Workers, CasesNext(w) PROVE FALSE
  <2>1. CASE CreateForStudentWrite(w)
    <3>1. [NoCase EXCEPT !.status = "OPEN"].status = "OPEN"
      BY DEF NoCase
    <3> QED BY <2>1, <3>1, <1>a DEF CreateForStudentWrite
  <2>2. CASE UpdateStatusWrite(w)
    <3>1. req[w].to # "CLOSED"
      BY <2>2 DEF ClosureInv, Grounded, UpdateStatusWrite, At
    <3> QED BY <2>2, <3>1, <1>a DEF UpdateStatusWrite, CaseRow
  <2>3. UNCHANGED cases \/ CreateForStudentWrite(w) \/ UpdateStatusWrite(w)
    BY <1>5 DEF CasesNext, CreateForStudentRead, UpdateStatusRead, WorkChanges, tables
  <2> QED BY <1>1, <2>1, <2>2, <2>3
<1>6. ASSUME NEW w \in Workers, ClosureNext(w) PROVE CloseCommit(w) /\ k = req[w].kase
  <2>1. CloseCommit(w)
    BY <1>1, <1>6, ClosureGo
  <2> QED BY <2>1, <1>a DEF CloseCommit
<1> QED BY <1>2, <1>3, <1>4, <1>5, <1>6 DEF Next

\* While requests do not overlap the step that closes a case finds every payment of
\* its contract resolved and leaves that contract not ACTIVE (closure.service.ts:117-147).
THEOREM ClosingSettles == ASSUME Sequential PROVE Spec => CloseSettlesContract
<1>1. ASSUME TypeInv, ClosureInv, SettledInv, [Next]_vars, NEW c \in Contracts, NEW k \in Cases,
             cases[k].status # "CLOSED", cases'[k].status = "CLOSED", cases[k].contract = c
      PROVE  ~HasUnresolved(c) /\ contracts'[c].status # "ACTIVE"
  <2>1. PICK w \in Workers : CloseCommit(w) /\ k = req[w].kase
    BY <1>1, OnlyCommitCloses
  <2>2. req[w].step = "close.commit" /\ SettledHeld(req[w])
    BY <1>1, <2>1 DEF CloseCommit, At, SettledInv
  <2>3. req[w].linked = c /\ Settled(k) /\ c # None
    BY <1>1, <2>1, <2>2, NoneAssumption DEF SettledHeld, Closing
  <2>4. req[w].seenContract = contracts[c] /\ contracts[c] \in ContractRow
    BY <1>1, <2>2, <2>3 DEF SettledHeld, TypeInv, TypeOK
  <2>5. contracts'[c].status # "ACTIVE"
    BY <1>1, <2>1, <2>3, <2>4 DEF CloseCommit, TypeInv, TypeOK, ContractRow
  <2> QED BY <1>1, <2>3, <2>5 DEF Settled
<1>2. TypeInv /\ ClosureInv /\ SettledInv /\ [Next]_vars =>
        \A c \in Contracts, k \in Cases :
          (cases[k].status # "CLOSED" /\ cases'[k].status = "CLOSED" /\ cases[k].contract = c)
            => ~HasUnresolved(c) /\ contracts'[c].status # "ACTIVE"
  BY <1>1
<1> QED BY <1>2, ClosureInvariant, SettledInvariant, PTL DEF Spec, CloseSettlesContract

-----------------------------------------------------------------------------
(***************************************************************************)
(* After the signature, for every number of overlapping requests.  The     *)
(* handlers that prepare a contract write by id alone, so two of them that *)
(* overlap may undo a signature; what follows holds while none of them     *)
(* runs beside another request: either no endpoint of theirs is in use, or *)
(* requests do not overlap at all.                                         *)
(*                                                                         *)
(* A signed contract is linked to one case and stays linked to it.  That   *)
(* shuts updateStatus() out of COMPLETED and LIQUIDATED, and leaves these  *)
(* two statuses to the transactions that hold the row lock of the case or  *)
(* of its liquidation.                                                     *)
(***************************************************************************)

BeforeSignature == {"contract.update", "contract.submit", "contract.approve", "contract.reject",
                    "contract.send", "contract.sign"}
AfterSignature  == Operations \cap BeforeSignature = {}

PresignSteps == {"update.write", "submit.write", "approve.write", "reject.write", "send.write",
                 "sign.case", "sign.write", "sign.link"}
SwapSteps  == {"status.link", "status.check", "status.swap"}
MovingSteps  == SwapSteps \cup ClosureSteps \cup {"caseStatus.write"}

\* A handler that prepares a contract still has an unsigned one before it.
Fresh == \A w \in Workers :
  /\ req[w].step \in PresignSteps => ~contracts[req[w].contract].signed
  /\ req[w].step \in {"sign.write", "sign.link"} => /\ cases[req[w].kase].contract \in {None, req[w].contract}
                                                     /\ cases[req[w].kase].status # "ABSENT"

\* What the closure of case k has done when its contract c stands where it does.
Reached(c, k) ==
  /\ contracts[c].status \in {"COMPLETED", "LIQUIDATED", "ARCHIVED"} => handovers[k]
  /\ contracts[c].status \in {"LIQUIDATED", "ARCHIVED"} => liquidations[k].status = "LIQUIDATED"

LinkedRows ==
  /\ \A c \in Contracts : SignedStatus(c) /\ (contracts[c].signed => IsLinked(c))
  /\ \A k \in Cases, c \in Contracts : cases[k].contract = c => contracts[c].signed /\ Reached(c, k)
  /\ \A j, k \in Cases : cases[j].contract = cases[k].contract /\ cases[k].contract # None => j = k
  /\ \A k \in Cases : cases[k].status = "ABSENT" => cases[k].contract = None

\* What a request that moves a signed contract relies on.
StatusHeld(r) ==
  /\ r.step \in SwapSteps => /\ contracts[r.contract].signed
                               /\ r.seenContract.status \in DOMAIN PostSignTransition
                               /\ r.to = PostSignTransition[r.seenContract.status]
  /\ r.step \in {"status.check", "status.swap"} => r.to \in {"ACTIVE", "ARCHIVED"}
LinkHeld(r)   == r.step \in ClosureSteps /\ r.linked # None => cases[r.kase].contract = r.linked
CommitHeld(r) ==
  /\ r.step = "close.commit" /\ r.seenContract.status = "ACTIVE" => contracts[r.linked].status = "ACTIVE"
  /\ r.step = "finalize.commit" /\ r.seenContract.status = "COMPLETED" => contracts[r.linked].status = "COMPLETED"
MovesHeld(r)  == StatusHeld(r) /\ LinkHeld(r) /\ CommitHeld(r) /\ (r.step = "caseStatus.write" => r.to # "ABSENT")

\* Two transactions never hold the row lock of one case, or of one liquidation.
SameLock(r, s) == r.step = s.step /\ s.step \in Committing /\ r.kase = s.kase
RowLocks == \A v, w \in Workers : SameLock(req[v], req[w]) => v = w

LinkInv == LinkedRows /\ RowLocks /\ \A w \in Workers : MovesHeld(req[w])

-----------------------------------------------------------------------------
\* What no step undoes.
Forward == /\ \A k \in Cases : handovers[k] => handovers'[k]
           /\ \A k \in Cases : liquidations[k].status = "LIQUIDATED" => liquidations'[k].status = "LIQUIDATED"
SameStatus == \A c \in Contracts : contracts'[c].status = contracts[c].status /\ contracts'[c].signed = contracts[c].signed
SameLinks == \A k \in Cases : /\ cases'[k].contract = cases[k].contract
                              /\ cases'[k].status = "ABSENT" => cases[k].status = "ABSENT"
Alone(w) == \A v \in Workers \ {w} : req'[v] = req[v]

LEMMA LinkTargets ==
  ASSUME TypeInv, NEW w \in Workers
  PROVE  /\ req[w].step \in SwapSteps => req[w].contract \in Contracts
         /\ req[w].step \in ClosureSteps => req[w].kase \in Cases
         /\ req[w].step \in Committing /\ req[w].seenContract.status # "ABSENT" => req[w].linked \in Contracts
BY DEF TypeInv, RequestsTargeted, Targeted, SwapSteps, ContractSteps, ClosureSteps, CaseSteps, Committing

\* A request that a step does not touch keeps what it relies on.
LEMMA UntouchedHolds ==
  ASSUME TypeInv, LinkInv, SameStatus, SameLinks, NEW v \in Workers, req'[v] = req[v]
  PROVE  MovesHeld(req[v])'
<1>1. MovesHeld(req[v])
  BY DEF LinkInv
<1>2. StatusHeld(req[v])'
  BY <1>1, LinkTargets DEF MovesHeld, StatusHeld, SameStatus
<1>3. LinkHeld(req[v])'
  BY <1>1, LinkTargets DEF MovesHeld, LinkHeld, SameLinks
<1>4. CommitHeld(req[v])'
  BY <1>1, LinkTargets DEF MovesHeld, CommitHeld, SameStatus, Committing
<1> QED BY <1>1, <1>2, <1>3, <1>4 DEF MovesHeld

LEMMA RowsStay ==
  ASSUME LinkInv, SameStatus, SameLinks, Forward PROVE LinkedRows'
BY DEF LinkInv, LinkedRows, SameStatus, SameLinks, Forward, SignedStatus, IsLinked, Reached

LEMMA LocksStay ==
  ASSUME LinkInv, NEW w \in Workers, Alone(w),
         \/ req'[w] = req[w]
         \/ \A v \in Workers \ {w} : ~SameLock(req[v], req'[w])
  PROVE  RowLocks'
<1> SUFFICES ASSUME NEW u \in Workers, NEW v \in Workers, SameLock(req'[u], req'[v]), u # v PROVE FALSE
  BY DEF RowLocks, SameLock
<1>1. SameLock(req'[v], req'[u])
  BY DEF SameLock
<1>2. CASE req'[w] = req[w]
  BY <1>2 DEF LinkInv, RowLocks, Alone
<1>3. CASE req'[w] # req[w]
  <2>1. CASE u = w
    BY <1>1, <1>3, <2>1 DEF Alone
  <2>2. CASE v = w
    BY <1>3, <2>2 DEF Alone
  <2>3. CASE u # w /\ v # w
    BY <2>3 DEF LinkInv, RowLocks, Alone
  <2> QED BY <2>1, <2>2, <2>3
<1> QED BY <1>2, <1>3

\* A step that moves no contract and no link.
LEMMA LinkStays ==
  ASSUME TypeInv, LinkInv, SameStatus, SameLinks, Forward, NEW w \in Workers, Alone(w),
         \/ req'[w] = req[w]
         \/ req'[w].step \notin MovingSteps
         \/ MovesHeld(req[w])' /\ req'[w].step \notin Committing
         \/ MovesHeld(req[w])' /\ \A v \in Workers \ {w} : ~SameLock(req[v], req'[w])
  PROVE  LinkInv'
<1>1. LinkedRows'
  BY RowsStay
<1>2. RowLocks'
  BY LocksStay DEF SameLock, ClosureSteps, Committing, MovingSteps
<1>3. MovesHeld(req[w])'
  BY UntouchedHolds DEF MovesHeld, StatusHeld, LinkHeld, CommitHeld, ClosureSteps, SwapSteps, MovingSteps
<1>4. \A v \in Workers \ {w} : MovesHeld(req[v])'
  BY UntouchedHolds DEF Alone
<1> QED BY <1>1, <1>2, <1>3, <1>4 DEF LinkInv

\* A step of w that moves contract c on, and ends w's hold on it.
LEMMA ContractMoves ==
  ASSUME TypeInv, LinkInv, Forward, NEW w \in Workers, Alone(w), SameLinks, NEW c \in Contracts,
         \A d \in Contracts \ {c} : contracts'[d] = contracts[d],
         contracts'[c].signed = contracts[c].signed, SignedStatus(c)',
         \A k \in Cases : cases[k].contract = c => Reached(c, k)',
         req'[w].step \notin MovingSteps,
         \A v \in Workers \ {w} : req[v].step \in Committing /\ req[v].linked = c =>
           ~ \/ req[v].step = "close.commit" /\ req[v].seenContract.status = "ACTIVE"
             \/ req[v].step = "finalize.commit" /\ req[v].seenContract.status = "COMPLETED"
  PROVE  LinkInv'
<1>1. LinkedRows'
  <2>1. \A d \in Contracts \ {c} : SignedStatus(d)' /\ \A k \in Cases : Reached(d, k) => Reached(d, k)'
    BY DEF LinkInv, LinkedRows, SignedStatus, Reached, Forward
  <2>2. \A d \in Contracts : contracts'[d].signed = contracts[d].signed
    OBVIOUS
  <2> QED BY <2>1, <2>2 DEF LinkInv, LinkedRows, IsLinked, SameLinks
<1>2. RowLocks'
  BY LocksStay DEF SameLock, ClosureSteps, Committing, MovingSteps
<1>3. MovesHeld(req[w])'
  BY DEF MovesHeld, StatusHeld, LinkHeld, CommitHeld, ClosureSteps, SwapSteps, MovingSteps
<1>4. ASSUME NEW v \in Workers \ {w} PROVE MovesHeld(req[v])'
  <2>1. req'[v] = req[v] /\ MovesHeld(req[v])
    BY DEF LinkInv, Alone
  <2>2. StatusHeld(req[v])'
    BY <2>1, LinkTargets DEF MovesHeld, StatusHeld
  <2>3. LinkHeld(req[v])'
    BY <2>1, LinkTargets DEF MovesHeld, LinkHeld, SameLinks
  <2>4. CommitHeld(req[v])'
    BY <2>1, LinkTargets DEF MovesHeld, CommitHeld, Committing
  <2> QED BY <2>1, <2>2, <2>3, <2>4 DEF MovesHeld
<1> QED BY <1>1, <1>2, <1>3, <1>4 DEF LinkInv

-----------------------------------------------------------------------------
\* A step of w on an unsigned contract, which stays unsigned: no request moves it.
LEMMA PrepareStep ==
  ASSUME TypeInv, LinkInv, NEW w \in Workers, Alone(w), NEW c \in Contracts, ~contracts[c].signed,
         \A d \in Contracts \ {c} : contracts'[d] = contracts[d],
         ~contracts'[c].signed, contracts'[c].status \in Unsigned,
         UNCHANGED <<cases, handovers, liquidations>>, req'[w] = req[w] \/ req'[w].step = "idle"
  PROVE  LinkInv'
<1>1. LinkedRows'
  <2>1. \A d \in Contracts : SignedStatus(d)' /\ (contracts'[d].signed => contracts[d].signed)
    BY DEF LinkInv, LinkedRows, SignedStatus
  <2>2. \A k \in Cases, d \in Contracts : cases[k].contract = d => d # c
    BY DEF LinkInv, LinkedRows
  <2> QED BY <2>1, <2>2 DEF LinkInv, LinkedRows, IsLinked, Reached
<1>2. RowLocks'
  BY LocksStay DEF SameLock, Committing
<1>3. ASSUME NEW v \in Workers, req'[v] = req[v] PROVE MovesHeld(req[v])'
  <2>1. MovesHeld(req[v])
    BY DEF LinkInv
  <2>2. \A d \in Contracts : contracts[d].status \in {"ACTIVE", "COMPLETED"} => d # c
    BY DEF LinkInv, LinkedRows, SignedStatus, Unsigned
  <2>3. StatusHeld(req[v])'
    BY <1>3, <2>1, LinkTargets DEF MovesHeld, StatusHeld
  <2>4. LinkHeld(req[v])' /\ CommitHeld(req[v])'
    BY <1>3, <2>1, <2>2, LinkTargets DEF MovesHeld, LinkHeld, CommitHeld, Committing
  <2> QED BY <1>3, <2>1, <2>3, <2>4 DEF MovesHeld
<1>4. req'[w].step = "idle" => MovesHeld(req[w])'
  BY DEF MovesHeld, StatusHeld, LinkHeld, CommitHeld, ClosureSteps, SwapSteps
<1> QED BY <1>1, <1>2, <1>3, <1>4 DEF LinkInv, Alone

LEMMA PutAlone ==
  ASSUME TypeInv, NEW w \in Workers, NEW r, Put(w, r) PROVE req'[w] = r /\ Alone(w)
BY PutQuiet DEF Alone

LEMMA AnswerAlone ==
  ASSUME TypeInv, NEW w \in Workers, Answer(w) PROVE req'[w].step = "idle" /\ Alone(w)
BY PutAlone DEF Answer, Idle

LEMMA Calm ==
  /\ UNCHANGED tables => SameStatus /\ SameLinks /\ Forward
  /\ UNCHANGED <<handovers, liquidations>> => Forward
  /\ UNCHANGED cases => SameLinks
  /\ UNCHANGED contracts => SameStatus
BY DEF tables, SameStatus, SameLinks, Forward

\* A handler begins, or ends, that moves nothing.
LEMMA LinkIdle ==
  ASSUME TypeInv, LinkInv, SameStatus, SameLinks, Forward, NEW w \in Workers, NEW r, Put(w, r),
         r.step \notin MovingSteps
  PROVE  LinkInv'
BY LinkStays, PutAlone

LEMMA LinkAnswer ==
  ASSUME TypeInv, LinkInv, SameStatus, SameLinks, Forward, NEW w \in Workers, Answer(w)
  PROVE  LinkInv'
BY LinkIdle DEF Answer, Idle, MovingSteps, SwapSteps, ClosureSteps

LEMMA SignLinks ==
  ASSUME TypeInv, LinkInv, Fresh, NEW w \in Workers, SignWrite(w)
  PROVE  LinkInv'
<1> PICK c \in Contracts, k \in Cases : c = req[w].contract /\ k = req[w].kase
  BY DEF SignWrite, At, TypeInv, RequestsTargeted, Targeted, ContractSteps, CaseSteps
<1>a. Answer(w) /\ UNCHANGED <<handovers, liquidations>> /\ At(w, "sign.link")
  BY DEF SignWrite
<1>0. CASE Deadlocked(w)
  BY <1>a, <1>0, Calm, LinkAnswer DEF SignWrite
<1> SUFFICES ASSUME ~Deadlocked(w) PROVE LinkInv'
  BY <1>0
<1>b. ~contracts[c].signed /\ cases[k].contract \in {None, c} /\ cases[k].status # "ABSENT"
  BY <1>a DEF Fresh, At, PresignSteps
<1>c. \A j \in Cases : cases[j].contract # c
  BY <1>b DEF LinkInv, LinkedRows
<1>d. cases[k].contract = None /\ c # None
  BY <1>b, <1>c, NoneAssumption
<1>1. /\ contracts' = [contracts EXCEPT ![c].status = "SIGNED", ![c].signed = TRUE]
      /\ cases' = [cases EXCEPT ![k].contract = c]
  BY <1>c DEF SignWrite
<1>2. /\ contracts'[c].status = "SIGNED" /\ contracts'[c].signed
      /\ \A d \in Contracts \ {c} : contracts'[d] = contracts[d]
  BY <1>1 DEF TypeInv, TypeOK, ContractRow
<1>3. /\ cases'[k].contract = c /\ cases'[k].status = cases[k].status
      /\ \A j \in Cases \ {k} : cases'[j] = cases[j]
  BY <1>1 DEF TypeInv, TypeOK, CaseRow
<1>4. LinkedRows'
  <2>1. \A d \in Contracts : SignedStatus(d)'
    BY <1>2 DEF LinkInv, LinkedRows, SignedStatus, Unsigned
  <2>2. \A d \in Contracts : contracts'[d].signed => IsLinked(d)'
    <3> SUFFICES ASSUME NEW d \in Contracts, contracts'[d].signed PROVE \E j \in Cases : cases'[j].contract = d
      BY DEF IsLinked
    <3>1. CASE d = c
      BY <1>3, <3>1
    <3>2. CASE d # c
      <4>1. PICK j \in Cases : cases[j].contract = d
        BY <1>2, <3>2 DEF LinkInv, LinkedRows, IsLinked
      <4>2. j # k
        BY <1>d, <4>1, NoneAssumption
      <4> QED BY <1>3, <4>1, <4>2
    <3> QED BY <3>1, <3>2
  <2>3. \A j \in Cases, d \in Contracts : cases'[j].contract = d => contracts'[d].signed /\ Reached(d, j)'
    <3>1. ASSUME NEW j \in Cases \ {k}, NEW d \in Contracts, cases'[j].contract = d
          PROVE  contracts'[d].signed /\ Reached(d, j)'
      <4>1. d # c /\ contracts[d].signed /\ Reached(d, j)
        BY <1>c, <1>3, <3>1 DEF LinkInv, LinkedRows
      <4> QED BY <1>a, <1>2, <4>1 DEF Reached
    <3>2. contracts'[c].signed /\ Reached(c, k)'
      BY <1>2 DEF Reached
    <3> QED BY <1>3, <3>1, <3>2
  <2>4. \A i, j \in Cases : cases'[i].contract = cases'[j].contract /\ cases'[j].contract # None => i = j
    <3>1. \A j \in Cases \ {k} : cases'[j].contract # c
      BY <1>3, <1>c
    <3> QED BY <1>3, <3>1 DEF LinkInv, LinkedRows
  <2>5. \A j \in Cases : cases'[j].status = "ABSENT" => cases'[j].contract = None
    BY <1>b, <1>3 DEF LinkInv, LinkedRows
  <2> QED BY <2>1, <2>2, <2>3, <2>4, <2>5 DEF LinkedRows
<1>5. RowLocks'
  BY <1>a, AnswerAlone, LocksStay DEF SameLock, Committing
<1>6. MovesHeld(req[w])'
  BY <1>a, AnswerAlone DEF MovesHeld, StatusHeld, LinkHeld, CommitHeld, ClosureSteps, SwapSteps
<1>7. ASSUME NEW v \in Workers \ {w} PROVE MovesHeld(req[v])'
  <2>1. req'[v] = req[v] /\ MovesHeld(req[v])
    BY <1>a, AnswerAlone DEF LinkInv, Alone
  <2>2. \A d \in Contracts : contracts[d].signed => d # c
    BY <1>b
  <2>3. \A d \in Contracts : contracts[d].status \in {"ACTIVE", "COMPLETED"} => d # c
    BY <1>b DEF LinkInv, LinkedRows, SignedStatus, Unsigned
  <2>4. StatusHeld(req[v])'
    BY <1>2, <2>1, <2>2, LinkTargets DEF MovesHeld, StatusHeld
  <2>5. LinkHeld(req[v])'
    BY <1>3, <1>d, <2>1, LinkTargets DEF MovesHeld, LinkHeld
  <2>6. CommitHeld(req[v])'
    BY <1>2, <2>1, <2>3, LinkTargets DEF MovesHeld, CommitHeld, Committing
  <2> QED BY <2>1, <2>4, <2>5, <2>6 DEF MovesHeld
<1> QED BY <1>4, <1>5, <1>6, <1>7 DEF LinkInv

LEMMA SetStatusPrepares ==
  ASSUME TypeInv, LinkInv, NEW w \in Workers, NEW c \in Contracts, c = req[w].contract, ~contracts[c].signed,
         NEW status \in Unsigned, SetStatus(w, status)
  PROVE  LinkInv'
<1>1. /\ contracts' = [contracts EXCEPT ![c].status = status]
      /\ Answer(w) /\ UNCHANGED <<cases, handovers, liquidations>>
  BY DEF SetStatus, OnlyContracts
<1>2. /\ contracts'[c].status = status /\ contracts'[c].signed = contracts[c].signed
      /\ \A d \in Contracts \ {c} : contracts'[d] = contracts[d]
  BY <1>1 DEF TypeInv, TypeOK, ContractRow
<1>3. req'[w].step = "idle" /\ Alone(w)
  BY <1>1, AnswerAlone
<1> QED BY <1>1, <1>2, <1>3, PrepareStep

LEMMA PreparationLinks ==
  ASSUME TypeInv, LinkInv, Fresh, NEW w \in Workers,
         \/ \E c \in Contracts, v \in Values : Create(w, c, v)
         \/ UpdateWrite(w) \/ SubmitWrite(w) \/ ApproveWrite(w) \/ RejectWrite(w) \/ SendWrite(w)
  PROVE  LinkInv'
<1>a. contracts \in [Contracts -> ContractRow]
  BY DEF TypeInv, TypeOK
<1>1. ASSUME NEW c \in Contracts, NEW v \in Values, Create(w, c, v) PROVE LinkInv'
  <2> DEFINE row == [NoContract EXCEPT !.status = "DRAFT", !.value = v]
  <2>1. row.status = "DRAFT" /\ row.signed = FALSE
    BY DEF NoContract
  <2>2. contracts' = [contracts EXCEPT ![c] = row] /\ UNCHANGED <<cases, handovers, liquidations, req>>
    BY <1>1 DEF Create, OnlyContracts
  <2>3. ~contracts[c].signed
    BY <1>1 DEF Create, LinkInv, LinkedRows, SignedStatus, Unsigned
  <2> HIDE DEF row
  <2>4. contracts'[c] = row /\ \A d \in Contracts \ {c} : contracts'[d] = contracts[d]
    BY <1>a, <2>2
  <2> QED BY <2>1, <2>2, <2>3, <2>4, PrepareStep DEF Alone, Unsigned
<1>2. CASE UpdateWrite(w) \/ SubmitWrite(w) \/ ApproveWrite(w) \/ RejectWrite(w) \/ SendWrite(w)
  <2>1. PICK c \in Contracts : c = req[w].contract
    BY <1>2 DEF UpdateWrite, SubmitWrite, ApproveWrite, RejectWrite, SendWrite, At, TypeInv, RequestsTargeted,
                Targeted, ContractSteps
  <2>2. ~contracts[c].signed
    BY <1>2, <2>1 DEF UpdateWrite, SubmitWrite, ApproveWrite, RejectWrite, SendWrite, At, Fresh, PresignSteps
  <2>3. contracts[c].status \in Unsigned
    BY <2>2 DEF LinkInv, LinkedRows, SignedStatus
  <2>4. CASE UpdateWrite(w)
    <3>1. contracts' = [contracts EXCEPT ![c].value = req[w].amount]
      BY <2>1, <2>4 DEF UpdateWrite
    <3>2. /\ contracts'[c].status = contracts[c].status /\ contracts'[c].signed = contracts[c].signed
          /\ \A d \in Contracts \ {c} : contracts'[d] = contracts[d]
      BY <1>a, <3>1 DEF ContractRow
    <3> QED BY <2>2, <2>3, <2>4, <3>2, PrepareStep, AnswerAlone DEF UpdateWrite, OnlyContracts
  <2>5. CASE ApproveWrite(w)
    <3>1. contracts' = [contracts EXCEPT ![c].status = "APPROVED", ![c].approvedBy = req[w].to]
      BY <2>1, <2>5 DEF ApproveWrite
    <3>2. /\ contracts'[c].status = "APPROVED" /\ contracts'[c].signed = contracts[c].signed
          /\ \A d \in Contracts \ {c} : contracts'[d] = contracts[d]
      BY <1>a, <3>1 DEF ContractRow
    <3> QED BY <2>2, <2>5, <3>2, PrepareStep, AnswerAlone DEF ApproveWrite, OnlyContracts, Unsigned
  <2>6. CASE SubmitWrite(w) \/ RejectWrite(w) \/ SendWrite(w)
    BY <2>1, <2>2, <2>6, SetStatusPrepares DEF SubmitWrite, RejectWrite, SendWrite, Unsigned
  <2> QED BY <1>2, <2>4, <2>5, <2>6
<1> QED BY <1>1, <1>2

LEMMA StatusLinks ==
  ASSUME TypeInv, LinkInv, NEW w \in Workers,
         (\E c \in Contracts : StatusRead(w, c)) \/ StatusLink(w) \/ StatusCheck(w) \/ StatusSwap(w)
  PROVE  LinkInv'
<1>1. ASSUME NEW c \in Contracts, StatusRead(w, c) PROVE LinkInv'
  <2> DEFINE to == PostSignTransition[contracts[c].status]
             r == [ContractRequest("status.swap", c) EXCEPT !.to = to,
                     !.step = IF to \in {"COMPLETED", "LIQUIDATED"} THEN "status.link"
                              ELSE IF to = "ACTIVE" THEN "status.check" ELSE @]
  <2>1. Put(w, r) /\ UNCHANGED tables /\ contracts[c].status \in DOMAIN PostSignTransition
    BY <1>1 DEF StatusRead, ReadContract, Begin
  <2>2. r.to = to /\ r.contract = c /\ r.seenContract = contracts[c] /\ r.step \in SwapSteps
    BY DEF ContractRequest, Idle, SwapSteps
  <2>3. r.step \in {"status.check", "status.swap"} => to \notin {"COMPLETED", "LIQUIDATED"}
    BY DEF ContractRequest, Idle
  <2>4. to \in {"ACTIVE", "COMPLETED", "LIQUIDATED", "ARCHIVED"}
    BY <2>1 DEF PostSignTransition
  <2>5. contracts[c].signed
    BY <2>1 DEF LinkInv, LinkedRows, SignedStatus, Unsigned, PostSignTransition
  <2> HIDE DEF r
  <2>6. req'[w] = r /\ Alone(w)
    BY <2>1, PutAlone
  <2>7. MovesHeld(req[w])'
    BY <2>1, <2>2, <2>3, <2>4, <2>5, <2>6
    DEF MovesHeld, StatusHeld, LinkHeld, CommitHeld, ClosureSteps, SwapSteps, tables
  <2>8. req'[w].step \notin Committing
    BY <2>2, <2>6 DEF SwapSteps, Committing
  <2> QED BY <2>1, <2>6, <2>7, <2>8, Calm, LinkStays
<1>2. CASE StatusLink(w)
  <2>1. PICK c \in Contracts : c = req[w].contract
    BY <1>2 DEF StatusLink, At, TypeInv, RequestsTargeted, Targeted, ContractSteps
  <2>2. contracts[c].signed
    BY <1>2, <2>1 DEF StatusLink, At, LinkInv, MovesHeld, StatusHeld, SwapSteps
  <2>3. IsLinked(c)
    BY <2>2 DEF LinkInv, LinkedRows
  <2> QED BY <1>2, <2>1, <2>3, Calm, LinkAnswer DEF StatusLink
<1>3. CASE StatusCheck(w)
  <2>1. UNCHANGED tables /\ (Answer(w) \/ Goto(w, "status.swap"))
    BY <1>3 DEF StatusCheck
  <2>2. CASE Goto(w, "status.swap")
    <3> DEFINE r == [req[w] EXCEPT !.step = "status.swap"]
    <3>1. r.step = "status.swap" /\ r.to = req[w].to /\ r.contract = req[w].contract
          /\ r.seenContract = req[w].seenContract
      BY DEF TypeInv, TypeOK, Request
    <3>2. MovesHeld(req[w]) /\ req[w].step = "status.check"
      BY <1>3 DEF StatusCheck, At, LinkInv
    <3> HIDE DEF r
    <3>3. req'[w] = r /\ Alone(w)
      BY <2>2, PutAlone DEF Goto, r
    <3>4. MovesHeld(req[w])'
      BY <2>1, <3>1, <3>2, <3>3 DEF MovesHeld, StatusHeld, LinkHeld, CommitHeld, ClosureSteps, SwapSteps, tables
    <3>5. req'[w].step \notin Committing
      BY <3>1, <3>3 DEF Committing
    <3> QED BY <2>1, <3>3, <3>4, <3>5, Calm, LinkStays
  <2> QED BY <2>1, <2>2, Calm, LinkAnswer
<1>4. CASE StatusSwap(w)
  <2>1. PICK c \in Contracts : c = req[w].contract
    BY <1>4 DEF StatusSwap, At, TypeInv, RequestsTargeted, Targeted, ContractSteps
  <2>2. UNCHANGED <<cases, handovers, liquidations>>
    BY <1>4 DEF StatusSwap, OnlyContracts
  <2>3. CASE contracts[c].status = req[w].seenContract.status
    <3>1. /\ contracts' = [contracts EXCEPT ![c].status = req[w].to]
          /\ Answer(w) \/ Goto(w, "status.tasks")
      BY <1>4, <2>1, <2>3 DEF StatusSwap
    <3>2. /\ contracts'[c].status = req[w].to /\ contracts'[c].signed = contracts[c].signed
          /\ \A d \in Contracts \ {c} : contracts'[d] = contracts[d]
      BY <3>1 DEF TypeInv, TypeOK, ContractRow
    <3>3. /\ contracts[c].signed /\ contracts[c].status \in DOMAIN PostSignTransition
          /\ req[w].to = PostSignTransition[contracts[c].status] /\ req[w].to \in {"ACTIVE", "ARCHIVED"}
      BY <1>4, <2>1, <2>3 DEF StatusSwap, At, LinkInv, MovesHeld, StatusHeld, SwapSteps
    <3>4. \/ contracts[c].status = "SIGNED" /\ contracts'[c].status = "ACTIVE"
          \/ contracts[c].status = "LIQUIDATED" /\ contracts'[c].status = "ARCHIVED"
      BY <3>2, <3>3 DEF PostSignTransition
    <3>5. SignedStatus(c)'
      BY <3>2, <3>3, <3>4 DEF SignedStatus, Unsigned
    <3>6. \A k \in Cases : cases[k].contract = c => Reached(c, k)'
      BY <2>2, <3>4 DEF LinkInv, LinkedRows, Reached
    <3>7. req'[w].step \notin MovingSteps /\ Alone(w)
      <4>1. [req[w] EXCEPT !.step = "status.tasks"].step = "status.tasks"
        BY DEF TypeInv, TypeOK, Request
      <4>2. CASE Answer(w)
        BY <4>2, AnswerAlone DEF MovingSteps, SwapSteps, ClosureSteps
      <4>3. CASE Goto(w, "status.tasks")
        BY <4>1, <4>3, PutAlone DEF Goto, MovingSteps, SwapSteps, ClosureSteps
      <4> QED BY <3>1, <4>2, <4>3
    <3>8. \A v \in Workers \ {w} : req[v].step \in Committing /\ req[v].linked = c =>
            ~ \/ req[v].step = "close.commit" /\ req[v].seenContract.status = "ACTIVE"
              \/ req[v].step = "finalize.commit" /\ req[v].seenContract.status = "COMPLETED"
      BY <3>4 DEF LinkInv, MovesHeld, CommitHeld
    <3> QED BY <2>2, <3>2, <3>5, <3>6, <3>7, <3>8, Calm, ContractMoves
  <2>4. CASE contracts[c].status # req[w].seenContract.status
    <3>1. Answer(w) /\ UNCHANGED contracts
      BY <1>4, <2>1, <2>4 DEF StatusSwap
    <3> QED BY <2>2, <3>1, Calm, LinkAnswer
  <2> QED BY <2>3, <2>4
<1> QED BY <1>1, <1>2, <1>3, <1>4

LEMMA ContractsLink ==
  ASSUME TypeInv, LinkInv, Fresh, NEW w \in Workers, ContractsNext(w)
  PROVE  LinkInv'
<1>1. CASE \/ \E c \in Contracts, v \in Values : Create(w, c, v)
           \/ UpdateWrite(w) \/ SubmitWrite(w) \/ ApproveWrite(w) \/ RejectWrite(w) \/ SendWrite(w)
  BY <1>1, PreparationLinks
<1>2. CASE (\E c \in Contracts : StatusRead(w, c)) \/ StatusLink(w) \/ StatusCheck(w) \/ StatusSwap(w)
  BY <1>2, StatusLinks
<1>3. CASE SignWrite(w)
  BY <1>3, SignLinks
<1>a. ASSUME UNCHANGED tables, NEW r, Put(w, r), r.step \notin MovingSteps PROVE LinkInv'
  BY <1>a, Calm, LinkIdle
<1>4. CASE \/ \E c \in Contracts, v \in Values : UpdateRead(w, c, v) \/ AmendRead(w, c, v)
           \/ \E c \in Contracts : SubmitRead(w, c) \/ SendRead(w, c) \/ SignRead(w, c)
           \/ \E c \in Contracts, role \in Roles : ApproveRead(w, c, role) \/ RejectRead(w, c, role)
  BY <1>4, <1>a DEF UpdateRead, AmendRead, SubmitRead, SendRead, SignRead, ApproveRead, RejectRead,
                    ReadContract, Begin, ContractRequest, Idle, MovingSteps, SwapSteps, ClosureSteps
<1>5. CASE SignFindCase(w)
  <2>1. \A k : [req[w] EXCEPT !.step = "sign.write", !.kase = k].step = "sign.write"
    BY DEF TypeInv, TypeOK, Request
  <2>2. \E r : Put(w, r) /\ r.step \in {"idle", "sign.write"}
    BY <1>5, <2>1 DEF SignFindCase, Answer, Idle
  <2> QED BY <1>5, <2>2, <1>a DEF SignFindCase, MovingSteps, SwapSteps, ClosureSteps
<1>6. CASE StatusTasks(w)
  BY <1>6, Calm, LinkAnswer DEF StatusTasks
<1>7. CASE AmendWrite(w)
  <2>1. PICK c \in Contracts : c = req[w].contract
    BY <1>7 DEF AmendWrite, At, TypeInv, RequestsTargeted, Targeted, ContractSteps
  <2>2. PICK version, value : contracts' = [contracts EXCEPT ![c].version = version, ![c].value = value]
    BY <1>7, <2>1 DEF AmendWrite
  <2>3. SameStatus
    BY <2>2 DEF TypeInv, TypeOK, ContractRow, SameStatus
  <2> QED BY <1>7, <2>3, Calm, LinkAnswer DEF AmendWrite
<1>8. CASE SignLock(w)
  <2>1. [req[w] EXCEPT !.step = "sign.link"].step = "sign.link"
    BY DEF TypeInv, TypeOK, Request
  <2>2. \E r : Put(w, r) /\ r.step \in {"idle", "sign.link"}
    BY <1>8, <2>1 DEF SignLock, Answer, Goto, Idle
  <2> QED BY <1>8, <2>2, <1>a DEF SignLock, MovingSteps, SwapSteps, ClosureSteps
<1> QED BY <1>1, <1>2, <1>3, <1>4, <1>5, <1>6, <1>7, <1>8 DEF ContractsNext

LEMMA PaymentsLink ==
  ASSUME TypeInv, LinkInv, NEW w \in Workers, PaymentsNext(w)
  PROVE  LinkInv'
<1>1. OnlyPayments /\ Goes(w, {"idle"} \cup PaymentSteps) /\ Alone(w)
  BY PaymentsGo, PaymentsQuiet DEF Quiet, Alone
<1>2. req'[w] = req[w] \/ req'[w].step \notin MovingSteps
  BY <1>1 DEF Goes, PaymentSteps, MovingSteps, SwapSteps, ClosureSteps
<1> QED BY <1>1, <1>2, Calm, LinkStays DEF OnlyPayments

LEMMA CasesLink ==
  ASSUME TypeInv, LinkInv, NEW w \in Workers, CasesNext(w)
  PROVE  LinkInv'
<1>a. SameStatus /\ Forward
  BY CasesGo, Calm DEF OnlyCases
<1>b. cases \in [Cases -> CaseRow]
  BY DEF TypeInv, TypeOK
<1>1. CASE CreateForStudentRead(w)
  <2>1. [Idle EXCEPT !.step = "case.create"].step = "case.create"
    BY DEF Idle
  <2> QED BY <1>1, <1>a, <2>1, Calm, LinkIdle DEF CreateForStudentRead, Begin, MovingSteps, SwapSteps, ClosureSteps
<1>2. CASE CreateForStudentWrite(w)
  <2>1. PICK k \in Cases : /\ cases[k].status = "ABSENT"
                           /\ cases' = [cases EXCEPT ![k] = [NoCase EXCEPT !.status = "OPEN"]]
    BY <1>2 DEF CreateForStudentWrite
  <2>2. cases[k].contract = None
    BY <2>1 DEF LinkInv, LinkedRows
  <2>3. SameLinks
    BY <1>b, <2>1, <2>2 DEF NoCase, SameLinks
  <2> QED BY <1>2, <1>a, <2>3, LinkAnswer DEF CreateForStudentWrite
<1>3. ASSUME NEW k \in Cases, NEW to \in CaseStatus, UpdateStatusRead(w, k, to) PROVE LinkInv'
  <2> DEFINE r == [CaseRequest("caseStatus.write", k) EXCEPT !.to = to]
  <2>1. r.step = "caseStatus.write" /\ r.to = to
    BY DEF CaseRequest, Idle
  <2>2. to # "ABSENT"
    BY <1>3 DEF UpdateStatusRead, CASE_TRANSITIONS, TypeInv, TypeOK, CaseRow, CaseStatus
  <2>3. Put(w, r) /\ UNCHANGED tables
    BY <1>3 DEF UpdateStatusRead, Begin
  <2> HIDE DEF r
  <2>4. req'[w] = r /\ Alone(w)
    BY <2>3, PutAlone
  <2>5. MovesHeld(req[w])' /\ req'[w].step \notin Committing
    BY <2>1, <2>2, <2>4 DEF MovesHeld, StatusHeld, LinkHeld, CommitHeld, ClosureSteps, SwapSteps, Committing
  <2> QED BY <1>a, <2>3, <2>4, <2>5, Calm, LinkStays
<1>4. CASE UpdateStatusWrite(w)
  <2>1. req[w].to # "ABSENT"
    BY <1>4 DEF UpdateStatusWrite, At, LinkInv, MovesHeld
  <2>2. SameLinks
    BY <1>4, <1>b, <2>1 DEF UpdateStatusWrite, SameLinks, CaseRow
  <2> QED BY <1>4, <1>a, <2>2, LinkAnswer DEF UpdateStatusWrite
<1>5. CASE \E k \in Cases : WorkChanges(k)
  BY <1>5, <1>a, Calm, LinkStays DEF WorkChanges, Alone
<1> QED BY <1>1, <1>2, <1>3, <1>4, <1>5 DEF CasesNext

\* A closure request that goes on, and still has the link it read.
LEMMA ClosureContinues ==
  ASSUME TypeInv, LinkInv, SameStatus, SameLinks, Forward, NEW w \in Workers, NEW r, Put(w, r),
         r.step \in ClosureSteps \ Committing, r.linked # None => cases[r.kase].contract = r.linked,
         r.linked # None => r.kase \in Cases
  PROVE  LinkInv'
<1>1. req'[w] = r /\ Alone(w)
  BY PutAlone
<1>2. MovesHeld(req[w])'
  BY <1>1 DEF MovesHeld, StatusHeld, LinkHeld, CommitHeld, ClosureSteps, SwapSteps, Committing, SameLinks
<1> QED BY <1>1, <1>2, LinkStays

LEMMA ClosureBegins ==
  ASSUME TypeInv, LinkInv, UNCHANGED tables, NEW w \in Workers, NEW k \in Cases, NEW r, Put(w, r),
         r.step \in ClosureSteps \ Committing, r.kase = k, r.linked = cases[k].contract
  PROVE  LinkInv'
BY Calm, ClosureContinues

LEMMA ClosureGoesOn ==
  ASSUME TypeInv, LinkInv, SameStatus, SameLinks, Forward, NEW w \in Workers, NEW r, Put(w, r),
         req[w].step \in ClosureSteps, r.step \in ClosureSteps \ Committing,
         r.kase = req[w].kase, r.linked = req[w].linked
  PROVE  LinkInv'
<1>1. LinkHeld(req[w])
  BY DEF LinkInv, MovesHeld
<1> QED BY <1>1, LinkTargets, ClosureContinues DEF LinkHeld

LEMMA ClosureGoto ==
  ASSUME TypeInv, LinkInv, SameStatus, SameLinks, Forward, NEW w \in Workers, NEW step \in ClosureSteps \ Committing,
         req[w].step \in ClosureSteps, Goto(w, step)
  PROVE  LinkInv'
<1> DEFINE r == [req[w] EXCEPT !.step = step]
<1>1. r.step = step /\ r.kase = req[w].kase /\ r.linked = req[w].linked
  BY DEF TypeInv, TypeOK, Request
<1>2. Put(w, r)
  BY DEF Goto
<1> HIDE DEF r
<1> QED BY <1>1, <1>2, ClosureGoesOn

\* The transaction takes the row lock, and reads the contract the case had.
LEMMA LockLinks ==
  ASSUME TypeInv, LinkInv, UNCHANGED tables, NEW w \in Workers, NEW step \in Committing, req[w].step \in ClosureSteps,
         \A v \in Workers : ~(At(v, step) /\ req[v].kase = req[w].kase),
         NEW row, row = IF req[w].linked = None THEN NoContract ELSE contracts[req[w].linked],
         Put(w, [req[w] EXCEPT !.step = step, !.seenContract = row])
  PROVE  LinkInv'
<1> DEFINE r == [req[w] EXCEPT !.step = step, !.seenContract = row]
<1>1. r.step = step /\ r.seenContract = row /\ r.kase = req[w].kase /\ r.linked = req[w].linked
  BY DEF TypeInv, TypeOK, Request
<1>2. Put(w, r)
  OBVIOUS
<1> HIDE DEF r
<1>3. req'[w] = r /\ Alone(w)
  BY <1>2, PutAlone
<1>4. NoContract.status = "ABSENT"
  BY DEF NoContract
<1>5. LinkHeld(req[w])
  BY DEF LinkInv, MovesHeld
<1>6. MovesHeld(req[w])'
  BY <1>1, <1>3, <1>4, <1>5 DEF MovesHeld, StatusHeld, LinkHeld, CommitHeld, ClosureSteps, SwapSteps, Committing, tables
<1>7. \A v \in Workers \ {w} : ~SameLock(req[v], req'[w])
  BY <1>1, <1>3 DEF SameLock, At
<1> QED BY <1>3, <1>6, <1>7, Calm, LinkStays

\* The commit of either transaction moves the one contract of its case.
LEMMA CommitLinks ==
  ASSUME TypeInv, LinkInv, Forward, SameLinks, NEW w \in Workers, Answer(w), NEW k \in Cases, k = req[w].kase,
         NEW from, NEW to,
         \/ /\ At(w, "close.commit") /\ from = "ACTIVE" /\ to = "COMPLETED" /\ handovers'[k]
         \/ /\ At(w, "finalize.commit") /\ from = "COMPLETED" /\ to = "LIQUIDATED"
            /\ liquidations'[k].status = "LIQUIDATED",
         IF req[w].seenContract.status = from
         THEN contracts' = [contracts EXCEPT ![req[w].linked].status = to]
         ELSE UNCHANGED contracts
  PROVE  LinkInv'
<1>1. CASE req[w].seenContract.status # from
  BY <1>1, Calm, LinkAnswer
<1>2. CASE req[w].seenContract.status = from
  <2>1. PICK c \in Contracts : c = req[w].linked
    BY <1>2, LinkTargets DEF At, Committing
  <2>2. contracts' = [contracts EXCEPT ![c].status = to]
    BY <1>2, <2>1
  <2>3. /\ contracts'[c].status = to /\ contracts'[c].signed = contracts[c].signed
        /\ \A d \in Contracts \ {c} : contracts'[d] = contracts[d]
    BY <2>2 DEF TypeInv, TypeOK, ContractRow
  <2>4. cases[k].contract = c /\ c # None /\ contracts[c].status = from
    BY <1>2, <2>1, NoneAssumption DEF LinkInv, MovesHeld, LinkHeld, CommitHeld, At, ClosureSteps
  <2>5. contracts[c].signed /\ Reached(c, k) /\ \A j \in Cases : cases[j].contract = c => j = k
    BY <2>4 DEF LinkInv, LinkedRows
  <2>6. Reached(c, k)'
    BY <2>3, <2>4, <2>5 DEF Reached, Forward
  <2>7. SignedStatus(c)'
    BY <2>3, <2>5 DEF SignedStatus, Unsigned
  <2>8. req'[w].step \notin MovingSteps /\ Alone(w)
    BY AnswerAlone DEF MovingSteps, SwapSteps, ClosureSteps
  <2>9. ASSUME NEW v \in Workers \ {w}, req[v].step \in Committing, req[v].linked = c
        PROVE  ~ \/ req[v].step = "close.commit" /\ req[v].seenContract.status = "ACTIVE"
                 \/ req[v].step = "finalize.commit" /\ req[v].seenContract.status = "COMPLETED"
    <3>1. LinkHeld(req[v]) /\ CommitHeld(req[v])
      BY DEF LinkInv, MovesHeld
    <3>2. req[v].kase \in Cases /\ cases[req[v].kase].contract = c
      BY <2>4, <2>9, <3>1, LinkTargets DEF LinkHeld, Committing, ClosureSteps
    <3>3. req[v].kase = k
      BY <2>5, <3>2
    <3>4. req[v].step # req[w].step
      BY <2>9, <3>3 DEF LinkInv, RowLocks, SameLock
    <3> QED BY <2>4, <2>9, <3>1, <3>4 DEF CommitHeld, At
  <2> QED BY <2>3, <2>5, <2>6, <2>7, <2>8, <2>9, ContractMoves
<1> QED BY <1>1, <1>2

LEMMA ClosureLinks ==
  ASSUME TypeInv, ClosureInv, LinkInv, NEW w \in Workers, ClosureNext(w)
  PROVE  LinkInv'
<1> USE DEF ClosureSteps, Committing
<1>1. CASE \/ \E k \in Cases : ConfirmHandoverRead(w, k) \/ CloseRead(w, k)
           \/ \E k \in Cases, party \in Parties : ConfirmRead(w, k, party)
  BY <1>1, ClosureBegins DEF ConfirmHandoverRead, CloseRead, ConfirmRead, ReadCase, Begin, CaseRequest, Idle
<1>2. CASE ConfirmHandoverWrite(w)
  <2>1. Forward
    BY <1>2 DEF ConfirmHandoverWrite, Forward, TypeInv, TypeOK
  <2> QED BY <1>2, <2>1, Calm, LinkAnswer DEF ConfirmHandoverWrite
<1>3. CASE CloseCheckRest(w) \/ \E due \in SUBSET Installments : CloseCheckDebt(w, due)
  <2>1. UNCHANGED <<contracts, cases, handovers, liquidations>>
    BY <1>3 DEF CloseCheckRest, CloseCheckDebt, tables
  <2>2. PICK item, fails : At(w, "close.check") /\ CheckItem(w, item, fails)
    BY <1>3 DEF CloseCheckRest, CloseCheckDebt
  <2>3. CASE Answer(w)
    BY <2>1, <2>3, Calm, LinkAnswer
  <2>4. CASE Goto(w, "close.begin")
    BY <2>1, <2>2, <2>4, Calm, ClosureGoto DEF At
  <2>5. ASSUME NEW checked, NEW failing, Put(w, [req[w] EXCEPT !.checked = checked, !.failing = failing])
        PROVE  LinkInv'
    <3> DEFINE r == [req[w] EXCEPT !.checked = checked, !.failing = failing]
    <3>1. r.step = "close.check" /\ r.kase = req[w].kase /\ r.linked = req[w].linked
      BY <2>2 DEF TypeInv, TypeOK, Request, At
    <3>2. Put(w, r)
      BY <2>5
    <3> HIDE DEF r
    <3> QED BY <2>1, <2>2, <3>1, <3>2, Calm, ClosureGoesOn DEF At
  <2> QED BY <2>2, <2>3, <2>4, <2>5 DEF CheckItem
<1>4. CASE CloseBegin(w)
  BY <1>4, LockLinks DEF CloseBegin, CaseUnlocked, At
<1>5. CASE FinalizeBegin(w)
  BY <1>5, LockLinks DEF FinalizeBegin, LiquidationUnlocked, At
<1>6. CASE CloseCommit(w)
  <2>1. PICK k \in Cases : k = req[w].kase
    BY <1>6 DEF CloseCommit, At, TypeInv, RequestsTargeted, Targeted, CaseSteps
  <2>2. handovers'[k] /\ Forward
    BY <1>6, <2>1, Calm DEF CloseCommit, At, ClosureInv, Grounded
  <2>3. Answer(w) /\ At(w, "close.commit")
    BY <1>6 DEF CloseCommit
  <2>4. CASE Deadlocked(w)
    BY <1>6, <2>2, <2>3, <2>4, Calm, LinkAnswer DEF CloseCommit
  <2>5. CASE ~Deadlocked(w)
    <3>1. SameLinks
      <4>1. cases' = [cases EXCEPT ![k].status = "CLOSED"]
        BY <1>6, <2>1, <2>5 DEF CloseCommit
      <4> QED BY <4>1 DEF TypeInv, TypeOK, CaseRow, SameLinks
    <3> QED BY <1>6, <2>1, <2>2, <2>3, <2>5, <3>1, CommitLinks DEF CloseCommit
  <2> QED BY <2>4, <2>5
<1>7. CASE FinalizeCommit(w)
  <2>1. PICK k \in Cases : k = req[w].kase
    BY <1>7 DEF FinalizeCommit, At, TypeInv, RequestsTargeted, Targeted, CaseSteps
  <2>2. liquidations'[k].status = "LIQUIDATED" /\ Forward
    BY <1>7, <2>1 DEF FinalizeCommit, TypeInv, TypeOK, LiquidationRow, Forward
  <2> QED BY <1>7, <2>1, <2>2, Calm, CommitLinks DEF FinalizeCommit
<1>8. CASE ConfirmExisting(w)
  BY <1>8, Calm, LinkAnswer, ClosureGoto DEF ConfirmExisting, At
<1>9. CASE ConfirmWrite(w)
  <2>1. Forward
    BY <1>9 DEF ConfirmWrite, TypeInv, TypeOK, LiquidationRow, Forward
  <2> QED BY <1>9, <2>1, Calm, LinkAnswer, ClosureGoto DEF ConfirmWrite, At
<1> QED BY <1>1, <1>2, <1>3, <1>4, <1>5, <1>6, <1>7, <1>8, <1>9 DEF ClosureNext

-----------------------------------------------------------------------------
LEMMA LinkInit == Init => LinkInv
<1> SUFFICES ASSUME Init PROVE LinkInv
  OBVIOUS
<1>1. \A w \in Workers : req[w].step = "idle"
  BY DEF Init, Idle
<1>2. NoContract.status = "ABSENT" /\ NoContract.signed = FALSE /\ NoCase.status = "ABSENT" /\ NoCase.contract = None
  BY DEF NoContract, NoCase
<1>3. LinkedRows
  <2>1. CASE StartSigned
    <3>1. PICK c \in Contracts, k \in Cases, v \in Values :
            /\ contracts = [x \in Contracts |-> IF x = c THEN SignedContract(v) ELSE NoContract]
            /\ cases = [x \in Cases |-> IF x = k THEN [status |-> "OPEN", contract |-> c] ELSE NoCase]
      BY <2>1 DEF Init, InitRows
    <3>2. SignedContract(v).status = "SIGNED" /\ SignedContract(v).signed = TRUE
      BY DEF SignedContract, NoContract
    <3> HIDE DEF NoContract, SignedContract
    <3>3. \A x \in Contracts : /\ contracts[x].signed <=> x = c
                               /\ contracts[x].status = IF x = c THEN "SIGNED" ELSE "ABSENT"
      BY <1>2, <3>1, <3>2
    <3>4. \A x \in Cases : /\ cases[x].contract = IF x = k THEN c ELSE None
                           /\ x = k => cases[x].status = "OPEN"
      BY <1>2, <3>1
    <3> QED BY <3>3, <3>4, NoneAssumption DEF LinkedRows, SignedStatus, IsLinked, Reached, Unsigned
  <2>2. CASE ~StartSigned
    <3>1. /\ \A x \in Contracts : contracts[x].status = "ABSENT" /\ contracts[x].signed = FALSE
          /\ \A x \in Cases : cases[x].contract = None
      BY <1>2, <2>2 DEF Init, InitRows
    <3> QED BY <3>1, NoneAssumption DEF LinkedRows, SignedStatus, IsLinked, Reached, Unsigned
  <2> QED BY <2>1, <2>2
<1> QED BY <1>1, <1>3 DEF LinkInv, RowLocks, SameLock, MovesHeld, StatusHeld, LinkHeld, CommitHeld, SwapSteps,
                         ClosureSteps, Committing

LEMMA LinkStep ==
  ASSUME TypeInv, ClosureInv, LinkInv, Fresh, [Next]_vars
  PROVE  LinkInv'
<1>1. CASE UNCHANGED vars
  <2>1. UNCHANGED tables
    BY <1>1 DEF vars, tables
  <2>2. \A v \in Workers : MovesHeld(req[v])'
    BY <1>1, <2>1, Calm, UntouchedHolds DEF vars
  <2> QED BY <1>1, <2>1, <2>2, Calm, RowsStay DEF LinkInv, RowLocks, SameLock, vars
<1>2. CASE Crash
  <2>1. UNCHANGED tables /\ \A w \in Workers : req'[w].step = "idle"
    BY <1>2 DEF Crash, Idle
  <2>2. LinkedRows'
    BY <2>1, Calm, RowsStay
  <2> QED BY <2>1, <2>2 DEF LinkInv, RowLocks, SameLock, MovesHeld, StatusHeld, LinkHeld, CommitHeld, SwapSteps,
                            ClosureSteps, Committing
<1> QED BY <1>1, <1>2, ContractsLink, PaymentsLink, CasesLink, ClosureLinks DEF Next

-----------------------------------------------------------------------------
(* Why a handler that prepares a contract has an unsigned one before it.    *)

\* Nothing of theirs is in use.
NonePrepares == \A w \in Workers : req[w].step \notin PresignSteps

LEMMA NonePreparesStep ==
  ASSUME TypeInv, NonePrepares, AfterSignature, [Next]_vars
  PROVE  NonePrepares'
<1> USE DEF PresignSteps
<1>1. CASE UNCHANGED vars
  BY <1>1 DEF vars, NonePrepares
<1>2. CASE Crash
  BY <1>2 DEF Crash, Idle, NonePrepares
<1>a. ASSUME NEW w \in Workers, NEW steps, Goes(w, steps), Alone(w), steps \cap PresignSteps = {} PROVE NonePrepares'
  BY <1>a DEF Goes, Alone, NonePrepares
<1>3. ASSUME NEW w \in Workers, PaymentsNext(w) PROVE NonePrepares'
  BY <1>3, <1>a, PaymentsGo, PaymentsQuiet DEF Quiet, Alone, PaymentSteps
<1>4. ASSUME NEW w \in Workers, CasesNext(w) PROVE NonePrepares'
  <2>1. Alone(w)
    <3>1. req' = req \/ \E r : Put(w, r)
      BY <1>4 DEF CasesNext, CreateForStudentRead, CreateForStudentWrite, UpdateStatusRead, UpdateStatusWrite,
                  WorkChanges, Begin, Answer
    <3> QED BY <3>1, PutAlone DEF Alone
  <2> QED BY <1>4, <1>a, <2>1, CasesGo
<1>5. ASSUME NEW w \in Workers, ClosureNext(w) PROVE NonePrepares'
  <2>1. Alone(w)
    <3>1. \E r : Put(w, r)
      BY <1>5 DEF ClosureNext, ConfirmHandoverRead, CloseRead, ConfirmRead, ReadCase, Begin, ConfirmHandoverWrite,
                  CloseCheckDebt, CloseCheckRest, CheckItem, CloseBegin, CloseCommit, ConfirmExisting, ConfirmWrite,
                  FinalizeBegin, FinalizeCommit, Answer, Goto
    <3> QED BY <3>1, PutAlone
  <2> QED BY <1>5, <1>a, <2>1, ClosureGo DEF ClosureSteps
<1>6. ASSUME NEW w \in Workers, ContractsNext(w) PROVE NonePrepares'
  <2>1. Alone(w)
    BY <1>6, ContractsQuiet DEF Quiet, Alone
  <2>2. CASE Answer(w)
    BY <2>1, <2>2, AnswerAlone DEF Alone, NonePrepares
  <2>3. CASE \/ \E c \in Contracts, v \in Values : UpdateRead(w, c, v)
             \/ \E c \in Contracts : SubmitRead(w, c) \/ SendRead(w, c) \/ SignRead(w, c)
             \/ \E c \in Contracts, role \in Roles : ApproveRead(w, c, role) \/ RejectRead(w, c, role)
    BY <2>3 DEF UpdateRead, SubmitRead, SendRead, SignRead, ApproveRead, RejectRead, ReadContract, Begin,
                AfterSignature, BeforeSignature
  <2>4. CASE \/ UpdateWrite(w) \/ SubmitWrite(w) \/ ApproveWrite(w) \/ RejectWrite(w) \/ SendWrite(w)
             \/ SignFindCase(w) \/ SignLock(w) \/ SignWrite(w)
    BY <2>4 DEF UpdateWrite, SubmitWrite, ApproveWrite, RejectWrite, SendWrite, SignFindCase, SignLock, SignWrite,
                At, NonePrepares
  <2>5. CASE \E c \in Contracts, v \in Values : Create(w, c, v)
    BY <2>5 DEF Create, NonePrepares
  <2>6. ASSUME NEW c \in Contracts, NEW v \in Values, AmendRead(w, c, v) PROVE NonePrepares'
    <3> DEFINE r == [ContractRequest("amend.write", c) EXCEPT !.amount = v]
    <3>1. r.step = "amend.write" /\ Put(w, r)
      BY <2>6 DEF ContractRequest, Idle, AmendRead, Begin
    <3> HIDE DEF r
    <3>2. req'[w].step = "amend.write"
      BY <3>1, PutAlone
    <3> QED BY <2>1, <3>2 DEF Alone, NonePrepares
  <2>7. ASSUME NEW c \in Contracts, StatusRead(w, c) PROVE NonePrepares'
    <3> DEFINE to == PostSignTransition[contracts[c].status]
               r == [ContractRequest("status.swap", c) EXCEPT !.to = to,
                       !.step = IF to \in {"COMPLETED", "LIQUIDATED"} THEN "status.link"
                                ELSE IF to = "ACTIVE" THEN "status.check" ELSE @]
    <3>1. r.step \in SwapSteps /\ Put(w, r)
      BY <2>7 DEF ContractRequest, Idle, SwapSteps, StatusRead, ReadContract, Begin
    <3> HIDE DEF r
    <3>2. req'[w].step \in SwapSteps
      BY <3>1, PutAlone
    <3> QED BY <2>1, <3>2 DEF SwapSteps, Alone, NonePrepares
  <2>8. CASE StatusLink(w) \/ StatusCheck(w) \/ StatusSwap(w) \/ StatusTasks(w) \/ AmendWrite(w)
    <3>1. Answer(w) \/ \E step \in {"status.check", "status.swap", "status.tasks"} : Goto(w, step)
      BY <2>8 DEF StatusLink, StatusCheck, StatusSwap, StatusTasks, AmendWrite
    <3>2. \A step : [req[w] EXCEPT !.step = step].step = step
      BY DEF TypeInv, TypeOK, Request
    <3>3. ASSUME NEW step \in {"status.check", "status.swap", "status.tasks"}, Goto(w, step) PROVE NonePrepares'
      <4>1. req'[w].step = step
        BY <3>2, <3>3, PutAlone DEF Goto
      <4> QED BY <2>1, <4>1 DEF Alone, NonePrepares
    <3> QED BY <2>2, <3>1, <3>3
  <2> QED BY <1>6, <2>3, <2>4, <2>5, <2>6, <2>7, <2>8 DEF ContractsNext
<1> QED BY <1>1, <1>2, <1>3, <1>4, <1>5, <1>6 DEF Next

LEMMA FreshInvariant == ASSUME Sequential \/ AfterSignature PROVE Spec => [](TypeInv /\ Fresh)
<1>1. ASSUME Sequential PROVE Spec => [](TypeInv /\ Fresh)
  <2>1. ASSUME TypeInv, ContractInv, CaseInv PROVE Fresh
    <3> SUFFICES ASSUME NEW w \in Workers, req[w].step \in PresignSteps
                 PROVE  /\ ~contracts[req[w].contract].signed
                        /\ req[w].step \in {"sign.write", "sign.link"} =>
                             /\ cases[req[w].kase].contract \in {None, req[w].contract}
                             /\ cases[req[w].kase].status # "ABSENT"
      BY DEF Fresh, PresignSteps
    <3>1. ContractHeld(req[w]) /\ CaseHeld(req[w])
      BY <2>1 DEF ContractInv, CaseInv
    <3>2. req[w].contract \in Contracts
      BY <2>1 DEF TypeInv, RequestsTargeted, Targeted, ContractSteps, PresignSteps
    <3>3. contracts[req[w].contract].status \in Unsigned
      BY <3>1 DEF ContractHeld, PresignSteps, ReadingSteps, ContractSteps, Unsigned
    <3>4. ~contracts[req[w].contract].signed
      BY <2>1, <3>2, <3>3 DEF ContractInv, ContractSound, SignedStatus
    <3> QED BY <3>1, <3>4 DEF CaseHeld
  <2>2. TypeInv /\ ContractInv /\ CaseInv => Fresh
    BY <2>1
  <2>3. Spec => [](TypeInv /\ ContractInv)
    BY <1>1, ContractInvariant
  <2>4. Spec => [](TypeInv /\ CaseInv)
    BY <1>1, CaseInvariant
  <2> QED BY <2>2, <2>3, <2>4, PTL
<1>2. ASSUME AfterSignature PROVE Spec => [](TypeInv /\ Fresh)
  <2>1. Init => TypeInv /\ NonePrepares
    BY TypeInit DEF Init, Idle, NonePrepares, PresignSteps
  <2>2. TypeInv /\ NonePrepares /\ [Next]_vars => (TypeInv /\ NonePrepares)'
    BY <1>2, TypeStep, NonePreparesStep
  <2>3. NonePrepares => Fresh
    BY DEF NonePrepares, Fresh, PresignSteps
  <2> QED BY <2>1, <2>2, <2>3, PTL DEF Spec
<1> QED BY <1>1, <1>2

LEMMA LinkInvariant ==
  ASSUME Sequential \/ AfterSignature PROVE Spec => [](TypeInv /\ ClosureInv /\ Fresh /\ LinkInv)
<1>1. Init => LinkInv
  BY LinkInit
<1>2. TypeInv /\ ClosureInv /\ Fresh /\ LinkInv /\ [Next]_vars => LinkInv'
  BY LinkStep
<1> QED BY <1>1, <1>2, ClosureInvariant, FreshInvariant, PTL DEF Spec

\* However many requests overlap after the signature, and wherever the server dies, a
\* contract that a case is linked to is completed only by closing that case and
\* liquidated only by both parties' confirmation (contracts.service.ts:291-300,
\* closure.service.ts:134-147, 189-208).
THEOREM ClosureTakesBoth == ASSUME Sequential \/ AfterSignature PROVE Spec => []ClosureIsUnified
<1>1. LinkInv => ClosureIsUnified
  BY DEF LinkInv, LinkedRows, Reached, ClosureIsUnified
<1> QED BY <1>1, LinkInvariant, PTL

-----------------------------------------------------------------------------
\* Where a signed contract may go in one step.
MovesOn(c) ==
  \/ contracts'[c].status = contracts[c].status
  \/ contracts[c].status = "SIGNED" /\ contracts'[c].status = "ACTIVE"
  \/ contracts[c].status = "ACTIVE" /\ contracts'[c].status = "COMPLETED"
  \/ contracts[c].status = "COMPLETED" /\ contracts'[c].status = "LIQUIDATED"
  \/ contracts[c].status = "LIQUIDATED" /\ contracts'[c].status = "ARCHIVED"

\* A step that writes the status column of contract c.
LEMMA ColumnMoves ==
  ASSUME TypeInv, NEW c \in Contracts, NEW to, contracts' = [contracts EXCEPT ![c].status = to],
         \/ contracts[c].status = "SIGNED" /\ to = "ACTIVE"
         \/ contracts[c].status = "ACTIVE" /\ to = "COMPLETED"
         \/ contracts[c].status = "COMPLETED" /\ to = "LIQUIDATED"
         \/ contracts[c].status = "LIQUIDATED" /\ to = "ARCHIVED",
         NEW d \in Contracts
  PROVE  MovesOn(d)
BY DEF TypeInv, TypeOK, ContractRow, MovesOn

LEMMA SignedMoves ==
  ASSUME TypeInv, LinkInv, Fresh, [Next]_vars, NEW d \in Contracts, contracts[d].signed
  PROVE  MovesOn(d)
<1>a. contracts \in [Contracts -> ContractRow]
  BY DEF TypeInv, TypeOK
<1>1. CASE UNCHANGED contracts
  BY <1>1 DEF MovesOn
<1>2. ASSUME NEW w \in Workers, NEW c \in Contracts, NEW v \in Values, Create(w, c, v) PROVE MovesOn(d)
  <2>1. c # d
    BY <1>2 DEF Create, LinkInv, LinkedRows, SignedStatus, Unsigned
  <2> QED BY <1>2, <1>a, <2>1 DEF Create, MovesOn
<1>3. ASSUME NEW w \in Workers,
             UpdateWrite(w) \/ SubmitWrite(w) \/ ApproveWrite(w) \/ RejectWrite(w) \/ SendWrite(w) \/ SignWrite(w)
      PROVE MovesOn(d)
  <2>1. PICK c \in Contracts : c = req[w].contract
    BY <1>3 DEF UpdateWrite, SubmitWrite, ApproveWrite, RejectWrite, SendWrite, SignWrite, At, TypeInv,
                RequestsTargeted, Targeted, ContractSteps
  <2>2. c # d
    BY <1>3, <2>1 DEF UpdateWrite, SubmitWrite, ApproveWrite, RejectWrite, SendWrite, SignWrite, At, Fresh, PresignSteps
  <2>3. CASE UpdateWrite(w)
    BY <1>a, <2>1, <2>2, <2>3 DEF UpdateWrite, MovesOn
  <2>4. CASE ApproveWrite(w)
    BY <1>a, <2>1, <2>2, <2>4 DEF ApproveWrite, MovesOn
  <2>5. CASE SubmitWrite(w) \/ RejectWrite(w) \/ SendWrite(w)
    BY <1>a, <2>1, <2>2, <2>5 DEF SubmitWrite, RejectWrite, SendWrite, SetStatus, MovesOn
  <2>6. CASE SignWrite(w)
    BY <1>a, <2>1, <2>2, <2>6 DEF SignWrite, MovesOn
  <2> QED BY <1>3, <2>3, <2>4, <2>5, <2>6
<1>4. ASSUME NEW w \in Workers, AmendWrite(w) PROVE MovesOn(d)
  <2>1. PICK c \in Contracts : c = req[w].contract
    BY <1>4 DEF AmendWrite, At, TypeInv, RequestsTargeted, Targeted, ContractSteps
  <2>2. PICK version, value : contracts' = [contracts EXCEPT ![c].version = version, ![c].value = value]
    BY <1>4, <2>1 DEF AmendWrite
  <2> QED BY <1>a, <2>2 DEF ContractRow, MovesOn
<1>5. ASSUME NEW w \in Workers, StatusSwap(w) PROVE MovesOn(d)
  <2>1. PICK c \in Contracts : c = req[w].contract
    BY <1>5 DEF StatusSwap, At, TypeInv, RequestsTargeted, Targeted, ContractSteps
  <2>2. CASE contracts[c].status = req[w].seenContract.status
    <3>1. contracts' = [contracts EXCEPT ![c].status = req[w].to]
      BY <1>5, <2>1, <2>2 DEF StatusSwap
    <3>2. contracts[c].status \in DOMAIN PostSignTransition /\ req[w].to = PostSignTransition[contracts[c].status]
      BY <1>5, <2>2 DEF StatusSwap, At, LinkInv, MovesHeld, StatusHeld, SwapSteps
    <3>3. \/ contracts[c].status = "SIGNED" /\ req[w].to = "ACTIVE"
          \/ contracts[c].status = "ACTIVE" /\ req[w].to = "COMPLETED"
          \/ contracts[c].status = "COMPLETED" /\ req[w].to = "LIQUIDATED"
          \/ contracts[c].status = "LIQUIDATED" /\ req[w].to = "ARCHIVED"
      BY <3>2 DEF PostSignTransition
    <3> QED BY <3>1, <3>3, ColumnMoves
  <2>3. CASE contracts[c].status # req[w].seenContract.status
    BY <1>1, <1>5, <2>1, <2>3 DEF StatusSwap
  <2> QED BY <2>2, <2>3
<1>6. ASSUME NEW w \in Workers, CloseCommit(w) \/ FinalizeCommit(w), ~UNCHANGED contracts PROVE MovesOn(d)
  <2>1. PICK c \in Contracts : c = req[w].linked
    <3>1. req[w].step \in Committing /\ req[w].seenContract.status # "ABSENT"
      BY <1>6 DEF CloseCommit, FinalizeCommit, At, Committing
    <3> QED BY <3>1, LinkTargets
  <2>2. CommitHeld(req[w])
    BY DEF LinkInv, MovesHeld
  <2>3. CASE CloseCommit(w)
    BY <1>6, <2>1, <2>2, <2>3, ColumnMoves DEF CloseCommit, At, CommitHeld
  <2>4. CASE FinalizeCommit(w)
    BY <1>6, <2>1, <2>2, <2>4, ColumnMoves DEF FinalizeCommit, At, CommitHeld
  <2> QED BY <1>6, <2>3, <2>4
<1>7. CASE Crash \/ UNCHANGED vars
  BY <1>1, <1>7 DEF Crash, tables, vars
<1>8. ASSUME NEW w \in Workers, ContractsNext(w) PROVE MovesOn(d)
  <2>1. CASE \/ \E c \in Contracts, v \in Values : UpdateRead(w, c, v) \/ AmendRead(w, c, v)
             \/ \E c \in Contracts : SubmitRead(w, c) \/ SendRead(w, c) \/ SignRead(w, c) \/ StatusRead(w, c)
             \/ \E c \in Contracts, role \in Roles : ApproveRead(w, c, role) \/ RejectRead(w, c, role)
             \/ SignFindCase(w) \/ SignLock(w) \/ StatusLink(w) \/ StatusCheck(w) \/ StatusTasks(w)
    BY <1>1, <2>1 DEF UpdateRead, AmendRead, SubmitRead, SendRead, SignRead, StatusRead, ApproveRead, RejectRead,
                      ReadContract, SignFindCase, SignLock, StatusLink, StatusCheck, StatusTasks, tables
  <2> QED BY <1>2, <1>3, <1>4, <1>5, <1>8, <2>1 DEF ContractsNext
<1>9. ASSUME NEW w \in Workers, PaymentsNext(w) \/ CasesNext(w) PROVE MovesOn(d)
  BY <1>1, <1>9, PaymentsGo, CasesGo DEF OnlyPayments, OnlyCases
<1>10. ASSUME NEW w \in Workers, ClosureNext(w) PROVE MovesOn(d)
  BY <1>1, <1>6, <1>10, ClosureGo
<1> QED BY <1>7, <1>8, <1>9, <1>10 DEF Next

\* However many requests overlap after the signature, and wherever the server dies, a
\* signed contract never goes back to an earlier status (contracts.service.ts:356-365,
\* closure.service.ts:134-147, 189-208).
THEOREM SignedNeverGoesBack == ASSUME Sequential \/ AfterSignature PROVE Spec => SignedMovesForward
<1>1. ASSUME TypeInv, LinkInv, Fresh, [Next]_vars, NEW c \in Contracts, NEW before \in DOMAIN Stages,
             NEW after \in DOMAIN Stages, contracts[c].signed, contracts[c].status = Stages[before],
             contracts'[c].status = Stages[after]
      PROVE  before <= after
  <2>1. before \in 1..10 /\ after \in 1..10
    BY DEF Stages
  <2>2. MovesOn(c)
    BY <1>1, SignedMoves
  <2> QED BY <1>1, <2>1, <2>2 DEF MovesOn, Stages
<1>2. TypeInv /\ LinkInv /\ Fresh /\ [Next]_vars =>
        \A c \in Contracts : \A before \in DOMAIN Stages :
          contracts[c].signed /\ contracts[c].status = Stages[before]
            => \A after \in DOMAIN Stages : contracts'[c].status = Stages[after] => before <= after
  BY <1>1
<1> QED BY <1>2, LinkInvariant, PTL DEF Spec, SignedMovesForward
=============================================================================
