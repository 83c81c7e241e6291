-------------------------- MODULE ContractsService --------------------------
(***************************************************************************)
(* The handlers of ContractsService that change state.  Each checks the    *)
(* status of a row it has read and later writes by id alone; only          *)
(* updateStatus compares the status again when it writes.                  *)
(***************************************************************************)
EXTENDS CrmStore

OnlyContracts == UNCHANGED <<amendments, payments, cases, workDone, handovers, liquidations>>

\* requireStatus() and the request that remembers the row it returned.
ReadContract(w, op, c, allowed, r) ==
  /\ contracts[c].status \in allowed
  /\ Begin(w, op, r)
  /\ UNCHANGED tables

\* prisma.contract.update({ where: { id } }) with a new status, whatever the
\* row holds by now.
SetStatus(w, status) ==
  /\ ContractUnlocked(req[w].contract)
  /\ contracts' = [contracts EXCEPT ![req[w].contract].status = status]
  /\ OnlyContracts
  /\ Answer(w)

\* assertApproverAllowed(): at or above the threshold only the director decides.
MayApprove(role, row) == row.value >= ApprovalThreshold => role = "EXECUTIVE_DIRECTOR"

-----------------------------------------------------------------------------
Create(w, c, v) ==
  /\ "contract.create" \in Operations /\ At(w, "idle")
  /\ contracts[c].status = "ABSENT"
  /\ contracts' = [contracts EXCEPT ![c] = [NoContract EXCEPT !.status = "DRAFT", !.value = v]]
  /\ OnlyContracts /\ UNCHANGED req

\* Faulty: an approved contract can still be edited.
UpdateReadTooLate(w, c, v) ==
  ReadContract(w, "contract.update", c, {"DRAFT", "APPROVED"},
               [ContractRequest("update.write", c) EXCEPT !.amount = v])

UpdateRead(w, c, v) ==
  ReadContract(w, "contract.update", c, {"DRAFT"},
               [ContractRequest("update.write", c) EXCEPT !.amount = v])

UpdateWrite(w) ==
  /\ At(w, "update.write")
  /\ ContractUnlocked(req[w].contract)
  /\ contracts' = [contracts EXCEPT ![req[w].contract].value = req[w].amount]
  /\ OnlyContracts
  /\ Answer(w)

SubmitRead(w, c) ==
  ReadContract(w, "contract.submit", c, {"DRAFT"}, ContractRequest("submit.write", c))

SubmitWrite(w) == At(w, "submit.write") /\ SetStatus(w, "REVIEW")

ApproveRead(w, c, role) ==
  /\ MayApprove(role, contracts[c])
  /\ ReadContract(w, "contract.approve", c, {"REVIEW"},
                  [ContractRequest("approve.write", c) EXCEPT !.to = role])

ApproveWrite(w) ==
  /\ At(w, "approve.write")
  /\ ContractUnlocked(req[w].contract)
  /\ contracts' = [contracts EXCEPT ![req[w].contract].status = "APPROVED",
                                    ![req[w].contract].approvedBy = req[w].to]
  /\ OnlyContracts
  /\ Answer(w)

RejectRead(w, c, role) ==
  /\ MayApprove(role, contracts[c])
  /\ ReadContract(w, "contract.reject", c, {"REVIEW"}, ContractRequest("reject.write", c))

RejectWrite(w) == At(w, "reject.write") /\ SetStatus(w, "DRAFT")

SendRead(w, c) ==
  ReadContract(w, "contract.send", c, {"APPROVED"}, ContractRequest("send.write", c))

SendWrite(w) == At(w, "send.write") /\ SetStatus(w, "SENT")

-----------------------------------------------------------------------------
SignRead(w, c) ==
  ReadContract(w, "contract.sign", c, {"SENT"}, ContractRequest("sign.case", c))

\* NO_ACTIVE_CASE_FOR_STUDENT and CASE_ALREADY_LINKED end the request.
SignFindCase(w) ==
  /\ At(w, "sign.case")
  /\ \/ /\ ActiveCases = {}
        /\ Answer(w)
     \/ \E k \in ActiveCases :
          IF cases[k].contract \in {None, req[w].contract}
          THEN Put(w, [req[w] EXCEPT !.step = "sign.write", !.kase = k])
          ELSE Answer(w)
  /\ UNCHANGED tables

\* The transaction updates the contract first, and keeps the row locked ...
SignLock(w) ==
  /\ At(w, "sign.write")
  /\ ContractUnlocked(req[w].contract)
  /\ Goto(w, "sign.link")
  /\ UNCHANGED tables

\* ... then the case, and commits both.  Case.contractId is unique: linking a
\* contract that another case already has aborts it, as a deadlock does.
SignWrite(w) ==
  LET c == req[w].contract
      k == req[w].kase
  IN  /\ At(w, "sign.link")
      /\ CaseUnlocked(k) \/ Deadlocked(w)
      /\ IF Deadlocked(w) \/ \E other \in Cases \ {k} : cases[other].contract = c
         THEN UNCHANGED <<contracts, cases>>
         ELSE /\ contracts' = [contracts EXCEPT ![c].status = "SIGNED", ![c].signed = TRUE]
              /\ cases' = [cases EXCEPT ![k].contract = c]
      /\ Answer(w)
      /\ UNCHANGED <<amendments, payments, workDone, handovers, liquidations>>

-----------------------------------------------------------------------------
PostSignTransition == [SIGNED |-> "ACTIVE", ACTIVE |-> "COMPLETED",
                       COMPLETED |-> "LIQUIDATED", LIQUIDATED |-> "ARCHIVED"]

StatusRead(w, c) ==
  ReadContract(w, "contract.status", c, DOMAIN PostSignTransition,
    LET to == PostSignTransition[contracts[c].status]
    IN  [ContractRequest("status.swap", c) EXCEPT !.to = to,
           !.step = IF to \in {"COMPLETED", "LIQUIDATED"} THEN "status.link"
                    ELSE IF to = "ACTIVE" THEN "status.check" ELSE @])

\* Faulty: the direct route stays open for linked contracts.
StatusLinkIgnored(w) ==
  /\ At(w, "status.link")
  /\ Goto(w, IF req[w].to = "COMPLETED" THEN "status.check" ELSE "status.swap")
  /\ UNCHANGED tables

\* USE_UNIFIED_CLOSURE_WORKFLOW when some case is linked to the contract.
StatusLink(w) ==
  /\ At(w, "status.link")
  /\ IF IsLinked(req[w].contract) THEN Answer(w)
     ELSE Goto(w, IF req[w].to = "COMPLETED" THEN "status.check" ELSE "status.swap")
  /\ UNCHANGED tables

\* At least 30% of the contract's value, as read before the transaction; exactly
\* 30% may be found wanting (0.03 + 0.30 < 1.10 * 0.3).
Activatable(c, value) == TRUE \in AtLeast(10 * NetPaid(c), 3 * value)

\* Faulty: refunds are not deducted from what was received.
StatusCheckGross(w) ==
  LET c == req[w].contract
      received == SumFunction([n \in Installments |-> payments[c][n].paid])
      outcomes == IF req[w].to = "ACTIVE"
                  THEN AtLeast(10 * received, 3 * req[w].seenContract.value)
                  ELSE {~HasUnresolved(c)}
  IN  /\ At(w, "status.check")
      /\ \E ok \in outcomes : IF ok THEN Goto(w, "status.swap") ELSE Answer(w)
      /\ UNCHANGED tables

StatusCheck(w) ==
  LET c == req[w].contract
      outcomes == IF req[w].to = "ACTIVE"
                  THEN AtLeast(10 * NetPaid(c), 3 * req[w].seenContract.value)
                  ELSE {~HasUnresolved(c)}
  IN  /\ At(w, "status.check")
      /\ \E ok \in outcomes : IF ok THEN Goto(w, "status.swap") ELSE Answer(w)
      /\ UNCHANGED tables

\* Faulty: an update by id instead of the compare-and-swap.
StatusSwapBlind(w) ==
  /\ At(w, "status.swap")
  /\ ContractUnlocked(req[w].contract)
  /\ contracts' = [contracts EXCEPT ![req[w].contract].status = req[w].to]
  /\ IF req[w].to = "ACTIVE" THEN Goto(w, "status.tasks") ELSE Answer(w)
  /\ OnlyContracts

\* Faulty: a swap that finds another status is tried again instead of refused.
StatusSwapRetry(w) ==
  LET c == req[w].contract
  IN  /\ At(w, "status.swap")
      /\ ContractUnlocked(c)
      /\ contracts[c].status = req[w].seenContract.status
      /\ contracts' = [contracts EXCEPT ![c].status = req[w].to]
      /\ IF req[w].to = "ACTIVE" THEN Goto(w, "status.tasks") ELSE Answer(w)
      /\ OnlyContracts

\* updateMany({ where: { id, status: observed } }): the compare-and-swap.
StatusSwap(w) ==
  LET c == req[w].contract
  IN  /\ At(w, "status.swap")
      /\ ContractUnlocked(c)
      /\ IF contracts[c].status = req[w].seenContract.status
         THEN /\ contracts' = [contracts EXCEPT ![c].status = req[w].to]
              /\ IF req[w].to = "ACTIVE" THEN Goto(w, "status.tasks") ELSE Answer(w)
         ELSE Answer(w) /\ UNCHANGED contracts
      /\ OnlyContracts

\* Tasks for CONTRACT_ACTIVATED, if a template asks for one, go to the linked case.
StatusTasks(w) ==
  /\ At(w, "status.tasks")
  /\ \/ UNCHANGED workDone
     \/ \E k \in Cases : /\ cases[k].contract = req[w].contract
                         /\ workDone' = [workDone EXCEPT ![k] = FALSE]
  /\ Answer(w)
  /\ UNCHANGED <<contracts, amendments, payments, cases, handovers, liquidations>>

-----------------------------------------------------------------------------
\* v is the value the contract has when the amendment changes only other terms.
AmendRead(w, c, v) ==
  /\ contracts[c].signed
  /\ Len(amendments[c]) < MaxAmendments
  /\ Begin(w, "contract.amend", [ContractRequest("amend.write", c) EXCEPT !.amount = v])
  /\ UNCHANGED tables

\* Faulty: the amendment records the new value as the previous one.
AmendWriteAfterUpdate(w) ==
  LET c    == req[w].contract
      seen == req[w].seenContract
      row  == [previousVersion |-> seen.version, newVersion |-> seen.version + 1,
               before |-> req[w].amount, after |-> req[w].amount]
  IN  /\ At(w, "amend.write")
      /\ ContractUnlocked(c)
      /\ amendments' = [amendments EXCEPT ![c] = Append(@, row)]
      /\ contracts' = [contracts EXCEPT ![c].version = row.newVersion, ![c].value = row.after]
      /\ Answer(w)
      /\ UNCHANGED <<payments, cases, workDone, handovers, liquidations>>

\* version and value come from the row read before the amendment code was drawn.
AmendWrite(w) ==
  LET c    == req[w].contract
      seen == req[w].seenContract
      row  == [previousVersion |-> seen.version, newVersion |-> seen.version + 1,
               before |-> seen.value, after |-> req[w].amount]
  IN  /\ At(w, "amend.write")
      /\ ContractUnlocked(c)
      /\ amendments' = [amendments EXCEPT ![c] = Append(@, row)]
      /\ contracts' = [contracts EXCEPT ![c].version = row.newVersion, ![c].value = row.after]
      /\ Answer(w)
      /\ UNCHANGED <<payments, cases, workDone, handovers, liquidations>>

-----------------------------------------------------------------------------
ContractsNext(w) ==
  \/ \E c \in Contracts, v \in Values : Create(w, c, v) \/ UpdateRead(w, c, v) \/ AmendRead(w, c, v)
  \/ \E c \in Contracts : SubmitRead(w, c) \/ SendRead(w, c) \/ SignRead(w, c) \/ StatusRead(w, c)
  \/ \E c \in Contracts, role \in Roles : ApproveRead(w, c, role) \/ RejectRead(w, c, role)
  \/ UpdateWrite(w) \/ SubmitWrite(w) \/ ApproveWrite(w) \/ RejectWrite(w) \/ SendWrite(w)
  \/ SignFindCase(w) \/ SignLock(w) \/ SignWrite(w)
  \/ StatusLink(w) \/ StatusCheck(w) \/ StatusSwap(w) \/ StatusTasks(w)
  \/ AmendWrite(w)
=============================================================================
