--------------------------- MODULE ClosureService ---------------------------
(***************************************************************************)
(* The unified closure and liquidation workflow: document handover, the    *)
(* six-item checklist, the transaction that closes a case and completes    *)
(* its contract, and the two-party liquidation confirmation.               *)
(***************************************************************************)
EXTENDS PaymentsService

CLOSABLE_FROM == {"OPEN", "ACTIVE", "ON_HOLD", "COMPLETED"}

OnlyClosure == UNCHANGED <<amendments, workDone>>

ReadCase(w, op, k, allowed, r) ==
  /\ cases[k].status \in allowed
  /\ Begin(w, op, r)
  /\ UNCHANGED tables

-----------------------------------------------------------------------------
ConfirmHandoverRead(w, k) ==
  ReadCase(w, "closure.handover", k, CLOSABLE_FROM, CaseRequest("handover.write", k))

ConfirmHandoverWrite(w) ==
  /\ At(w, "handover.write")
  /\ handovers' = [handovers EXCEPT ![req[w].kase] = TRUE]
  /\ Answer(w)
  /\ OnlyClosure /\ UNCHANGED <<contracts, payments, cases, liquidations>>

-----------------------------------------------------------------------------
CloseRead(w, k) ==
  ReadCase(w, "closure.close", k, CLOSABLE_FROM, CaseRequest("close.check", k))

\* One item of buildStatus() is evaluated.  All of them are awaited before
\* the first that failed ends the request.
CheckItem(w, item, fails) ==
  LET checked == req[w].checked \cup {item}
      failing == req[w].failing \/ fails
  IN  IF checked # Checklist
      THEN Put(w, [req[w] EXCEPT !.checked = checked, !.failing = failing])
      ELSE IF failing THEN Answer(w) ELSE Goto(w, "close.begin")

\* Faulty: overdue installments are not counted as debt.
CloseCheckDebtPending(w, due) ==
  LET c == cases[req[w].kase].contract
      pending == c # None /\ \E n \in Installments :
                               Swept(c, due)[n].status \in {"PENDING", "PARTIALLY_PAID"}
  IN  /\ At(w, "close.check") /\ "DEBT" \notin req[w].checked
      /\ CheckItem(w, "DEBT", pending)
      /\ IF c = None THEN UNCHANGED payments
         ELSE payments' = [payments EXCEPT ![c] = Swept(c, due)]
      /\ OnlyClosure /\ UNCHANGED <<contracts, cases, handovers, liquidations>>

\* hasOutstandingDebtForCase() reads the case's contract again, sweeps
\* overdue rows, and fails the item while a payment is unresolved.
CloseCheckDebt(w, due) ==
  LET c == cases[req[w].kase].contract
  IN  /\ At(w, "close.check") /\ "DEBT" \notin req[w].checked
      /\ IF c = None
         THEN CheckItem(w, "DEBT", FALSE) /\ UNCHANGED payments
         ELSE /\ payments' = [payments EXCEPT ![c] = Swept(c, due)]
              /\ CheckItem(w, "DEBT", HasUnresolved(c))
      /\ OnlyClosure /\ UNCHANGED <<contracts, cases, handovers, liquidations>>

\* Faulty: the document handover is not among the items.
CloseCheckFewer(w) ==
  /\ At(w, "close.check") /\ "REST" \notin req[w].checked
  /\ CheckItem(w, "REST", ~workDone[req[w].kase])
  /\ UNCHANGED tables

\* OPEN_TASKS, VISA, ENROLLMENT, PRE_DEPARTURE and DOCUMENT_HANDOVER.
CloseCheckRest(w) ==
  LET k == req[w].kase
  IN  /\ At(w, "close.check") /\ "REST" \notin req[w].checked
      /\ CheckItem(w, "REST", ~(workDone[k] /\ handovers[k]))
      /\ UNCHANGED tables

\* tx.case.update takes the row lock; then the transaction reads the
\* contract the case had when the request began.
CloseBegin(w) ==
  /\ At(w, "close.begin")
  /\ CaseUnlocked(req[w].kase)
  /\ Put(w, [req[w] EXCEPT !.step = "close.commit",
               !.seenContract = IF req[w].linked = None THEN NoContract
                                ELSE contracts[req[w].linked]])
  /\ UNCHANGED tables

\* Commit: the case is CLOSED and a contract that was ACTIVE is COMPLETED.  A
\* deadlock rolls both back.
CloseCommit(w) ==
  /\ At(w, "close.commit")
  /\ IF Deadlocked(w) THEN UNCHANGED <<contracts, cases>>
     ELSE /\ cases' = [cases EXCEPT ![req[w].kase].status = "CLOSED"]
          /\ IF req[w].seenContract.status = "ACTIVE"
             THEN /\ ContractUnlocked(req[w].linked)
                  /\ contracts' = [contracts EXCEPT ![req[w].linked].status = "COMPLETED"]
             ELSE UNCHANGED contracts
  /\ Answer(w)
  /\ OnlyClosure /\ UNCHANGED <<payments, handovers, liquidations>>

-----------------------------------------------------------------------------
\* confirmLiquidationCompany() and, from the portal, ...StudentParent().
ConfirmRead(w, k, party) ==
  ReadCase(w, "closure.confirm", k, {"CLOSED"},
           [CaseRequest("confirm.existing", k) EXCEPT !.to = party])

\* ALREADY_LIQUIDATED ends the request.
ConfirmExisting(w) ==
  /\ At(w, "confirm.existing")
  /\ IF liquidations[req[w].kase].status = "LIQUIDATED" THEN Answer(w)
     ELSE Goto(w, "confirm.write")
  /\ UNCHANGED tables

\* Faulty: the upsert replaces the row instead of adding one timestamp.
ConfirmWriteReplace(w) ==
  LET k == req[w].kase
  IN  /\ At(w, "confirm.write")
      /\ LiquidationUnlocked(k)
      /\ liquidations' = [liquidations EXCEPT ![k].confirmed = {req[w].to}]
      /\ Answer(w)
      /\ OnlyClosure /\ UNCHANGED <<contracts, payments, cases, handovers>>

\* Faulty: only the company's own confirmation finalizes.
ConfirmWriteCompany(w) ==
  LET k == req[w].kase
      confirmed == liquidations[k].confirmed \cup {req[w].to}
  IN  /\ At(w, "confirm.write")
      /\ LiquidationUnlocked(k)
      /\ liquidations' = [liquidations EXCEPT ![k].confirmed = confirmed]
      /\ IF confirmed = Parties /\ req[w].to = "company" THEN Goto(w, "finalize.begin") ELSE Answer(w)
      /\ OnlyClosure /\ UNCHANGED <<contracts, payments, cases, handovers>>

\* The upsert sets one party's timestamp and returns the whole row.
ConfirmWrite(w) ==
  LET k == req[w].kase
      confirmed == liquidations[k].confirmed \cup {req[w].to}
  IN  /\ At(w, "confirm.write")
      /\ LiquidationUnlocked(k)
      /\ liquidations' = [liquidations EXCEPT ![k].confirmed = confirmed]
      /\ IF confirmed = Parties THEN Goto(w, "finalize.begin") ELSE Answer(w)
      /\ OnlyClosure /\ UNCHANGED <<contracts, payments, cases, handovers>>

\* finalizeLiquidationIfBothConfirmed(): lock the row, read the contract ...
FinalizeBegin(w) ==
  /\ At(w, "finalize.begin")
  /\ LiquidationUnlocked(req[w].kase)
  /\ Put(w, [req[w] EXCEPT !.step = "finalize.commit",
               !.seenContract = IF req[w].linked = None THEN NoContract
                                ELSE contracts[req[w].linked]])
  /\ UNCHANGED tables

\* ... and liquidate both in the same transaction.
FinalizeCommit(w) ==
  /\ At(w, "finalize.commit")
  /\ liquidations' = [liquidations EXCEPT ![req[w].kase].status = "LIQUIDATED"]
  /\ IF req[w].seenContract.status = "COMPLETED"
     THEN /\ ContractUnlocked(req[w].linked)
          /\ contracts' = [contracts EXCEPT ![req[w].linked].status = "LIQUIDATED"]
     ELSE UNCHANGED contracts
  /\ Answer(w)
  /\ OnlyClosure /\ UNCHANGED <<payments, cases, handovers>>

ClosureNext(w) ==
  \/ \E k \in Cases : ConfirmHandoverRead(w, k) \/ CloseRead(w, k)
  \/ \E k \in Cases, party \in Parties : ConfirmRead(w, k, party)
  \/ ConfirmHandoverWrite(w)
  \/ \E due \in SUBSET Installments : CloseCheckDebt(w, due)
  \/ CloseCheckRest(w) \/ CloseBegin(w) \/ CloseCommit(w)
  \/ ConfirmExisting(w) \/ ConfirmWrite(w) \/ FinalizeBegin(w) \/ FinalizeCommit(w)
=============================================================================
