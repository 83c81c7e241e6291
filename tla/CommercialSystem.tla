-------------------------- MODULE CommercialSystem --------------------------
(***************************************************************************)
(* The commercial life of a student: the contract, payment, case and       *)
(* closure services as one system over the shared tables, with the         *)
(* properties that relate them.                                            *)
(*                                                                         *)
(* StartSigned is TRUE in instances that begin with one contract already   *)
(* signed and linked to the student's open case.                           *)
(***************************************************************************)
EXTENDS ContractsService, CasesService, ClosureService

CONSTANT StartSigned

ASSUME StartAssumption == StartSigned \in BOOLEAN

SignedContract(v) == [NoContract EXCEPT !.status = "SIGNED", !.signed = TRUE, !.value = v,
                                        !.approvedBy = "EXECUTIVE_DIRECTOR"]

InitRows ==
  IF StartSigned
  THEN \E c \in Contracts, k \in Cases, v \in Values :
         /\ contracts = [x \in Contracts |-> IF x = c THEN SignedContract(v) ELSE NoContract]
         /\ cases = [x \in Cases |-> IF x = k THEN [status |-> "OPEN", contract |-> c] ELSE NoCase]
  ELSE /\ contracts = [x \in Contracts |-> NoContract]
       /\ cases = [x \in Cases |-> NoCase]

Init ==
  /\ InitRows
  /\ amendments = [c \in Contracts |-> << >>]
  /\ payments = [c \in Contracts |-> [n \in Installments |-> NoPayment]]
  /\ workDone = [k \in Cases |-> TRUE]
  /\ handovers = [k \in Cases |-> FALSE]
  /\ liquidations = [k \in Cases |-> NoLiquidation]
  /\ req = [w \in Workers |-> Idle]

Next ==
  \/ \E w \in Workers : ContractsNext(w) \/ PaymentsNext(w) \/ CasesNext(w) \/ ClosureNext(w)
  \/ Crash

Spec == Init /\ [][Next]_vars

\* The event loop resumes every request whose awaited query has settled; a
\* request that waits for a row lock is served when the lock is released.
Continue(w) ==
  /\ ~At(w, "idle")
  /\ ContractsNext(w) \/ PaymentsNext(w) \/ CasesNext(w) \/ ClosureNext(w)
  /\ req'[w] # req[w]

FairRequests == \A w \in Workers : SF_vars(Continue(w))
FairSpec     == Spec /\ FairRequests

-----------------------------------------------------------------------------
(* What overlapping requests and crashes cannot break.                     *)

\* A case that is CLOSED had its document handover confirmed, and a party
\* confirms the liquidation only of such a case, although close() checks the
\* handover outside its transaction (closure.service.ts:124-134, 171).
ClosureFollowsHandover ==
  \A k \in Cases :
    (cases[k].status = "CLOSED" \/ liquidations[k].confirmed # {}) => handovers[k]

\* Without allowOverpayment no row ever holds more than its installment, and
\* never more is given back than the installment, although both sums are
\* written from a stale row (payments.service.ts:187-209, 227-248).
NoOverpayment ==
  \A c \in Contracts, n \in Installments :
    LET p == payments[c][n] IN p.paid <= p.amount /\ p.refunded <= p.amount

\* A row reads PAID only when the whole installment came in ("PAID only once the
\* full amount (or more, with explicit allowOverpayment) is in",
\* payments.service.ts:196-198), and PENDING only while nothing did, although a
\* record, a refund, a waiver and a sweep write over what another one wrote.  A
\* row that holds its whole installment need not be PAID: the floating-point sum
\* that the handler compares can be below the cents that the column stores.
SettledMeansCovered ==
  \A c \in Contracts, n \in Installments :
    LET p == payments[c][n]
    IN  /\ p.status = "PAID" => p.paid >= p.amount
        /\ p.status = "PENDING" => p.paid = 0 /\ p.refunded = 0

\* A contract that a case is linked to is completed only by closing that case,
\* and liquidated only by both parties' confirmation: the direct route through
\* updateStatus() is shut for it (contracts.service.ts:291-300).
ClosureIsUnified ==
  \A c \in Contracts, k \in Cases :
    cases[k].contract = c =>
      /\ contracts[c].status \in {"COMPLETED", "LIQUIDATED", "ARCHIVED"} => handovers[k]
      /\ contracts[c].status \in {"LIQUIDATED", "ARCHIVED"} =>
           liquidations[k].status = "LIQUIDATED"

\* A contract that is past its signature never goes back to an earlier status,
\* however its post-signature requests overlap: updateStatus() compares the
\* status it read when it writes, close() and the finalization read it under a
\* row lock (contracts.service.ts:356-365, closure.service.ts:134-147, 189-208).
Stages == <<"ABSENT", "DRAFT", "REVIEW", "APPROVED", "SENT", "SIGNED",
            "ACTIVE", "COMPLETED", "LIQUIDATED", "ARCHIVED">>
SignedMovesForward ==
  [][\A c \in Contracts : \A before \in DOMAIN Stages :
       contracts[c].signed /\ contracts[c].status = Stages[before]
         => \A after \in DOMAIN Stages : contracts'[c].status = Stages[after] => before <= after]_vars

\* The liquidation rows behave as the two-party agreement that DEC-08 asks for
\* (closure.service.ts:165-209): no party's confirmation is lost, and the row
\* turns LIQUIDATED only when both are in, whoever finalizes it.
Agreement == INSTANCE LiquidationAgreement WITH
               confirmed <- [k \in Cases |-> liquidations[k].confirmed],
               final <- [k \in Cases |-> liquidations[k].status = "LIQUIDATED"]
AgreementSpec == Agreement!Spec

-----------------------------------------------------------------------------
(* What holds while requests do not overlap.                               *)

\* A contract becomes ACTIVE only while at least 30% of its value has come in
\* and was not given back, to the cent (contracts.service.ts:302-336).
ActivationFunded ==
  [][\A c \in Contracts :
       contracts[c].status = "SIGNED" /\ contracts'[c].status = "ACTIVE"
         => Activatable(c, contracts[c].value)]_vars

\* A contract approved at or above the threshold was approved by the director:
\* its terms cannot grow past the approver's authority between the approval
\* and the signature (contracts.service.ts:193-204, 480-490).
ApprovalAuthority ==
  \A c \in Contracts :
    contracts[c].status \in {"APPROVED", "SENT"} /\ contracts[c].value >= ApprovalThreshold
      => contracts[c].approvedBy = "EXECUTIVE_DIRECTOR"

\* The terms of a contract that has been signed change only together with an
\* amendment row that records them before and after
\* (contracts.service.ts:135-138, docs/database/DATA_DICTIONARY.md:68).
TermsChangeByAmendment ==
  [][\A c \in Contracts :
       contracts[c].signed /\ contracts'[c].value # contracts[c].value
         => LET h == amendments'[c]
            IN  /\ Len(h) = Len(amendments[c]) + 1
                /\ h[Len(h)].before = contracts[c].value
                /\ h[Len(h)].after = contracts'[c].value]_vars

\* The amendments are a gapless history of versions that leads to the contract's
\* present version and value (contracts.service.ts:425-452).
AmendmentHistory ==
  \A c \in Contracts :
    LET h == amendments[c]
    IN  /\ contracts[c].version = Len(h) + 1
        /\ \A i \in DOMAIN h : h[i].previousVersion = i /\ h[i].newVersion = i + 1
        /\ \A i \in 2..Len(h) : h[i].before = h[i-1].after
        /\ h # << >> => contracts[c].value = h[Len(h)].after

\* No more is given back than was received; a row reads REFUNDED only when all of
\* it was given back ("only flips to REFUNDED once the full net-paid amount has
\* been given back", payments.service.ts:213-217), and one that took more than its
\* installment owes nothing.  Not the converse of the second: the floating-point
\* sum of the last refund can be below the amount paid and leave the row PAID.
LedgerAgrees ==
  \A c \in Contracts, n \in Installments :
    LET p == payments[c][n]
    IN  /\ p.refunded <= p.paid
        /\ p.status = "REFUNDED" => p.paid > 0 /\ p.refunded = p.paid
        /\ p.paid > p.amount => p.status \notin UnresolvedStatuses

\* The step that closes a case finds every payment of its contract resolved and
\* leaves that contract not ACTIVE (closure.service.ts:117-147).
CloseSettlesContract ==
  [][\A c \in Contracts, k \in Cases :
       (cases[k].status # "CLOSED" /\ cases'[k].status = "CLOSED" /\ cases[k].contract = c)
         => ~HasUnresolved(c) /\ contracts'[c].status # "ACTIVE"]_vars

\* A student has at most one case that is neither closed nor archived, and a
\* contract that was signed belongs to one of the student's cases
\* (cases.service.ts:97-117, contracts.service.ts:234-262).
OneActiveCase ==
  /\ Cardinality(ActiveCases) <= 1
  /\ \A c \in Contracts : contracts[c].signed => IsLinked(c)

-----------------------------------------------------------------------------
(* Liveness, while the server does not die.                                *)

\* Once both parties have confirmed, the liquidation is finalized by the request
\* that brought the second confirmation (closure.service.ts:179-191).
ConfirmedIsFinalized ==
  \A k \in Cases : liquidations[k].confirmed = Parties
                     ~> liquidations[k].status = "LIQUIDATED"

\* Every request is answered.  A signature locks the contract and then the case,
\* close() the case and then the contract: the two can wait for each other, and
\* go on only because the database aborts one of them, which no handler tries
\* again (contracts.service.ts:255-261, closure.service.ts:134-147).
RequestsAreAnswered == \A w \in Workers : ~At(w, "idle") ~> At(w, "idle")

-----------------------------------------------------------------------------
(* What a comment or a document says and the code does not keep.           *)

\* The closure workflow "keeps `Case.status`/`Contract.status` synchronized in
\* one transaction" (contracts.service.ts:285): no contract is ACTIVE whose case
\* is CLOSED.
CaseAndContractInSync ==
  \A c \in Contracts, k \in Cases :
    cases[k].contract = c /\ cases[k].status = "CLOSED" => contracts[c].status # "ACTIVE"
=============================================================================
