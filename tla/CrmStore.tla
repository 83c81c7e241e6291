------------------------------ MODULE CrmStore ------------------------------
(***************************************************************************)
(* The tables that the commercial and case-management services share, and  *)
(* the requests the API server has under way.                              *)
(*                                                                         *)
(* A request handler is an async function whose awaited Prisma calls each  *)
(* run against PostgreSQL at READ COMMITTED; other requests run in between *)
(* its awaits.  A worker w is one request slot: req[w] holds the step the  *)
(* handler has reached, its targets, and the rows it has read.  One worker *)
(* is a server that answers one request at a time; two are two overlapping *)
(* requests.                                                               *)
(*                                                                         *)
(* Contracts, Cases   rows of one student's contracts and cases            *)
(* Installments       installment numbers of a contract's payment schedule *)
(* Values, Amounts    contract values and sums of money a caller may send, *)
(*                    in the cents that a DECIMAL(14,2) column keeps       *)
(* Operations         the endpoints that callers use in this instance      *)
(***************************************************************************)
EXTENDS Integers, Sequences, FiniteSets, Functions

CONSTANTS Workers, Contracts, Cases, Installments, Values, Amounts,
          Operations, ApprovalThreshold, MaxAmendments, None

ASSUME MoneyAssumption ==
  /\ Values \subseteq Nat
  /\ Amounts \subseteq Nat \ {0}
  /\ ApprovalThreshold \in Nat
  /\ MaxAmendments \in Nat

ASSUME NoneAssumption == None \notin Contracts \cup Cases \cup Installments

VARIABLES
  contracts,     \* Contract rows
  amendments,    \* ContractAmendment rows, in creation order
  payments,      \* Payment rows, keyed by contract and installment number
  cases,         \* Case rows
  workDone,      \* the case's tasks, visa, enrollment, pre-departure all pass
  handovers,     \* ClosureHandoverRecord.status is COMPLETED
  liquidations,  \* LiquidationConfirmation rows
  req            \* the request each worker is serving

tables == <<contracts, amendments, payments, cases, workDone, handovers, liquidations>>
vars == <<contracts, amendments, payments, cases, workDone, handovers, liquidations, req>>

-----------------------------------------------------------------------------
(* Rows.  ABSENT stands for a row that has not been created.               *)

ContractStatus == {"ABSENT", "DRAFT", "REVIEW", "APPROVED", "SENT", "SIGNED",
                   "ACTIVE", "COMPLETED", "LIQUIDATED", "ARCHIVED"}
PaymentStatus  == {"ABSENT", "PENDING", "PARTIALLY_PAID", "PAID", "OVERDUE",
                   "REFUNDED", "WAIVED"}
CaseStatus     == {"ABSENT", "OPEN", "ACTIVE", "ON_HOLD", "COMPLETED",
                   "CLOSED", "ARCHIVED"}
Roles          == {"EXECUTIVE_DIRECTOR", "DEPARTMENT_MANAGER"}
Parties        == {"company", "studentParent"}

ContractRow == [status : ContractStatus, signed : BOOLEAN, value : Nat,
                version : Nat, approvedBy : Roles \cup {"NOBODY"}]
AmendmentRow == [previousVersion : Nat, newVersion : Nat, before : Nat, after : Nat]
PaymentRow  == [status : PaymentStatus, amount : Nat, paid : Nat, refunded : Nat]
CaseRow     == [status : CaseStatus, contract : Contracts \cup {None}]
LiquidationRow == [confirmed : SUBSET Parties, status : {"PENDING", "LIQUIDATED"}]

NoContract == [status |-> "ABSENT", signed |-> FALSE, value |-> 0,
               version |-> 1, approvedBy |-> "NOBODY"]
NoPayment  == [status |-> "ABSENT", amount |-> 0, paid |-> 0, refunded |-> 0]
NoCase     == [status |-> "ABSENT", contract |-> None]
NoLiquidation == [confirmed |-> {}, status |-> "PENDING"]

\* Whether JavaScript finds sum >= bound.  Both are Number()s of columns, or of a
\* column and an amount from a caller, and the column that keeps the sum rounds
\* it to cents.  A sum that is stored as exactly the bound may have been a little
\* less (0.7 + 0.1 < 0.8; a caller may also send fractions of a cent) or not.
AtLeast(sum, bound) == IF sum = bound THEN BOOLEAN ELSE {sum > bound}

\* What callers and the services ask of the rows.
UnresolvedStatuses == {"PENDING", "PARTIALLY_PAID", "OVERDUE"}
ResolvedStatuses   == {"PAID", "REFUNDED", "WAIVED"}
HasUnresolved(c)   == \E n \in Installments : payments[c][n].status \in UnresolvedStatuses
NetPaid(c)         == SumFunction([n \in Installments |-> payments[c][n].paid - payments[c][n].refunded])
IsLinked(c)        == \E k \in Cases : cases[k].contract = c
ActiveCases        == {k \in Cases : cases[k].status \notin {"ABSENT", "CLOSED", "ARCHIVED"}}

-----------------------------------------------------------------------------
(* Requests.                                                               *)

Steps == {"idle",
  "update.write", "submit.write", "approve.write", "reject.write", "send.write",
  "sign.case", "sign.write", "sign.link", "status.link", "status.check", "status.swap",
  "status.tasks", "amend.write",
  "installment.create", "record.open", "record.write", "refund.write", "waive.write",
  "case.create", "caseStatus.write",
  "handover.write", "close.check", "close.begin", "close.commit",
  "confirm.existing", "confirm.write", "finalize.begin", "finalize.commit"}

\* The six closure items: DEBT, and the five that no payment decides.
Checklist == {"DEBT", "REST"}

Asked == ContractStatus \cup CaseStatus \cup Roles \cup Parties \cup {"NOTHING"}

Request == [step : Steps,
            contract : Contracts \cup {None},
            kase : Cases \cup {None},
            installment : Installments \cup {None},
            seenContract : ContractRow,     \* the contract row this handler read
            seenPayment : PaymentRow,       \* the payment row it read
            linked : Contracts \cup {None}, \* Case.contractId of the case row it read
            to : Asked,                     \* target status, role or party
            amount : Nat,                   \* dto.amount or dto.value
            checked : SUBSET Checklist,     \* closure items evaluated so far
            failing : BOOLEAN]              \* some item came back FAIL

Idle == [step |-> "idle", contract |-> None, kase |-> None, installment |-> None,
         seenContract |-> NoContract, seenPayment |-> NoPayment, linked |-> None,
         to |-> "NOTHING", amount |-> 0, checked |-> {}, failing |-> FALSE]

At(w, step)   == req[w].step = step
Put(w, r)     == req' = [req EXCEPT ![w] = r]
Begin(w, op, r) == op \in Operations /\ At(w, "idle") /\ Put(w, r)
Goto(w, step) == Put(w, [req[w] EXCEPT !.step = step])
\* The handler returns or throws; nothing of the request is kept.
Answer(w)     == Put(w, Idle)

ContractRequest(step, c) ==
  [Idle EXCEPT !.step = step, !.contract = c, !.seenContract = contracts[c]]
PaymentRequest(step, c, n) ==
  [Idle EXCEPT !.step = step, !.contract = c, !.installment = n,
               !.seenPayment = payments[c][n]]
CaseRequest(step, k) ==
  [Idle EXCEPT !.step = step, !.kase = k, !.linked = cases[k].contract]

\* A transaction that has updated a row holds the row's lock until it commits,
\* and shows the update only then; another writer of that row waits.  A signature
\* holds its contract, a closure its case, a finalization its liquidation row.
ContractUnlocked(c)    == \A v \in Workers : ~(At(v, "sign.link") /\ req[v].contract = c)
CaseUnlocked(k)        == \A v \in Workers : ~(At(v, "close.commit") /\ req[v].kase = k)
LiquidationUnlocked(k) == \A v \in Workers : ~(At(v, "finalize.commit") /\ req[v].kase = k)

\* The server process dies: every request under way is lost and the database
\* rolls back the transactions that had not committed.
Crash ==
  /\ "crash" \in Operations
  /\ \E w \in Workers : ~At(w, "idle")
  /\ req' = [w \in Workers |-> Idle]
  /\ UNCHANGED tables

\* Two transactions take a contract's row and its case's in opposite orders: a
\* signature waits for the case that u is closing, and a closure for the contract
\* that u is signing.  When such waits make a cycle, PostgreSQL aborts one of its
\* transactions: the statement that waits ends with an error.
WaitsFor(w, u) ==
  \/ At(w, "sign.link") /\ At(u, "close.commit") /\ req[u].kase = req[w].kase
  \/ /\ At(w, "close.commit") /\ req[w].seenContract.status = "ACTIVE"
     /\ At(u, "sign.link") /\ req[u].contract = req[w].linked

Deadlocked(w) ==
  \E S \in SUBSET Workers :
    /\ w \in S
    /\ \A u \in S : (\E v \in S : WaitsFor(u, v)) /\ (\E v \in S : WaitsFor(v, u))

-----------------------------------------------------------------------------
\* Every column holds a value that its enum or type in schema.prisma allows, and
\* every request is at a step of its handler.
TypeOK ==
  /\ contracts \in [Contracts -> ContractRow]
  /\ amendments \in [Contracts -> Seq(AmendmentRow)]
  /\ payments \in [Contracts -> [Installments -> PaymentRow]]
  /\ cases \in [Cases -> CaseRow]
  /\ workDone \in [Cases -> BOOLEAN]
  /\ handovers \in [Cases -> BOOLEAN]
  /\ liquidations \in [Cases -> LiquidationRow]
  /\ req \in [Workers -> Request]
=============================================================================
