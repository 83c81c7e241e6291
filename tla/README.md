# A TLA+ model of the scholarship CRM back end

The back end (`src/apps/api`) is a NestJS service over PostgreSQL (Prisma, READ
COMMITTED). It keeps a student's way from lead to liquidation: leads, students and
cases, contracts and payments, counselling, applications and offers, visa and
enrolment, closure, with partners, documents, notifications, background jobs and a
portal around it. Request handlers are `async` functions. Between two of their `await`s
other requests run, in the same process or in another instance, and most
handlers read a row, decide, and write it by id later. That is where this code is hard
to test, and what these modules are about.

Files: specifications `*.tla`, proofs `*_proofs.tla`, one `.cfg` per run, and
`PROJECT.json`, which maps every definition to the lines it models.

## 1. Inventory

Paths are under `src/apps/api/src/`.

| Component | State | Operations | Interacts with | What is hard | What makes it correct |
|---|---|---|---|---|---|
| Contracts `modules/commercial/contracts` | `Contract`, `ContractAmendment`, approvals, review links | create, update, submit, approve, reject, send, sign, updateStatus, createAmendment | reads payments, links the case when it signs, generates tasks when it activates | reads and later writes by id; only `updateStatus` compares again | only authorised terms are signed; signed terms change by amendment; statuses move forward; an active contract is funded |
| Payments `modules/commercial/payments` | `Payment` | createInstallment, recordPayment, refund, waive, overdue sweep | reads the contract; asked by closure for debt | sums computed from stale rows, in floating point; the sweep runs inside reads | a status never claims more than the balance; nothing is overpaid unasked |
| Cases `modules/case-management/cases` | `Case`, `CaseMember` | createForStudent, updateStage, updateStatus, members, reassignOwner | tasks, contracts, closure, leads | check-then-create without a constraint; owner in two tables | one active case per student; one owner after a transfer |
| Closure `modules/case-management/closure` | `ClosureHandoverRecord`, `LiquidationConfirmation`; writes `Case` and `Contract` | confirmHandover, close, confirmLiquidation (company, student/parent), finalize | payments, tasks, visa status, portal | checklist outside the transaction; two parties confirm at once; rows locked in the opposite order of a signature; crash between two steps | handover before closing; one closure path for linked contracts; both parties confirmed before it is final |
| Business ids `common/id` | `business_id_sequences` | nextYearlyCode, nextCountryScopedCode, nextPartnerProgramSuffix | every creating service | first insertion, lock and increment interleave; the caller fails after the commit | unique, never given out again |
| Jobs `common/jobs`, `common/scheduler` | `background_jobs` | enqueue, poll tick, runOne, scheduler tick | notifications, documents, reminders, sync | ticks overlap; processes die; stale attempt counts | claimed jobs are run; every job is settled; a settled job stays so |
| Notifications `modules/notifications` | `Notification` | notify, notifyBothChannels, markEmailSent, markRead | jobs, e-mail provider | retries at three levels; crash between row and job | an e-mail goes out at most once; rows tell what happened |
| Tasks `modules/case-management/tasks` | `Task`, `TaskDependency`, `TaskTemplate` | status machine, output, dependencies, generation per event, reminders | cases, contracts, admission, visas, roadmaps, portal | a cycle check of several queries; prerequisites read before the write; overlapping generations | no dependency cycle; done rests on done; every template of an event has its task |
| Leads, students `modules/crm/leads`, `modules/case-management/students` | `Lead`, `Student` | status machine, convert, create, archive, duplicate detection | cases, tasks | student, then case and lead, in two transactions; candidates read before | converted only with student and case; no second file unasked |
| Admission `modules/admission` | `Application`, its checklist, `Offer`, `ScholarshipApplication`, `UniversityChoice`, master data | status machines, submit, offers, answers, expiry sweep | enrolments, tasks | checks across rows; an offer and its application in two writes | decisions are backed by what they decide on |
| Visa, enrolment `modules/visa` | `Visa`, `VisaChecklistItem`, `Enrollment` | create with items, submission, appointment, interview, result; confirm, withdraw | offers, tasks, closure | items inserted behind the visa, added and changed at any time; one active row by check-then-create | one visa under way, submitted while nothing required is open; one confirmed enrolment on an accepted offer |
| Counselling `modules/counseling` | `Assessment`, criteria, `Roadmap`, `Milestone`, `WritingArtifact`, `WritingVersion`, evidence | versions, review, approval, milestones and their dependencies | students, tasks, documents | versions by read and increment, approval against a baseline, cycle checks of several queries | what is approved or final stays as it was; milestones rest on their work |
| Documents `modules/documents` | `Document`, `DocumentAccess`, `IncomingWebhookEvent` | upload, versions, grants, scan, two-step download, webhook receipt | jobs, storage, cases, partners, portal | version, copied grants and scan job stored one after the other; a link outlives its grant | nothing unscanned or no longer granted is delivered; a version keeps its readers; an event is new once |
| Partners `modules/partners` | `Partner`, programs, `PartnerDocument`, links, rules, `CommissionTransaction` | commission state machine, papers with activation and expiry | payments, contracts, documents | duplicate check without a constraint; a student named by the request; blind transitions; two activations at once | one live transaction per source and rule, for a student who is linked; approved amounts stand; one paper in force |
| Portal `modules/portal` | `StudentContact`, `ParentInvitation` | invite, accept, revoke; task output, liquidation | documents, tasks, closure | revocation against requests under way; two contacts of one account | a link ends by revocation, and then with everything it gave |
| Idempotency `common/idempotency` | `IdempotencyKey` | replay of stored responses | payment routes | two requests with one key overlap | all callers of a key get one answer |
| Identity `modules/identity` | `User`, `Session` | login, sessions, scope rules | every route | rotation | every request is one of an admitted caller |
| Reporting, audit, web client | none the services rely on | reads, append-only logs | all | nothing ordered | |

## 2. Modules and the code

```
CrmStore ─┬─ ContractsService ──────────────┐
          ├─ CasesService ──────────────────┼─ CommercialSystem ─┬─ MCCommercial
          └─ PaymentsService ─ ClosureService ┘     │ refines     ├─ MCLiveness
                                              LiquidationAgreement │
IdGenerator ──────────────┐                          JobQueue ─────┴─ Notifications ─ MCRecords
Handlers ─┬─ TaskGeneration ─┬─ CaseFile ──────┐
          │                  ├─ Admission ─────┤─ MCIntake
          │                  ├─ VisaFile ──────┼─ MCOffice
          │                  └─ Counselling ───┤
          ├─ Writing, Commissions, Idempotency ┤
          ├─ TaskBoard ────────────────────────┘
          │     └─ Milestones ───────────┐
          ├─ Documents ─ PortalAccess ───┼─ MCRecords
          └─ Webhooks, PartnerDocuments ─┘
```

The definitions marked "Faulty" are mutations: each shows that a property notices
a plausible mistake in the definition after it. No specification uses them.

### The commercial system

**CrmStore** holds the tables and the requests. `req[w]` is the request that worker `w`
serves: the step its handler has reached, its targets, and the rows it has read. One
worker is a server that answers one request at a time, two are two overlapping
requests. An action is one database call of a handler (or one interactive transaction
whose intermediate states no other request can see), together with everything
synchronous around it. A handler that throws answers, and so returns its worker to
`idle`. `Crash` ends every request; PostgreSQL rolls back the open transactions.

**ContractsService**, **PaymentsService**, **CasesService**, **ClosureService** have one
action per step of each state-changing handler. `...Read` is the first query and the
checks on what it returned, `...Write` the later update from that stale row. What an
update leaves alone is taken from the row as it is when the update runs (`Current`,
`EXCEPT`). `StatusSwap` is the one compare-and-swap of the services. `SignLock`, `CloseBegin`
and `FinalizeBegin` take a row lock, which `ContractUnlocked`, `CaseUnlocked` and
`LiquidationUnlocked` make other writers wait for; `SignWrite`, `CloseCommit` and
`FinalizeCommit` write the second row and end the transactions. A signature locks its contract and
then its case, a closure its case and then its contract, so the two can wait for each other
(`WaitsFor`) when a second request signs a contract that was signed and activated since it read it;
PostgreSQL then aborts one of them (`Deadlocked`), and no handler tries again. Any subset of the installments may be past its date when a sweep runs.

**CommercialSystem** composes the four and states their properties. **LiquidationAgreement**
is the abstract promise of DEC-08, which `AgreementSpec` refines. **IdGenerator** follows
`nextSequenceValue` statement by statement, with the row lock, up to the creation of the record
in the caller. **JobQueue** follows a poll tick: candidates, conditional claim, fetch, run one
by one, outcome. **Notifications** puts the callers and the e-mail processor over it.

### The office and the records

**Handlers** is what the other services have in common. `serving[r]` is the request in slot
`r`: the statement that comes next (`step`), the values it holds (`args`), the rows they were
read from (`on`), and whether somebody has written one of these rows since (`stale`). An
action takes a slot from one database statement (or `$transaction`) to the next with
`Continue` (after a read), `Write` (a write that rests on what was read), `Put` (one that
rests on nothing read before) or `Return`. `Dies` ends a request at any statement: the
process stops, or the handler throws.

Most of these handlers compare nothing when they write, so that overlapping requests can break
almost every rule of the services. The properties say how far the rules reach.
`undisturbed` is true as long as no handler has written a decision on rows that had changed since it
read them. A property under `undisturbed` therefore holds as long as each handler's reads still
describe the database when it writes, however requests interleave and wherever they stop; what breaks it is
a lost check, not an overlap that happened to do no harm. The parts outside of
`undisturbed` hold whatever overlaps. A row here is a table row, or, for a query, what
its result depends on (`PersonQuery`, `CaseQuery`, `Queried`, `<<"active", i>>`).

| Module | Code | What to know |
|---|---|---|
| **TaskBoard** | `TasksService`, `PortalService` task routes | `Walk` is one round of `wouldCreateCycle`: one query for the whole frontier. The output of a task is a flag. `Unlink` makes no walk stale: a removal cannot make a cycle. |
| **TaskGeneration** | `TaskGenerationService.generateForEvent` | look-up, insert, swallowed P2002, template by template; other handlers continue into it with `GenerationOf`. |
| **CaseFile** | `LeadsService`, `StudentsService`, `CasesService` (opening, members, owner), `DuplicateDetectionService` | matching counts as "the same person"; `convert()` creates the student ahead of the transaction with case and lead, and its member and tasks behind it. |
| **Admission** | `ApplicationsService` with checklist, `OffersService`, `ScholarshipApplicationsService`, `EnrollmentsService` | a checklist counts as open or not; `respond()` sweeps, reads and writes; `OfferCreate` and the move to OFFER are separate. |
| **VisaFile** | `VisasService`, `VisaChecklistService` | the items are inserted behind the visa one by one, so `complete` records whether that came to its end. An item counts as not required, required and open, or required and done or waived; `ItemCreate` adds one and `ItemUpdate` moves it between these, whatever the status of the visa. |
| **Counselling** | `AssessmentsService`, `RoadmapsService` | `(case, version)` is unique: version v is element v of a sequence, an insert of a taken number fails. |
| **Writing** | `WritingArtifactsService` | the same for the versions of a text. |
| **Commissions** | `CommissionTransactionsService`, rules, links to students | an amount is the pair it is computed from, so that "follows the rule and the payment" can be stated. The student is the one the request names, or the payer (line 88); `updateLinkage()` puts another in his place while the row is PENDING, without asking for a link. |
| **Idempotency** | `IdempotencyInterceptor` | look-up, handler, stored answer; a handler that succeeded gives a new answer each time. |
| **Milestones** | `MilestonesService` over `TaskBoard` | `AwaitWalk` is one round of `wouldCreateCycle`, which walks the whole graph level by level. `MILESTONE_TRANSITIONS` has the same shape as that of tasks. |
| **Documents** | `DocumentsService`, scan processor, two-step download | grants are upserts, one statement each, in some fixed order; `createVersion()` copies expired grants as grants that do not expire; only the creating request enqueues the scan. |
| **PortalAccess** | `PortalAccessService`, `grantCaseAccess` | two contacts may share one account; an expired invitation is one that is never accepted. Every contact that is linked to a user gets the grants, whatever its portal status, as in the code. |
| **Webhooks** | `WebhooksService` and its receiver | deliveries with a valid and with an invalid signature under one event id. |
| **PartnerDocuments** | `PartnerDocumentsService` | `activate()` is one `$transaction`: its `updateMany` sees the rows of its statement, its effects appear at the commit. |

**MCOffice** and **MCRecords** put these components side by side. Their rows have
nothing to do with each other, so a behaviour stays at one *desk* (`scene`), and the instances add
instead of multiplying. **MCLiveness** does the same with the commercial system and the job runner. A scene restricts its component with conjuncts on the next state: rows that do not come to exist, handlers
that are not taken. It never changes what an action does.

### Abstractions

- Money is natural numbers, the cents that a DECIMAL(14,2) column stores. The handlers add and compare `Number()`s of
  such columns, so that a sum which is stored as exactly the bound may have compared below it: 0.70 + 0.10 is less than
  0.80, 0.03 + 0.30 less than 30% of 1.10. `AtLeast(sum, bound)` is what such a comparison may come out as: either when
  the two are equal to the cent, and the exact answer else (doubles of these magnitudes are off by far less than a cent).
  So an installment that is covered may stay PARTIALLY_PAID, a full refund may leave the row PAID (0.01 and then 0.06 given back of 0.07),
  and an activation on exactly 30% may be refused; the guards of `RecordRead` and `RefundRead` may refuse the exact rest (0.02 of 0.03
  when 0.01 was refunded), which the model has as a request that is not sent.
  Currency, dates, texts, payment references and the `no material change` check of an
  amendment are left out (an amendment may leave the value as it is because another term changed).
- Rows that are only written (approvals of contracts, review links, comments, notifications of approvers,
  audit) are left out of the commercial model; `Notifications` models notifying itself.
- Updates of columns that only describe a row (title, owner, deadline, priority, notes) are left out,
  where no other handler decides on them; so is `reviewVersion()`, which marks a version, and the case and application of a commission.
- `workDone[k]` stands for four checklist items of closure: open tasks, visa, enrolment,
  pre-departure. Opening a case or activating a contract may add tasks; `WorkChanges`
  lets other modules change it at any time, which includes everything `TaskBoard`, `VisaFile` and `Admission` do. The
  checklist's seven queries are two steps in any order: the debt item, and the others.
- The debt item's three queries are one step: the sweep changes no answer (an overdue row is as
  unresolved as a pending one) and `SyncOverdueStatus` lets sweeps happen at any other time.
- A missing `LiquidationConfirmation` is the row with no confirmations. `closureReason` is supplied.
- Drawing a business code does not touch the other tables and is its own model.
- All contracts and cases of the commercial system are of one student, the visas and assessments of one case, the
  applications of one programme, the papers of one partner and type, the commissions of one payment: the scope of the checks between them.
- In the commercial system a transaction that PostgreSQL aborts in a deadlock ends its request (`Deadlocked`);
  in the other modules it is a lost request, as in `Dies`.
- Jobs: times are a flag "due"; a tick may take any `BatchSize` of the due jobs when there are more,
  where the code takes the oldest; a job type without processor fails like a permanent failure.
- Deadlines are nondeterministic: whatever may be past its date may be so in any step (sweeps of
  payments, offers and papers, expiring grants).
- Files are written once and never overwritten, so a document stands for its bytes.
- Permissions are the caller's; only the director's threshold and the grants of documents are modelled, since they
  relate to state. User accounts are found or created outside of the model.

## 3. Runs

| Run | Instance | Distinct states | Question |
|---|---|---|---|
| `terms` | 1 worker, 1 contract, 1 case, 2 installments, values 10 and 20 around the threshold 15, amounts 3 and 6, 2 amendments, every contract and payment operation; crash | 3.6 M | terms, approver, amendments, ledger, activation |
| `two_contracts` | 1 worker, 2 contracts, 2 cases, one value, one installment, work that comes and goes; crash | 4.1 M | linking, one active case, closing |
| `overlap` | 2 workers on a signed contract, amounts 3 and 6, crash | 2.3 M | what overlap cannot break; refinement of the agreement |
| `liveness` | scene "requests": 2 workers from the draft of a contract to its liquidation, no payments, no crash; scene "jobs": 2 ticks, 2 jobs, 3 attempts, both failures, deaths; fair | 124 k | finalization, every request answered; only deaths abandon a claimed job, all others are settled |
| `office` | 2 slots, a request may die at any statement; 18 scenes, below | 3.2 M | tasks, files, admission, visas, counselling, texts, commissions, retries, business ids |
| `records` | 2 slots, a request may die at any statement; 9 scenes, below | 2.1 M | documents, portal links, milestones, webhook events, partner papers; e-mails sent at most once, and rows that tell the truth |
| `closed_sync` | 1 worker | violated | contract and case in step |
| `activation_refund` | 2 workers | violated | activation funded under overlap |
| `double_process` | 2 ticks | violated | a job in two ticks |
| `stuck_job` | 2 ticks, deaths, fair | violated | RUNNING rows after a death |
| `intake_edit` | 1 slot, 2 applications, 2 intakes | violated | one active application per intake |
| `two_in_force` | 2 slots, 2 papers | violated | one paper in force |

The scenes of `office` (3 tasks; 2 sources, which are cases, applications or visas; 2 leads, students and users;
1 intake, 2 offers, 2 enrollments, 1 scholarship; 2 required items and 1 that is added; versions up to 2, text versions up
to 3; 2 transactions by 1 rule with 2 rates and 2 amounts, 2 students of whom one may be linked; 2 keys with 2 bodies; 3 callers drawing from 2 sequences):

| Scene | Looks at | Left out there |
|---|---|---|
| tasks | status with output and prerequisites, 2 tasks | the third task |
| dependencies | the walk through 3 tasks | outputs, and the status DONE |
| conversion | two leads of one person | the lead pipeline, direct creation of cases, generation |
| pipeline | one lead's status against its conversion | the second lead and case, closing |
| opening | two cases of one student | leads |
| generation | one case and its tasks | leads, owners |
| owners | members and transfers of one case | leads, generation |
| applications | two applications with submission | a second offer, enrolments |
| offers | two offers of one application | edits, withdrawal of the application |
| enrollments | two enrolments on one offer | the same |
| scholarships | one scholarship | applications |
| visa, visas | one visa with its items; two visas | the items in the second |
| counselling | assessments, one roadmap, the profile | completing and archiving the roadmap |
| writing, commissions, retries, codes | one component each | the second commission beyond PENDING |

The scenes of `records` (2 documents, 3 users of whom one sees everything and one opens
partner documents, 2 contacts of one parent with up to 2 invitations, 3 milestones and 1 task, 1 event, 2 papers; 2 callers with 2 calls each, 1 tick,
2 e-mails, 2 attempts):

| Scene | Looks at | Left out there |
|---|---|---|
| versions | a document and its version, with grants and scan | contacts, downloads, the scan of the first |
| downloads | link, grant and revocation, one document | versions, archive |
| oversight | users who need no grant | contacts, shares |
| contacts | two links of one account, what they were given | scans, downloads, versions |
| milestones, circles | milestones on tasks and on each other; rings of three | BLOCKED; tasks |
| events, papers, emails | one component each | |

Why the bounds are enough. A race of this code is between two requests: each has one stale
row, so two workers show every pair of steps in every order. A value of 10
with amounts 3 and 6 meets the 30% exactly, exceeds an installment, pays it in
two parts, refunds it in part and in full. Values on either side of the threshold,
an update, a rejection and a new submission reach every way terms and approver could part.
In `liveness` the contract has the value 0, which `create-contract.dto.ts` allows: it is activated without a payment, and the
instance goes all the way from a draft to a closure.
Two contracts and two cases are needed for a signature to meet a case that is closed,
or linked to the other contract. Three tasks or milestones are the least in which a cycle is longer than a check that
looks one step ahead. Two leads of one person are what duplicates come from. Two versions have one
that supersedes, three text versions one in the middle; two amendments one that starts from the terms of another. Three callers let one hold the lock, one
wait and one fail. Two ticks with the same two candidates show a partial claim; three attempts give a
job a retry that is neither the first nor the last.
The bounds are `RoomForCase`, `MaxAmendments`, `MaxNumber`, `MaxCalls`, `MaxVersions`, `MaxTextVersions`,
`MaxExecutions`, `MaxInvitations`, `MaxAttempts` and `BatchSize`; the last two are parameters of the code.

`terms` and `two_contracts`, for requests that do not overlap, are honest about what the code keeps:
with overlapping requests a stale `update()` changes
signed terms, a stale `send()` takes a signed contract back to SENT, two amendments
get one version, two requests open two cases and two recordings lose a receipt. Several comments and
documents state these rules without a condition all the same: signed terms change by amendment only
(`contracts.service.ts:135-138`, `docs/database/DATA_DICTIONARY.md:68`), one active case per student
(`cases.service.ts:97-101`, line 135 of the dictionary), one owner after a transfer (`cases.service.ts:182-187`), one visa under way and
one confirmed enrolment per case (lines 247 and 260). The services enforce them with a check ahead of the write, which an
overlap defeats; the properties of these runs, and those under `undisturbed`, say what the checks do enforce, and the hazards in
`PROJECT.json` name what they leave open. `overlap` then checks what
still holds when everything after the signature interleaves.
Only `terms` checks for deadlock (payments can always be listed); every other instance runs out of work: all rows exist and have reached their last status. That requests do not wait for each
other for ever is `RequestsAreAnswered`.

Deliberate omissions in an instance: `overlap` has no send and sign (see above) and no
overpayment (it is the subject of `NoOverpayment`); the e-mails of `records` are of one application instance whose ticks do not
overlap, because with overlap one event is mailed twice, which `double_process` shows at its root.
It also assumes that a send the provider rejected did not go out.

## 4. Findings

- `closed_sync`: a case is closed while its contract is SIGNED; the contract stays SIGNED, can be
  activated, and then neither closure route can complete it
  (`closure.service.ts:139-144`, `contracts.service.ts:284-300`).
- `activation_refund`: the compare-and-swap of an activation is gated on the status only, so a refund
  between the check and the commit is not noticed, which the comment says cannot happen
  (`contracts.service.ts:307-310, 356-365`).
- `double_process`: the fetch after the claim returns the candidates that another tick claimed
  (`job-runner.service.ts:73-79`; `docs/database/DATA_DICTIONARY.md:406` says this can never happen).
- `stuck_job`: candidates are PENDING rows only, so a job that a dead tick left RUNNING is never taken up
  again (`job-runner.service.ts:65-68`); `docs/production/DISASTER_RECOVERY.md:79` says the retry logic
  resolves it, `docs/phase-status/PHASE_12.md:546` that it does not.
- `intake_edit`: `update()` moves an application to an intake that has an active one, without any overlap
  (`applications.service.ts:120`); `docs/database/DATA_DICTIONARY.md:221` and `applications.service.ts:87-90` promise
  one non-terminal application per student, programme and intake.
- `two_in_force`: two drafts activated at once are both ACTIVE, because neither transaction sees the other's row
  (`partner-documents.service.ts:112`; lines 103-105 say "atomically — at most one ACTIVE row").

Three more places where the code does less than a comment or test says, each of them in the model, none with a run of its own:

- A refund of everything that came in need not turn the row REFUNDED, and an installment that is covered to the cent need not be PAID, because the
  sums compared are floating-point (`payments.service.ts:198, 236-237`; `payments.e2e-spec.ts:406` tests the first with whole
  amounts). `SettledMeansCovered` and `LedgerAgrees` state the direction that holds.
- A commission may name a student who did not pay: the link is checked for the student the request names
  (`commission-transactions.service.ts:88`), and `updateLinkage()` (136-142) checks none, although the comment at 80-87 wants the partner to be related to the source.
- A new document version copies expired grants as grants that do not expire (`documents.service.ts:227-230`), so that a user whose access
  was revoked can open it; `portal-access.service.ts:122-129` says that revoked access is lost at once. `VersionsKeepAccess` asks for the valid grants only.

A remark: revoking one contact expires every grant of the account
(`portal-access.service.ts:138`), also those given for another child of the same parent, and `LinksStand` states it as the code does it.

## 5. Fairness

`FairRequests` assumes strong fairness of each request's next step (`Continue` of CommercialSystem): the event loop resumes a
handler whose query has settled, PostgreSQL grants a row lock that is
released again and again to a waiter that keeps asking, and it aborts a transaction of a deadlock. It does not assume that a caller sends
anything, and there is no crash: the code has no recovery to rely on.
`FairJobs` assumes that the poll timer keeps firing and queries and handlers return
(`PollerNext`), that time passes (`BackoffOver`), and that from some point on no tick dies; not that
anything is enqueued or fails. `liveness` checks both in `MCLiveness`: in either scene the other half rests in its initial state,
where all requests are idle or no job is due, so that none of its fair steps is enabled and nothing is asked of it.
The office and the records promise nothing that must happen: no handler there waits for another.

## 6. Proofs

Each theorem holds for every value of the constants that satisfies the named assumptions of the modules, so for any number of
records and of overlapping requests. `MoneyAssumption`, `JobAssumption`, `IdAssumption`, `CallAssumption` and `StartAssumption` give
numbers and flags their types; `NoneAssumption`, `AmountAssumption`, `NoAnswerAssumption` and `MilestonesAssumption` say that what stands
for null is no value; `FilesAssumption` and `TeamAssumption` say that who has a global or a viewing role, a contact's account
and the members of a team are users.

`CommercialRules_proofs` has what holds of contracts, cases and payments however requests overlap, `CommercialOrder_proofs` what
holds of them under a hypothesis on the order; `IdGenerator_proofs` and `JobQueue_proofs` (with `Notifications`) belong to those modules.
`Office_proofs` covers files, generation, visas, admission, commissions and the idempotency keys, `CaseWork_proofs` tasks,
milestones, texts, assessments and roadmaps, `Records_proofs` webhook events, partner papers, documents and the portal; these three
rest on `Handlers_proofs`.

| Theorem | Statement | Argument |
|---|---|---|
| `TypeCorrect` | `Spec => []TypeOK` | `TypeInv` adds to `TypeOK` that a request at a step has the targets this step uses (a contract to update, an installment to write). Without it a write could be to the row of `None`. |
| `HandoverComesFirst` | `Spec => []ClosureFollowsHandover` | `ClosureInv`: a request that has checked the non-payment items without a failure, or is past the checklist, belongs to a case whose handover is confirmed; one that confirms belongs to a closed or archived case with a handover. A handover is never taken back, so stale reads stay true. |
| `LiquidationIsAgreed` | `Spec => AgreementSpec` | Steps refine `Confirm`, `Finalize` or a stutter. A request finalizes only when the row it wrote had both confirmations, and confirmations are never removed, which is `ClosureInv` again. |
| `SettledRowsAreCovered` | `Spec => []SettledMeansCovered` | `MoneyInv` relates each remembered payment row to the amount of the present one: the amount of an installment never changes, so a status computed from a stale row agrees with the sum written with it; a comparison that comes out as covered is right to the cent (`NotBelow`). |
| `NothingIsOverpaid` | without `payment.overpay`, `Spec => []NoOverpayment` | the guard was checked on the stale row, but it is the stale sum that is written. |
| `TermsWithinAuthority`, `HistoryIsGapless`, `TermsNeedAmendment`, `ActivationIsFunded` | if `Sequential`, `Spec => []ApprovalAuthority` and the other three | `ContractInv`: what the handler in progress has read of its contract is still the row, and it was let through for it (`Authorised`, the status it demanded, the sum of the payments); for the amendments the version it is to write is one more than their number. |
| `LedgerTellsTheTruth`, `ClosingSettles` | if `Sequential`, `Spec => []LedgerAgrees`, `Spec => CloseSettlesContract` | `LedgerInv`: the remembered payment is the row; `SettledInv`: who has checked the non-payment items and the debt, and is to commit, still finds no unresolved payment. |
| `OneCaseAtATime` | if `Sequential`, `Spec => []OneActiveCase` | `CaseInv`: who is to create a case has found none that is active, and this is still so; who is to write the signature has a linked case. |
| `ClosureTakesBoth`, `SignedNeverGoesBack` | if `Sequential` or `AfterSignature`, `Spec => []ClosureIsUnified`, `Spec => SignedMovesForward` | `LinkInv`: linked contracts and cases agree (`LinkedRows`), who is inside a closing transaction holds the locks and what it read under them (`RowLocks`), who is to move a status has seen the contract signed (`MovesHeld`). |
| `EmailsGoOutOnce`, `RowsAreTrue`, `SettledStays` | if `OneTick`, `MailSpec => []EmailAtMostOnce`, `MailSpec => []RowsTellTheTruth`, `MailSpec => SettledForGood` | `MailInv`: the rows of an e-mail and its job fit each other at every stage (`RowTrue`), a candidate of the tick is a row it may claim (`TickHeld`), and the handler knows whether the e-mail is out (`WorkHeld`). |
| `BusinessCodesAreUnique`, `LostNumbersStayLost` | `IdSpec => []CodesAreUnique`, `IdSpec => NumbersAreNeverReclaimed` | `IdInv`: a caller between the lock and the commit holds the lock of its row and carries `last_value + 1`; everything handed out or stored is at most `last_value`. |
| `JobTypeCorrect` | `JobSpec => []JobTypeOK` | `JobInv` adds that a tick that works has a job. |
| `NoJobIsForgotten` | `JobSpec => OnlyDeathsAbandon` | a tick drops a candidate only in its fetch, when the row is not RUNNING, and a claim is followed by its own fetch; proved job by job from `JobInv`. |
| `TaskOutputs` | `TaskSpec => []DoneHasOutput` | an output is never taken back, so the one a handler remembers is still there when it writes. |
| `TasksWithoutCycle` | `TaskSpec => []NoTaskCycle` | `GraphInv`/`WalkSound`: a walk that is not stale has visited a set that is closed under dependencies but for its frontier, and does not contain the task; so the set it ends with is closed, and a cycle through the new edge would have to leave it. |
| `DoneRests`, `MilestonesRest` | `TaskSpec => DoneRestsOnDone`, `PlanSpec => MilestonesRestOnWork` | `ChangeHeld`, `ProgressHeld`: past each check the handler has read the list and every row on it, and they are finished while it is not stale; nothing gets onto the list without being written to it. The circles as above, with the same lemma `NewEdge`. |
| `FinalTextsStand` | `WritingSpec => FinalStands` | `TextHeld`: who is to add a version has read the text, and it is neither final nor submitted while he is not stale. |
| `ApprovalsRestOnBaselines` | `CounsellingSpec => BaselinesHold` | `CounselHeld`: the checks of the profile, of the criteria and of the baseline stay true while their rows are not written; `LastCounts` says that all assessments but the last are superseded while nobody wrote on stale rows. |
| `GenerationsAreComplete` | `FileSpec => []GenerationIsComplete` | `GenerationHeld`: the templates that are not left over have their task; tasks are never removed. |
| `ConversionsAreComplete` | `FileSpec => []ConvertedHasCase` | `FileHeld`: what a conversion holds at each statement (a stored student, a case of his) stays true, since rows only grow. |
| `AnswersAreOne` | `IdempotencySpec => []OneAnswerPerKey` | a caller is answered from the stored row, or stored it; the row of a key is written once. |
| `PersonsHaveOneFile`, `TransferNamesTheOwner` | `FileSpec => []OneFile`, `FileSpec => TransferLeavesOneOwner` | who is to store a student has found no other file of the person, who is to open a case has found none open, who is to name an owner knows the owners there are: each as long as nobody has written one of the rows this was read from. |
| `VisasKeepTheirResults`, `PaymentsEarnOnce` | `VisaSpec => VisaHolds`, `CommissionSpec => CommissionStands` | the unconditional halves (`ResultsWereSubmitted`, `PaidAmountsWereCalculated`) rest on facts that are never undone: the visa was submitted, the commission calculated. The others on what a handler that is not stale knows: no other visa under way, the items done, no live transaction of the rule, the link of the student it names, the rate and the payment it has multiplied. |
| `DecisionsRestOnEvidence` | `AdmissionSpec => []DecisionsAreBacked` | `AdmissionInv`: what a handler knows when it writes, that the application was submitted, that its offer is on record, that eligibility was confirmed, is never undone; rows only grow in these. |
| `EnrollmentsStand` | `AdmissionSpec => []EnrollmentHolds` | `EnrollmentInv` adds to `AdmissionInv` that who is to answer an offer or to write an enrollment holds the rows he read, and while he is not stale what he read of them is true; a write by a stale handler ends `undisturbed`. |
| `EventsAreNewOnce` | `WebhookSpec => []NewOnce` | `DeliveryHeld`: who inserts is alone, and who corrects an event has read it REJECTED; a second correction is stale. |
| `PapersAreKept` | `PapersSpec => PapersHold` | `PaperHeld`: what a handler about to write still knows of the papers while it is not stale; the version numbers are unique whatever overlaps. |
| `VersionsCarryGrants` | `PortalSpec => VersionsKeepAccess` | `Copies`: what a request has still to copy, with the grants that exist, covers all valid grants of the old version, while it is not stale; a grant that is added to the old version is written among the rows the request has read. |
| `DownloadsStayCurrent` | `PortalSpec => DownloadsAreCurrent` | `FileServed`: behind each of its two checks a download holds the scan result and the grant it has read. |
| `RevocationsAreThorough` | `PortalSpec => LinksStand` | `InvitedCanAccept` holds whatever overlaps: an acceptance uses up an invitation and ends the state INVITED in one transaction. An invitation that is not stale still finds its contact not active, so it ends no link. |

Most of these invariants have one form. A handler is a row of the table `serving`: the statement it is at, the values it
holds and the rows they were read from. For each statement the invariant (`...Held`) says what these values are, and what they
tell of the database: first the facts that no other request can undo, which hold of every handler, then the facts
that hold while the handler is not stale. That the second kind survives the steps of others is one argument for all components
(`Handlers_proofs`): `Follow(r, rows)` says of a step of `r` that who is not stale after it has read none of the rows it
writes, and each component has a definition (`PlanAnnounced`, `PortalAnnounced`, ...) of what its writes may change
beyond the rows they announce. So these proofs also check that the sets of rows in the actions are complete: a row left
out of one of them, of what a handler has read or of what it writes, makes a proof fail.

The hypotheses are those of the runs that check the properties. `Sequential` says that requests follow one another
(one worker, every operation): they are not claimed of overlapping requests, and `activation_refund` of section 4
shows how one of them fails there. `AfterSignature` says that no request edits, submits, approves, rejects, sends or signs a
contract, and then any number of requests may overlap. `OneTick` says that one tick of the job runner is under way at a time, as in one
instance of the application.

Only model-checked: the three properties of the run `liveness` (`ConfirmedIsFinalized`, `RequestsAreAnswered`, `JobsAreSettled`),
which are beyond this prover. Every safety and action property of a passing run has its theorem.

## 7. Not modelled

- Identity, sessions and scope rules: every modelled request is one of a caller who was admitted.
- Pre-departure items, university choices, profile evidence and letters of recommendation: rows that are created and
  edited one at a time, with no rule that relates two of them. That pre-departure items
  must be done is part of closure's `workDone`.
- Partners, their programmes and the reference data of admission: an archive flag, and nothing that depends on order.
  The duplicate check of partner programmes is the same check-then-create as those of `Admission`.
- Reporting, timeline, audit log: they only read or append.
- Storage, mail, the e-signature provider: external; they appear as the outcomes they may have.
- The web client (more than half of the repository's lines), the seed data and the transport of requests: they keep no
  state that the services rely on.

## 8. Further work

Weaker hypotheses than `Sequential` for the commercial theorems, as `AfterSignature` is one: which operations may overlap
without harm. Closing a case against the real tasks, visas and enrolments instead of `workDone`.
