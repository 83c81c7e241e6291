---------------------------- MODULE Commissions ----------------------------
(***************************************************************************)
(* What one partner earns on one payment: CommissionTransactionsService    *)
(* with the rules and the links to students that it reads.  The amount of  *)
(* a transaction counts as the pair of what it is computed from, the       *)
(* rule's rate and the amount paid.                                        *)
(*                                                                         *)
(* Referred   students the transaction may name: the one whose payment it  *)
(*            is, or another that the request puts in their place          *)
(***************************************************************************)
EXTENDS Handlers

CONSTANTS Transactions, Rules, Rates, Paid, Links, Referred, NoAmount, NoRule, NoReferral

ASSUME AmountAssumption == NoAmount \notin Rates \X Paid

VARIABLES
  transactions,   \* status, rule, amount and student
  rates,          \* the rules' rates, which may be corrected
  paid,           \* Payment.paidAmount, which other modules change
  links           \* partner_student_links: the student, and "ABSENT", "ACTIVE" or "ARCHIVED"

commissionRows == <<transactions, rates, paid, links>>
commissionVars == <<handlerVars, commissionRows>>

COMMISSION_STEPS ==
  [ABSENT |-> {}, PENDING |-> {"ELIGIBLE", "CANCELLED"}, ELIGIBLE |-> {"CALCULATED", "CANCELLED"},
   CALCULATED |-> {"APPROVED", "CANCELLED"}, APPROVED |-> {"PAYABLE", "CANCELLED"},
   PAYABLE |-> {"PAID", "CANCELLED"}, PAID |-> {}, CANCELLED |-> {}]

Approved      == {"APPROVED", "PAYABLE", "PAID"}
NoTransaction == [status |-> "ABSENT", rule |-> NoRule, amount |-> NoAmount, student |-> NoReferral]
NoLink        == [status |-> "ABSENT", student |-> NoReferral]
Linked(s)     == \E k \in Links : links[k] = [status |-> "ACTIVE", student |-> s]
Live(rule)    == {t \in Transactions : transactions[t].rule = rule
                                       /\ transactions[t].status \notin {"ABSENT", "CANCELLED"}}

CommissionInit ==
  /\ HandlersInit
  /\ transactions = [t \in Transactions |-> NoTransaction]
  /\ rates \in [Rules -> Rates]
  /\ paid \in Paid
  /\ links = [k \in Links |-> NoLink]

Looks(r, step, args, rows) == Continue(r, step, args, rows) /\ UNCHANGED commissionRows

SetTransaction(r, t, row, rows) ==
  /\ transactions' = [transactions EXCEPT ![t] = row]
  /\ Write(r, {t} \cup rows, Idle)
  /\ UNCHANGED <<rates, paid, links>>

-----------------------------------------------------------------------------
\* create(): a link to the student the request names, or to the payment's when it names
\* none; a rule (named, or the first that applies); no live transaction of this payment
\* and rule; and the insert.
CreateLinked(r, rule, s) ==
  IsIdle(r) /\ Linked(s) /\ Looks(r, "commission.check", <<rule, s>>, {<<"links", s>>})

\* Faulty: only what is paid already counts as a duplicate.
CreateCheckPaid(r) ==
  LET rule == Args(r)[1]
  IN  /\ At(r, "commission.check") /\ \A t \in Live(rule) : transactions[t].status # "PAID"
      /\ Looks(r, "commission.create", Args(r), {<<"live", rule>>})

CreateCheck(r) ==
  LET rule == Args(r)[1]
  IN  At(r, "commission.check") /\ Live(rule) = {} /\ Looks(r, "commission.create", Args(r), {<<"live", rule>>})

CommissionCreate(r, t) ==
  LET rule == Args(r)[1]
  IN  /\ At(r, "commission.create") /\ transactions[t].status = "ABSENT"
      /\ SetTransaction(r, t, [status |-> "PENDING", rule |-> rule, amount |-> NoAmount, student |-> Args(r)[2]],
                        {<<"live", rule>>})

\* updateLinkage(): another student while the row is PENDING; no link is asked for.
LinkageRead(r, t, s) ==
  IsIdle(r) /\ transactions[t].status = "PENDING" /\ Looks(r, "linkage.write", <<t, s>>, {t})

LinkageWrite(r) ==
  LET t == Args(r)[1]
  IN  At(r, "linkage.write") /\ SetTransaction(r, t, [transactions[t] EXCEPT !.student = Args(r)[2]], {})

\* requireStatus() of confirmEligibility(), approve(), markPayable(), pay() and
\* cancel(), and the update by id that follows.
CommissionRead(r, t, status) ==
  /\ IsIdle(r) /\ status \in COMMISSION_STEPS[transactions[t].status] \ {"CALCULATED"}
  /\ Looks(r, "commission.write", <<t, status>>, {t})

CommissionWrite(r) ==
  LET t == Args(r)[1]
  IN  At(r, "commission.write") /\ SetTransaction(r, t, [transactions[t] EXCEPT !.status = Args(r)[2]], {})

\* calculate(): the row, the rule as it is now, the amount paid by now.
CalculateRead(r, t) ==
  /\ IsIdle(r) /\ "CALCULATED" \in COMMISSION_STEPS[transactions[t].status]
  /\ Looks(r, "calculate.rule", <<t>>, {t})

CalculateRule(r) ==
  LET rule == transactions[Args(r)[1]].rule
  IN  At(r, "calculate.rule") /\ Looks(r, "calculate.source", <<Args(r)[1], rates[rule]>>, {rule})

CalculateSource(r) ==
  At(r, "calculate.source") /\ Looks(r, "calculate.write", <<Args(r)[1], <<Args(r)[2], paid>>>>, {<<"payment">>})

CalculateWrite(r) ==
  LET t == Args(r)[1]
  IN  /\ At(r, "calculate.write")
      /\ SetTransaction(r, t, [transactions[t] EXCEPT !.status = "CALCULATED", !.amount = Args(r)[2]], {})

-----------------------------------------------------------------------------
\* CommissionRulesService.update().
RuleUpdate(r, rule, rate) ==
  /\ IsIdle(r) /\ rates[rule] # rate
  /\ rates' = [rates EXCEPT ![rule] = rate]
  /\ Put(r, {rule}, Idle)
  /\ UNCHANGED <<transactions, paid, links>>

\* PaymentsService records or refunds (module PaymentsService).
PaidChanges(r, amount) ==
  /\ IsIdle(r) /\ paid # amount
  /\ paid' = amount
  /\ Put(r, {<<"payment">>}, Idle)
  /\ UNCHANGED <<transactions, rates, links>>

\* PartnerStudentLinksService.create(): one active link of the same kind, if checks
\* do not overlap.
LinkCreateRead(r, s) == IsIdle(r) /\ ~Linked(s) /\ Looks(r, "link.create", <<s>>, {<<"links", s>>})

LinkCreate(r, k) ==
  LET s == Args(r)[1]
  IN  /\ At(r, "link.create") /\ links[k].status = "ABSENT"
      /\ links' = [links EXCEPT ![k] = [status |-> "ACTIVE", student |-> s]]
      /\ Write(r, {<<"links", s>>}, Idle)
      /\ UNCHANGED <<transactions, rates, paid>>

LinkArchive(r, k) ==
  /\ IsIdle(r) /\ links[k].status = "ACTIVE"
  /\ links' = [links EXCEPT ![k].status = "ARCHIVED"]
  /\ Put(r, {<<"links", links[k].student>>}, Idle)
  /\ UNCHANGED <<transactions, rates, paid>>

CommissionNext ==
  \E r \in Slots :
    \/ \E rule \in Rules, s \in Referred : CreateLinked(r, rule, s)
    \/ \E rule \in Rules, rate \in Rates : RuleUpdate(r, rule, rate)
    \/ \E t \in Transactions, s \in Referred : LinkageRead(r, t, s)
    \/ \E t \in Transactions :
         \/ CommissionCreate(r, t) \/ CalculateRead(r, t)
         \/ \E status \in DOMAIN COMMISSION_STEPS : CommissionRead(r, t, status)
    \/ CreateCheck(r) \/ LinkageWrite(r) \/ CommissionWrite(r)
    \/ CalculateRule(r) \/ CalculateSource(r) \/ CalculateWrite(r)
    \/ \E amount \in Paid : PaidChanges(r, amount)
    \/ \E s \in Referred : LinkCreateRead(r, s)
    \/ \E k \in Links : LinkCreate(r, k) \/ LinkArchive(r, k)
    \/ Dies(r) /\ UNCHANGED commissionRows

CommissionSpec == CommissionInit /\ [][CommissionNext]_commissionVars

-----------------------------------------------------------------------------
\* Nothing is approved, payable or paid that was never calculated, whatever overlaps.
PaidWasCalculated == \A t \in Transactions : transactions[t].status \in Approved => transactions[t].amount # NoAmount

\* Unless a row changed under a handler: the payment earns once by a rule; what is
\* calculated follows the rule and the payment of that moment; from the approval on the
\* amount stands, through corrections of both; and a transaction names a student the
\* partner was linked to when it was created, and another only by a correction while
\* PENDING.  That this is the student who paid, nothing in the code sees to.
CommissionStands ==
  [][/\ PaidWasCalculated'
     /\ undisturbed' =>
       /\ \A rule \in Rules : \A t, u \in Live(rule)' : t = u
       /\ \A t \in Transactions :
            /\ transactions[t].status = "ABSENT" /\ transactions'[t].status # "ABSENT" =>
                 Linked(transactions'[t].student)
            /\ transactions[t].status # "CALCULATED" /\ transactions'[t].status = "CALCULATED" =>
                 transactions'[t].amount = <<rates[transactions[t].rule], paid>>
            /\ transactions[t].status \in Approved => transactions'[t].amount = transactions[t].amount
            /\ transactions[t].status \notin {"ABSENT", "PENDING"} =>
                 transactions'[t].student = transactions[t].student
            /\ transactions[t].status \in {"PAID", "CANCELLED"} =>
                 transactions'[t].status = transactions[t].status]_commissionVars
=============================================================================
