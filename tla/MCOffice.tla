------------------------------ MODULE MCOffice ------------------------------
(***************************************************************************)
(* The desks of the office, side by side: each of the components below has *)
(* its own rows, and what their handlers share is only the way they        *)
(* overlap.  A behaviour stays at one desk (scene), so that the instances  *)
(* add up instead of multiplying; a scene may keep rows or handlers out of *)
(* play, to look at the others on a larger instance.                       *)
(***************************************************************************)
EXTENDS TaskBoard, CaseFile, Admission, VisaFile, Counselling, Writing, Commissions, Idempotency, IdGenerator

\* Only a change of a case's stage has templates here.
MCTemplates ==
  [e \in {"CASE_CREATED", "CASE_STAGE_CHANGED", "APPLICATION_SUBMITTED", "SCHOLARSHIP_AWARDED", "VISA_GRANTED",
          "ROADMAP_APPROVED"} |-> IF e = "CASE_STAGE_CHANGED" THEN {"visit", "report"} ELSE {}]

\* All leads are one person.
MCPerson == [l \in Leads |-> "somebody"]

VARIABLE scene

Scenes == {"tasks", "dependencies", "conversion", "pipeline", "opening", "generation", "owners",
           "applications", "offers", "enrollments", "scholarships", "visa", "visas",
           "counselling", "writing", "commissions", "retries", "codes"}

\* Handlers and rows that stay out of a scene.
Without(steps) == \A r \in Slots : serving'[r].step \notin steps
Goes(step, next) == \E r \in Slots : At(r, step) /\ serving'[r].step = next
Only(S, T, field) == \A s \in T \ S : field[s] = "ABSENT"
One(S) == {CHOOSE s \in S : TRUE}
Status(rows) == [i \in DOMAIN rows |-> rows[i].status]

OfficeInit ==
  /\ scene \in Scenes
  /\ TaskInit /\ FileInit /\ AdmissionInit /\ VisaInit /\ CounsellingInit /\ WritingInit
  /\ CommissionInit /\ IdempotencyInit /\ Init
  /\ {paid} = One(Paid) /\ \A p \in Rules : {rates[p]} = One(Rates)

\* The rows that the other desks leave alone.
Apart(desk) ==
  /\ scene' = scene
  /\ IF desk = "tasks" THEN TRUE ELSE UNCHANGED taskRows
  /\ IF desk = "files" THEN TRUE ELSE UNCHANGED fileRows
  /\ IF desk = "admission" THEN TRUE ELSE UNCHANGED admissionRows
  /\ IF desk = "visas" THEN TRUE ELSE UNCHANGED visaRows
  /\ IF desk = "counselling" THEN TRUE ELSE UNCHANGED counsellingRows
  /\ IF desk = "writing" THEN TRUE ELSE UNCHANGED writingRows
  /\ IF desk = "commissions" THEN TRUE ELSE UNCHANGED commissionRows
  /\ IF desk = "retries" THEN TRUE ELSE UNCHANGED idempotencyRows
  /\ IF desk = "codes" THEN TRUE ELSE UNCHANGED idVars

TaskDesk ==
  /\ scene \in {"tasks", "dependencies"} /\ TaskNext /\ Apart("tasks") /\ UNCHANGED generationRows
  /\ scene = "tasks" => \A t \in One(Tasks) : tasks'[t].status = "ABSENT"
  /\ scene = "dependencies" =>
       Without({"task.write", "task.prerequisites"}) /\ \A t \in Tasks : ~tasks'[t].output

FileDesk ==
  /\ scene \in {"conversion", "pipeline", "opening", "generation", "owners"} /\ FileNext /\ Apart("files")
  /\ scene = "conversion" =>
       /\ Without({"lead.status", "case.check"})
       /\ UNCHANGED students \/ Goes("convert.student", "convert.case")
  /\ scene = "pipeline" =>
       Only(One(Leads), Leads, Status(leads')) /\ \A k \in Cases : cases'[k].status # "CLOSED"
  /\ scene \in {"opening", "generation", "owners"} =>
       Only({}, Leads, Status(leads')) /\ Only(One(Students), Students, Status(students'))
  /\ scene \in {"pipeline", "generation", "owners"} => Only(One(Cases), Cases, Status(cases'))
  /\ scene # "owners" =>
       /\ Without({"owner.commit"}) /\ \A k \in Cases : cases'[k].owner \in One(Users) \cup {NoOne}
       /\ UNCHANGED owners \/ Goes("case.member", "generation")
  /\ scene # "generation" => Without({"generation"})

AdmissionDesk ==
  /\ scene \in {"applications", "offers", "enrollments", "scholarships"} /\ AdmissionNext /\ Apart("admission")
  /\ Only(IF scene = "scholarships" THEN {} ELSE One(Applications), Applications, Status(applications'))
  /\ Only(IF scene = "offers" THEN Offers ELSE One(Offers), Offers, Status(offers'))
  /\ Only(IF scene = "enrollments" THEN Enrollments ELSE {}, Enrollments, Status(enrollments'))
  /\ Only(IF scene = "scholarships" THEN Scholarships ELSE {}, Scholarships, Status(scholarships'))
  /\ scene \in {"offers", "enrollments"} =>
       /\ unready' = {} /\ Without({"application.update"})
       /\ \A a \in Applications : applications'[a].status \notin {"WITHDRAWN", "REJECT", "WAITLIST"}

VisaDesk ==
  /\ scene \in {"visa", "visas"} /\ VisaNext /\ Apart("visas")
  /\ scene = "visa" => Only(One(Visas), Visas, Status(visas'))
  /\ scene = "visas" => UNCHANGED checklist /\ \A v \in Visas : visas'[v].status # "INTERVIEW"

CounsellingDesk ==
  /\ scene = "counselling" /\ CounsellingNext /\ Apart("counselling")
  /\ Len(roadmaps') < 2 /\ criteria' \subseteq {1}
  /\ \A v \in DOMAIN roadmaps' : roadmaps'[v].status \notin {"COMPLETED", "ARCHIVED"}

WritingDesk     == scene = "writing" /\ WritingNext /\ Apart("writing") /\ UNCHANGED generationRows

CommissionDesk ==
  /\ scene = "commissions" /\ CommissionNext /\ Apart("commissions") /\ UNCHANGED generationRows
  /\ \A t \in Transactions \ One(Transactions) : transactions'[t].status \in {"ABSENT", "PENDING", "CANCELLED"}
  /\ \A k \in Links : links'[k].student \in One(Referred) \cup {NoReferral}

RetryDesk       == scene = "retries" /\ IdempotencyNext /\ Apart("retries") /\ UNCHANGED generationRows
CodeDesk        == scene = "codes" /\ Next /\ Apart("codes") /\ UNCHANGED <<handlerVars, generationRows>>

OfficeNext ==
  \/ TaskDesk \/ FileDesk \/ AdmissionDesk \/ VisaDesk \/ CounsellingDesk
  \/ WritingDesk \/ CommissionDesk \/ RetryDesk \/ CodeDesk

officeVars == <<scene, handlerVars, generationRows, taskRows, fileRows, admissionRows, visaRows, counsellingRows,
                writingRows, commissionRows, idempotencyRows, idVars>>

OfficeSpec == OfficeInit /\ [][OfficeNext]_officeVars
=============================================================================
