------------------------------ MODULE CaseFile ------------------------------
(***************************************************************************)
(* How a person gets a file: LeadsService (pipeline and conversion),       *)
(* StudentsService, and CasesService as far as it opens cases and manages  *)
(* their owner.  Person[l] stands for the contact data of lead l: two      *)
(* records match when they name the same person.                           *)
(***************************************************************************)
EXTENDS TaskGeneration

CONSTANTS Leads, Students, Users, Person, NoOne

VARIABLES
  leads,      \* status, and the student the lead was converted to
  students,   \* "ABSENT", "LIVE" or "ARCHIVED", the person, and whether the caller
              \*   asked for a new record knowing of others (or without a check)
  cases,      \* "ABSENT", "OPEN" or "CLOSED", the student and Case.ownerId
  owners      \* case_members in role OWNER, not removed: <<case, user>>

fileRows == <<leads, students, cases, owners>>
fileVars == <<handlerVars, generationRows, fileRows>>

LeadStatus == {"NEW", "CONTACTED", "QUALIFIED", "CONSULTATION", "CONTRACTING", "CONVERTED", "LOST"}

LEAD_TRANSITIONS ==
  [s \in LeadStatus |->
     CASE s = "NEW"          -> {"CONTACTED", "LOST"}
       [] s = "CONTACTED"    -> {"QUALIFIED", "LOST"}
       [] s = "QUALIFIED"    -> {"CONSULTATION", "LOST"}
       [] s = "CONSULTATION" -> {"CONTRACTING", "LOST"}
       [] s = "CONTRACTING"  -> {"LOST"}
       [] OTHER              -> {}]

Cases     == Sources
NoLead    == [status |-> "ABSENT", student |-> NoOne]
NoStudent == [status |-> "ABSENT", person |-> NoOne, asked |-> FALSE]
NoCase    == [status |-> "ABSENT", student |-> NoOne, owner |-> NoOne]

\* findPotentialDuplicateStudents(): archived students are no candidates.
Candidates(person) == {s \in Students : students[s].status = "LIVE" /\ students[s].person = person}
OpenCases(s)       == {k \in Cases : cases[k].status = "OPEN" /\ cases[k].student = s}

\* What the result of a query depends on beyond the rows it returns.
PersonQuery(p) == <<"candidates", p>>
CaseQuery(s)   == <<"open cases", s>>
OwnerQuery(k)  == <<"owners", k>>

FileInit ==
  /\ HandlersInit
  /\ GenerationInit
  /\ leads = [l \in Leads |-> NoLead]
  /\ students = [s \in Students |-> NoStudent]
  /\ cases = [k \in Cases |-> NoCase]
  /\ owners = {}

-----------------------------------------------------------------------------
(* Leads                                                                    *)

CreateLead(r, l) ==
  /\ IsIdle(r) /\ leads[l].status = "ABSENT"
  /\ leads' = [leads EXCEPT ![l].status = "NEW"]
  /\ Put(r, {l}, Idle)
  /\ UNCHANGED <<students, cases, owners, generationRows>>

LeadStatusRead(r, l, status) ==
  /\ IsIdle(r) /\ leads[l].status # "ABSENT" /\ status \in LEAD_TRANSITIONS[leads[l].status]
  /\ Continue(r, "lead.status", <<l, status>>, {l})
  /\ UNCHANGED <<fileRows, generationRows>>

LeadStatusWrite(r) ==
  /\ At(r, "lead.status")
  /\ leads' = [leads EXCEPT ![Args(r)[1]].status = Args(r)[2]]
  /\ Write(r, {Args(r)[1]}, Idle)
  /\ UNCHANGED <<students, cases, owners, generationRows>>

\* convert(): choice is dto.confirmMatch, target is dto.mergeIntoStudentId.
ConvertRead(r, l, choice, target) ==
  /\ IsIdle(r) /\ leads[l].status \notin {"ABSENT", "CONVERTED", "LOST"}
  /\ Continue(r, "convert.match", <<l, choice, target>>, {l})
  /\ UNCHANGED <<fileRows, generationRows>>

\* Faulty: candidates do not hold up a conversion that says nothing of them.
ConvertMatchAnyway(r) ==
  LET l == Args(r)[1]  choice == Args(r)[2]  target == Args(r)[3]
  IN  /\ At(r, "convert.match")
      /\ choice = "MERGE" => target \in Candidates(Person[l])
      /\ Continue(r, IF choice = "MERGE" THEN "convert.case" ELSE "convert.student",
                  <<l, target, choice = "CREATE_NEW">>, {PersonQuery(Person[l])})
      /\ UNCHANGED <<fileRows, generationRows>>

\* Candidates must be answered for; a merge is with one of them.
ConvertMatch(r) ==
  LET l == Args(r)[1]  choice == Args(r)[2]  target == Args(r)[3]
  IN  /\ At(r, "convert.match")
      /\ choice = "none" => Candidates(Person[l]) = {}
      /\ choice = "MERGE" => target \in Candidates(Person[l])
      /\ Continue(r, IF choice = "MERGE" THEN "convert.case" ELSE "convert.student",
                  <<l, target, choice = "CREATE_NEW">>, {PersonQuery(Person[l])})
      /\ UNCHANGED <<fileRows, generationRows>>

\* The student of a lead that is not merged: in a statement of its own, ahead of
\* the transaction that opens the case.
ConvertStudent(r, s) ==
  LET l == Args(r)[1]
  IN  /\ At(r, "convert.student") /\ students[s].status = "ABSENT"
      /\ students' = [students EXCEPT ![s] = [status |-> "LIVE", person |-> Person[l], asked |-> Args(r)[3]]]
      /\ Write(r, {s, PersonQuery(Person[l])},
               [serving[r] EXCEPT !.step = "convert.case", !.args = <<l, s, FALSE>>])
      /\ UNCHANGED <<leads, cases, owners, generationRows>>

\* An open case of the student is used again.
ConvertCase(r) ==
  LET s == Args(r)[2]
  IN  /\ At(r, "convert.case")
      /\ Continue(r, IF OpenCases(s) = {} THEN "convert.open" ELSE "convert.reuse", Args(r), {CaseQuery(s)})
      /\ UNCHANGED <<fileRows, generationRows>>

Convert(l, s) == leads' = [leads EXCEPT ![l] = [status |-> "CONVERTED", student |-> s]]

ConvertReuse(r) ==
  /\ At(r, "convert.reuse")
  /\ Convert(Args(r)[1], Args(r)[2])
  /\ Write(r, {Args(r)[1]}, Idle)
  /\ UNCHANGED <<students, cases, owners, generationRows>>

\* A case for s, and r is left to make owner its OWNER member.
OpenCase(r, k, s, owner, rows) ==
  /\ cases[k].status = "ABSENT"
  /\ cases' = [cases EXCEPT ![k] = [status |-> "OPEN", student |-> s, owner |-> owner]]
  /\ Write(r, {CaseQuery(s)} \cup rows, [Idle EXCEPT !.step = "case.member", !.args = <<k, owner>>])

\* Faulty: the lead is written ahead of the case.
ConvertOpenLater(r, k, u) ==
  /\ At(r, "convert.open")
  /\ Convert(Args(r)[1], Args(r)[2])
  /\ Write(r, {Args(r)[1]}, [serving[r] EXCEPT !.step = "case.open", !.args = <<Args(r)[2], u>>])
  /\ UNCHANGED <<students, cases, owners, generationRows>>

\* One $transaction: the case and the lead.
ConvertOpen(r, k, u) ==
  /\ At(r, "convert.open")
  /\ Convert(Args(r)[1], Args(r)[2])
  /\ OpenCase(r, k, Args(r)[2], u, {Args(r)[1]})
  /\ UNCHANGED <<students, owners, generationRows>>

-----------------------------------------------------------------------------
(* Students and cases                                                       *)

\* StudentsService.create() looks for no duplicates.
CreateStudent(r, s, p) ==
  /\ IsIdle(r) /\ students[s].status = "ABSENT"
  /\ students' = [students EXCEPT ![s] = [status |-> "LIVE", person |-> p, asked |-> TRUE]]
  /\ Put(r, {s, PersonQuery(p)}, Idle)
  /\ UNCHANGED <<leads, cases, owners, generationRows>>

ArchiveStudent(r, s) ==
  /\ IsIdle(r) /\ students[s].status = "LIVE"
  /\ students' = [students EXCEPT ![s].status = "ARCHIVED"]
  /\ Put(r, {s, PersonQuery(students[s].person)}, Idle)
  /\ UNCHANGED <<leads, cases, owners, generationRows>>

CreateCaseRead(r, s, u) ==
  /\ IsIdle(r) /\ students[s].status = "LIVE"
  /\ Continue(r, "case.check", <<s, u>>, {s})
  /\ UNCHANGED <<fileRows, generationRows>>

CreateCaseCheck(r) ==
  /\ At(r, "case.check") /\ OpenCases(Args(r)[1]) = {}
  /\ Continue(r, "case.open", Args(r), {CaseQuery(Args(r)[1])})
  /\ UNCHANGED <<fileRows, generationRows>>

CreateCase(r, k) ==
  /\ At(r, "case.open")
  /\ OpenCase(r, k, Args(r)[1], Args(r)[2], {})
  /\ UNCHANGED <<leads, students, owners, generationRows>>

\* The OWNER member of a new case, then its tasks.
CreateMember(r) ==
  LET k == Args(r)[1]
  IN  /\ At(r, "case.member")
      /\ owners' = owners \cup {Args(r)}
      /\ Put(r, {OwnerQuery(k)},
             [Idle EXCEPT !.step = "generation", !.args = GenerationOf(k, "CASE_CREATED")])
      /\ UNCHANGED <<leads, students, cases, generationRows>>

UpdateStage(r, k) ==
  /\ IsIdle(r) /\ cases[k].status = "OPEN"
  /\ Put(r, {}, [Idle EXCEPT !.step = "generation", !.args = GenerationOf(k, "CASE_STAGE_CHANGED")])
  /\ UNCHANGED <<fileRows, generationRows>>

\* ClosureService and updateStatus() finish a case (modules ClosureService, CasesService).
FinishCase(r, k) ==
  /\ IsIdle(r) /\ cases[k].status = "OPEN"
  /\ cases' = [cases EXCEPT ![k].status = "CLOSED"]
  /\ Put(r, {}, Idle)
  /\ UNCHANGED <<leads, students, owners, generationRows>>

-----------------------------------------------------------------------------
(* Owners                                                                   *)

\* addMember(): an upsert, which may promote or demote.
AddMember(r, k, u, role) ==
  /\ IsIdle(r) /\ cases[k].status # "ABSENT"
  /\ owners' = IF role = "OWNER" THEN owners \cup {<<k, u>>} ELSE owners \ {<<k, u>>}
  /\ Put(r, {OwnerQuery(k)}, Idle)
  /\ UNCHANGED <<leads, students, cases, generationRows>>

\* Faulty: the owners who were before keep their role.
TransferAdds(r) ==
  LET k == Args(r)[1]  u == Args(r)[2]
  IN  /\ At(r, "owner.commit")
      /\ owners' = owners \cup {<<k, u>>}
      /\ cases' = [cases EXCEPT ![k].owner = u]
      /\ Write(r, {OwnerQuery(k)}, Idle)
      /\ UNCHANGED <<leads, students, generationRows>>

\* reassignOwner(): updateMany works on the OWNER rows that its statement finds ...
TransferRead(r, k, u) ==
  /\ IsIdle(r) /\ cases[k].status # "ABSENT"
  /\ Continue(r, "owner.commit", <<k, u, owners \cap ({k} \X (Users \ {u}))>>, {OwnerQuery(k)})
  /\ UNCHANGED <<fileRows, generationRows>>

\* ... waits for whoever holds one of them, and the rest follows in the transaction.
TransferCommit(r) ==
  LET k == Args(r)[1]  u == Args(r)[2]
  IN  /\ At(r, "owner.commit")
      /\ owners' = (owners \ Args(r)[3]) \cup {<<k, u>>}
      /\ cases' = [cases EXCEPT ![k].owner = u]
      /\ Write(r, {OwnerQuery(k)}, Idle)
      /\ UNCHANGED <<leads, students, generationRows>>

FileEnds(r) == Dies(r) /\ UNCHANGED <<fileRows, generationRows>>

LeadNext(r) ==
  \/ \E l \in Leads :
       \/ CreateLead(r, l)
       \/ \E status \in LeadStatus : LeadStatusRead(r, l, status)
       \/ \E choice \in {"none", "CREATE_NEW"} : ConvertRead(r, l, choice, NoOne)
       \/ \E s \in Students : ConvertRead(r, l, "MERGE", s)
  \/ LeadStatusWrite(r) \/ ConvertMatch(r) \/ ConvertCase(r) \/ ConvertReuse(r)
  \/ \E s \in Students : ConvertStudent(r, s)
  \/ \E k \in Cases, u \in Users : ConvertOpen(r, k, u)

CaseNext(r) ==
  \/ \E s \in Students :
       \/ \E l \in Leads : CreateStudent(r, s, Person[l])
       \/ ArchiveStudent(r, s)
       \/ \E u \in Users : CreateCaseRead(r, s, u)
  \/ CreateCaseCheck(r) \/ CreateMember(r)
  \/ \E k \in Cases : CreateCase(r, k) \/ UpdateStage(r, k) \/ FinishCase(r, k)
  \/ GenerationNext(r) /\ UNCHANGED fileRows
  \/ Generate(r) /\ UNCHANGED fileRows

OwnerNext(r) ==
  \/ \E k \in Cases, u \in Users :
       \/ \E role \in {"OWNER", "COLLABORATOR"} : AddMember(r, k, u, role)
       \/ TransferRead(r, k, u)
  \/ TransferCommit(r)

FileNext == \E r \in Slots : LeadNext(r) \/ CaseNext(r) \/ OwnerNext(r) \/ FileEnds(r)

FileSpec == FileInit /\ [][FileNext]_fileVars

-----------------------------------------------------------------------------
\* A lead never counts as converted without what it was converted to, a student
\* who has had a case: whatever overlaps with convert() and wherever it dies.
ConvertedHasCase ==
  \A l \in Leads : leads[l].status = "CONVERTED" =>
     /\ leads[l].student \in Students /\ students[leads[l].student].status # "ABSENT"
     /\ \E k \in Cases : cases[k].status # "ABSENT" /\ cases[k].student = leads[l].student

\* "At most one non-closed Case per Student".
OneOpenCase == \A s \in Students : \A j, k \in OpenCases(s) : j = k

\* Two students for one person are somebody's decision.
NoSilentTwin ==
  \A s, t \in Students :
     s # t /\ students[s].status = "LIVE" /\ students[t].status = "LIVE"
       /\ students[s].person = students[t].person => students[s].asked \/ students[t].asked

\* One file for a person and one open case in it, as long as nobody wrote what he
\* decided on candidates or open cases of before.
OneFile == undisturbed => OneOpenCase /\ NoSilentTwin

\* A transfer that nobody came in between leaves the case one owner, and the same one
\* in the case and among its members, however many owners were added before.
TransferLeavesOneOwner ==
  [][\A k \in Cases :
       undisturbed' /\ cases[k].status # "ABSENT" /\ cases'[k].owner # cases[k].owner =>
         owners' \cap ({k} \X Users) = {<<k, cases'[k].owner>>}]_fileVars
=============================================================================
