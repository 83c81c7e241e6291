---------------------------- MODULE CasesService ----------------------------
(***************************************************************************)
(* The handlers of CasesService that decide whether a student has an       *)
(* active case, and move a case's status outside the closure workflow.     *)
(***************************************************************************)
EXTENDS CrmStore

CASE_TRANSITIONS ==
  [OPEN |-> {"ACTIVE", "ON_HOLD"}, ACTIVE |-> {"ON_HOLD", "COMPLETED"}, ON_HOLD |-> {"ACTIVE"},
   COMPLETED |-> {"ARCHIVED"}, CLOSED |-> {"ARCHIVED"}, ARCHIVED |-> {}, ABSENT |-> {}]

OnlyCases == UNCHANGED <<contracts, amendments, payments, handovers, liquidations>>

\* Bound of the instance: a creation begins while a row of Cases is left for it.
RoomForCase == Cardinality({k \in Cases : cases[k].status = "ABSENT"})
                 > Cardinality({w \in Workers : At(w, "case.create")})

\* Faulty: no check for a case that is still active.
CreateForStudentAnyway(w) ==
  /\ RoomForCase
  /\ Begin(w, "case.create", [Idle EXCEPT !.step = "case.create"])
  /\ UNCHANGED tables

\* DUPLICATE_ACTIVE_CASE unless the student has none.
CreateForStudentRead(w) ==
  /\ ActiveCases = {}
  /\ RoomForCase
  /\ Begin(w, "case.create", [Idle EXCEPT !.step = "case.create"])
  /\ UNCHANGED tables

\* The case, its owner's membership and the CASE_CREATED tasks of the templates.
CreateForStudentWrite(w) ==
  /\ At(w, "case.create")
  /\ \E k \in Cases, noTasks \in BOOLEAN :
       /\ cases[k].status = "ABSENT"
       /\ cases' = [cases EXCEPT ![k] = [NoCase EXCEPT !.status = "OPEN"]]
       /\ workDone' = [workDone EXCEPT ![k] = noTasks]
  /\ Answer(w)
  /\ OnlyCases

UpdateStatusRead(w, k, to) ==
  /\ to \in CASE_TRANSITIONS[cases[k].status]
  /\ Begin(w, "case.status", [CaseRequest("caseStatus.write", k) EXCEPT !.to = to])
  /\ UNCHANGED tables

UpdateStatusWrite(w) ==
  /\ At(w, "caseStatus.write")
  /\ CaseUnlocked(req[w].kase)
  /\ cases' = [cases EXCEPT ![req[w].kase].status = req[w].to]
  /\ Answer(w)
  /\ OnlyCases /\ UNCHANGED workDone

\* Tasks, visas, enrollments and pre-departure items of the case come and go.
WorkChanges(k) ==
  /\ "case.work" \in Operations
  /\ cases[k].status # "ABSENT"
  /\ workDone' = [workDone EXCEPT ![k] = ~@]
  /\ OnlyCases /\ UNCHANGED <<cases, req>>

CasesNext(w) ==
  \/ CreateForStudentRead(w) \/ CreateForStudentWrite(w)
  \/ \E k \in Cases, to \in CaseStatus : UpdateStatusRead(w, k, to)
  \/ UpdateStatusWrite(w)
  \/ \E k \in Cases : WorkChanges(k)
=============================================================================
