------------------------------ MODULE VisaFile ------------------------------
(***************************************************************************)
(* The visas of one case: VisasService and VisaChecklistService.  A visa   *)
(* gets an item for each of the checklist templates of its country and     *)
(* type, one insert after the other, behind the insert of the visa itself. *)
(*                                                                         *)
(* Required   the templates that are active and required                   *)
(* Extra      the items that do not come from one of these                 *)
(***************************************************************************)
EXTENDS TaskGeneration

CONSTANTS Required, Extra

VARIABLES
  visas,      \* status, whether submittedAt is set, and whether create() came to its end
  checklist   \* [visa -> [item -> "ABSENT", "OPTIONAL" (not required, done or not),
              \*   "PENDING" (required and open) or "DONE" (required, and done or waived)]]

visaRows == <<visas, checklist>>
visaVars == <<handlerVars, generationRows, visaRows>>

Visas      == Sources
VisaStatus == {"NOT_STARTED", "PREPARING", "READY", "SUBMITTED", "APPOINTMENT", "INTERVIEW", "GRANTED",
               "REFUSED", "WITHDRAWN"}
VisaClosed == {"GRANTED", "REFUSED", "WITHDRAWN"}

VISA_TRANSITIONS ==
  [s \in VisaStatus |->
     CASE s = "NOT_STARTED" -> {"PREPARING", "WITHDRAWN"}
       [] s = "PREPARING"   -> {"READY", "NOT_STARTED", "WITHDRAWN"}
       [] s = "READY"       -> {"PREPARING", "WITHDRAWN"}
       [] s \in {"SUBMITTED", "APPOINTMENT", "INTERVIEW"} -> {"WITHDRAWN"}
       [] OTHER             -> {}]

NoVisa     == [status |-> "ABSENT", submitted |-> FALSE, complete |-> FALSE]
VisaExists(v) == visas[v].status # "ABSENT"
ActiveVisa(v) == visas[v].status \notin VisaClosed \cup {"ABSENT"}

Items      == Required \cup Extra
ItemStates == {"OPTIONAL", "PENDING", "DONE"}

\* assertChecklistComplete() counts the required items that are there and open.
ChecklistComplete(v) == \A t \in Items : checklist[v][t] # "PENDING"

VisaInit ==
  /\ HandlersInit
  /\ GenerationInit
  /\ visas = [v \in Visas |-> NoVisa]
  /\ checklist = [v \in Visas |-> [t \in Items |-> "ABSENT"]]

SetVisa(r, v, row, rows, next) ==
  /\ visas' = [visas EXCEPT ![v] = row]
  /\ Write(r, {v} \cup rows, next)
  /\ UNCHANGED <<checklist, generationRows>>

-----------------------------------------------------------------------------
\* create(): no visa of the case is active, then the visa, then its items.
VisaCreateRead(r) ==
  /\ IsIdle(r) /\ \A v \in Visas : ~ActiveVisa(v)
  /\ Continue(r, "visa.create", <<>>, {<<"active">>})
  /\ UNCHANGED <<visaRows, generationRows>>

VisaCreate(r, v) ==
  /\ At(r, "visa.create") /\ ~VisaExists(v)
  /\ SetVisa(r, v, [status |-> "NOT_STARTED", submitted |-> FALSE, complete |-> Required = {}], {<<"active">>},
             IF Required = {} THEN Idle ELSE [Idle EXCEPT !.step = "visa.items", !.args = <<v>>])

VisaItem(r, t) ==
  LET v == Args(r)[1]
      left == {u \in Required : checklist[v][u] = "ABSENT"} \ {t}
  IN  /\ At(r, "visa.items") /\ checklist[v][t] = "ABSENT"
      /\ checklist' = [checklist EXCEPT ![v][t] = "PENDING"]
      /\ visas' = [visas EXCEPT ![v].complete = left = {}]
      /\ Put(r, {<<"checklist", v>>}, IF left = {} THEN Idle ELSE serving[r])
      /\ UNCHANGED generationRows

SetItem(r, v, t, state) ==
  /\ checklist' = [checklist EXCEPT ![v][t] = state]
  /\ Put(r, {<<"checklist", v>>}, Idle)
  /\ UNCHANGED <<visas, generationRows>>

\* VisaChecklistService.create(): an item more, wherever the visa stands.
ItemCreate(r, v, t, state) ==
  /\ IsIdle(r) /\ VisaExists(v) /\ t \in Extra /\ checklist[v][t] = "ABSENT" /\ state # "DONE"
  /\ SetItem(r, v, t, state)

\* update(): an item is done or taken up again, required or no longer.
ItemUpdate(r, v, t, state) == IsIdle(r) /\ checklist[v][t] \notin {"ABSENT", state} /\ SetItem(r, v, t, state)

\* updateStatus(): the row, the checklist when the visa is to be READY, the write.
VisaStatusRead(r, v, status) ==
  /\ IsIdle(r) /\ VisaExists(v) /\ status \in VISA_TRANSITIONS[visas[v].status]
  /\ Continue(r, IF status = "READY" THEN "visa.ready" ELSE "visa.write", <<v, status>>, {v})
  /\ UNCHANGED <<visaRows, generationRows>>

\* Faulty: what was complete for READY is not looked at again for the submission.
VisaSubmitUnchecked(r, v) ==
  /\ IsIdle(r) /\ visas[v].status = "READY"
  /\ Continue(r, "visa.write", <<v, "SUBMITTED">>, {v})
  /\ UNCHANGED <<visaRows, generationRows>>

VisaSubmitRead(r, v) ==
  /\ IsIdle(r) /\ visas[v].status = "READY"
  /\ Continue(r, "visa.ready", <<v, "SUBMITTED">>, {v})
  /\ UNCHANGED <<visaRows, generationRows>>

VisaChecklistRead(r) ==
  /\ At(r, "visa.ready") /\ ChecklistComplete(Args(r)[1])
  /\ Continue(r, "visa.write", Args(r), {<<"checklist", Args(r)[1]>>})
  /\ UNCHANGED <<visaRows, generationRows>>

\* scheduleAppointment(), recordInterview() and recordResult(): from which status.
ResultStatuses ==
  [APPOINTMENT |-> {"SUBMITTED"}, INTERVIEW |-> {"APPOINTMENT"},
   GRANTED |-> {"SUBMITTED", "APPOINTMENT", "INTERVIEW"},
   REFUSED |-> {"SUBMITTED", "APPOINTMENT", "INTERVIEW"}]

VisaResultRead(r, v, status) ==
  /\ IsIdle(r) /\ visas[v].status \in ResultStatuses[status]
  /\ Continue(r, "visa.write", <<v, status>>, {v})
  /\ UNCHANGED <<visaRows, generationRows>>

\* The write by id of all of them.  A grant calls for tasks.
VisaWrite(r) ==
  LET v == Args(r)[1]  status == Args(r)[2]
  IN  /\ At(r, "visa.write")
      /\ SetVisa(r, v, [visas[v] EXCEPT !.status = status, !.submitted = @ \/ status = "SUBMITTED"], {},
                 IF status = "GRANTED" THEN [Idle EXCEPT !.step = "generation", !.args = GenerationOf(v, "VISA_GRANTED")]
                 ELSE Idle)

VisaNext ==
  \E r \in Slots :
    \/ VisaCreateRead(r)
    \/ \E v \in Visas :
         \/ VisaCreate(r, v) \/ VisaSubmitRead(r, v)
         \/ \E t \in Items, state \in ItemStates : ItemCreate(r, v, t, state) \/ ItemUpdate(r, v, t, state)
         \/ \E status \in VisaStatus : VisaStatusRead(r, v, status)
         \/ \E status \in DOMAIN ResultStatuses : VisaResultRead(r, v, status)
    \/ \E t \in Required : VisaItem(r, t)
    \/ VisaChecklistRead(r) \/ VisaWrite(r)
    \/ (GenerationNext(r) \/ Generate(r)) /\ UNCHANGED visaRows
    \/ Dies(r) /\ UNCHANGED <<visaRows, generationRows>>

VisaSpec == VisaInit /\ [][VisaNext]_visaVars

-----------------------------------------------------------------------------
\* No visa is ever at an appointment, an interview or a result without a submission
\* on record, also when a late update has moved it back and forth meanwhile.
ResultWasSubmitted ==
  \A v \in Visas :
    visas[v].status \in {"SUBMITTED", "APPOINTMENT", "INTERVIEW", "GRANTED", "REFUSED"} => visas[v].submitted

\* The case has one visa under way at most, and a result stays, unless a row changed
\* under a handler.  A visa is submitted only while no item of its checklist is required
\* and open, whoever added it or made it so; and one whose creation came to its end has
\* an item for each template (one that was cut short lacks some, and passes).
VisaHolds ==
  [][/\ ResultWasSubmitted'
     /\ undisturbed' =>
          /\ \A v, w \in Visas : ActiveVisa(v)' /\ ActiveVisa(w)' => v = w
          /\ \A v \in Visas :
               visas'[v].status # visas[v].status =>
                 /\ visas[v].status \notin VisaClosed
                 /\ visas'[v].status = "SUBMITTED" =>
                      /\ ChecklistComplete(v)
                      /\ visas[v].complete => \A t \in Required : checklist[v][t] # "ABSENT"]_visaVars
=============================================================================
