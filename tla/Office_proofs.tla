--------------------------- MODULE Office_proofs ---------------------------
(***************************************************************************)
(* For any number of records and of requests at a time: what holds in the  *)
(* office whatever requests overlap and wherever they end.  Each invariant *)
(* says what the rows are, and what a handler that has passed its checks   *)
(* still knows of them when it comes to write: only facts that no other    *)
(* request can take back.                                                  *)
(***************************************************************************)
EXTENDS Handlers_proofs, Idempotency, VisaFile, Commissions, CaseFile, Admission

-----------------------------------------------------------------------------
(* Answers to requests with a key                                           *)

Answer == [body : Bodies, answer : Nat]

\* What the interceptor holds of a request that it let pass.
RequestHeld(r) ==
  serving[r].step \in {"handle", "store"} =>
    /\ Args(r)[1] \in Keys
    /\ Args(r)[2] \in Bodies
    /\ serving[r].step = "store" => Args(r)[3] \in Nat

AnswerInv ==
  /\ Shape
  /\ answers \in [Keys -> Answer \cup {NoAnswer}]
  /\ executions \in Nat
  /\ received \in SUBSET [key : Keys, body : Bodies, answer : Nat]
  /\ \A x \in received : answers[x.key] = [body |-> x.body, answer |-> x.answer]
  /\ \A r \in Slots : RequestHeld(r)

LEMMA AnswerInit == IdempotencyInit => AnswerInv
BY HandlersInitShape DEF IdempotencyInit, AnswerInv, RequestHeld, Idle

\* A slot that goes on holds what it held, and an idle one holds nothing.
LEMMA RequestKept ==
  ASSUME NEW q \in Slots, RequestHeld(q), Keeps(q) PROVE RequestHeld(q)'
BY DEF RequestHeld, Keeps, Args

LEMMA RequestSame ==
  ASSUME NEW q \in Slots, RequestHeld(q), serving'[q] = serving[q] PROVE RequestHeld(q)'
BY DEF RequestHeld, Args

LEMMA RequestIdle ==
  ASSUME NEW q \in Slots, serving'[q] = Idle PROVE RequestHeld(q)'
BY DEF RequestHeld, Idle

LEMMA AnswerStep == AnswerInv /\ [IdempotencyNext]_idempotencyVars => AnswerInv'
<1> SUFFICES ASSUME AnswerInv, [IdempotencyNext]_idempotencyVars PROVE AnswerInv'
  OBVIOUS
<1>0. Shape /\ \A q \in Slots : RequestHeld(q)
  BY DEF AnswerInv
<1>1. ASSUME NEW r \in Slots, NEW k \in Keys, NEW b \in Bodies, Replay(r, k, b) PROVE AnswerInv'
  <2>1. /\ answers[k] \in Answer /\ answers[k].body = b
        /\ received' = received \cup {[key |-> k, body |-> b, answer |-> answers[k].answer]}
        /\ UNCHANGED <<serving, answers, executions>>
    BY <1>1 DEF Replay, AnswerInv, handlerVars
  <2>2. answers[k] = [body |-> b, answer |-> answers[k].answer]
    BY <2>1 DEF Answer
  <2> QED BY <2>1, <2>2 DEF AnswerInv, Answer, RequestHeld, Args, Shape, Slot
<1>2. ASSUME NEW r \in Slots, NEW k \in Keys, NEW b \in Bodies, Miss(r, k, b) PROVE AnswerInv'
  <2>1. /\ Shape' /\ serving'[r].step = "handle" /\ serving'[r].args = <<k, b>>
        /\ \A q \in Slots \ {r} : serving'[q] = serving[q]
    BY <1>0, <1>2 DEF Miss, Continue, Shape, Slot
  <2>2. RequestHeld(r)'
    BY <2>1 DEF RequestHeld, Args
  <2>3. \A q \in Slots : RequestHeld(q)'
    BY <1>0, <2>1, <2>2, RequestSame
  <2> QED BY <1>2, <2>1, <2>3 DEF Miss, AnswerInv, idempotencyRows
<1>3. ASSUME NEW r \in Slots, Handle(r) PROVE AnswerInv'
  <2>1. /\ Shape' /\ serving'[r].step = "store"
        /\ serving'[r].args = <<Args(r)[1], Args(r)[2], executions + 1>>
        /\ \A q \in Slots \ {r} : serving'[q] = serving[q]
    BY <1>0, <1>3 DEF Handle, Continue, Shape, Slot
  <2>2. RequestHeld(r)' /\ executions' \in Nat
    BY <1>3, <2>1 DEF Handle, At, RequestHeld, Args, AnswerInv
  <2>3. \A q \in Slots : RequestHeld(q)'
    BY <1>0, <2>1, <2>2, RequestSame
  <2> QED BY <1>3, <2>1, <2>2, <2>3 DEF Handle, AnswerInv
<1>4. ASSUME NEW r \in Slots, StoreAnswer(r) PROVE AnswerInv'
  <2> DEFINE k == Args(r)[1]
             stored == [body |-> Args(r)[2], answer |-> Args(r)[3]]
  <2>1. k \in Keys /\ Args(r)[2] \in Bodies /\ Args(r)[3] \in Nat
    BY <1>4 DEF StoreAnswer, At, AnswerInv, RequestHeld
  <2>2. CASE answers[k] = NoAnswer
    <3>1. /\ answers' = [answers EXCEPT ![k] = stored]
          /\ received' = received \cup {[key |-> k, body |-> stored.body, answer |-> stored.answer]}
          /\ executions' = executions
      BY <1>4, <2>2 DEF StoreAnswer
    <3>2. PICK rows : Write(r, rows, Idle) /\ Slot(Idle)
      BY <1>4, <2>2 DEF StoreAnswer, Slot, Idle
    <3>3. Shape' /\ serving'[r] = Idle /\ \A q \in Slots \ {r} : Keeps(q)
      BY <1>0, <3>2, WriteEffect
    <3>4. \A q \in Slots : RequestHeld(q)'
      BY <1>0, <3>3, RequestKept, RequestIdle
    <3>5. ASSUME NEW x \in received PROVE x.key # k
      <4>1. /\ x \in [key : Keys, body : Bodies, answer : Nat]
            /\ answers[x.key] = [body |-> x.body, answer |-> x.answer]
        BY DEF AnswerInv
      <4>2. answers[x.key] \in [body : Bodies, answer : Nat]
        BY <4>1
      <4> QED BY <2>2, <4>2, NoAnswerAssumption
    <3>6. stored \in Answer /\ stored.body \in Bodies /\ stored.answer \in Nat
      BY <2>1 DEF Answer
    <3>7. answers' \in [Keys -> Answer \cup {NoAnswer}] /\ executions' \in Nat
      BY <3>1, <3>6 DEF AnswerInv
    <3>8. received' \in SUBSET [key : Keys, body : Bodies, answer : Nat]
      BY <2>1, <3>1, <3>6 DEF AnswerInv
    <3>9. ASSUME NEW x \in received' PROVE answers'[x.key] = [body |-> x.body, answer |-> x.answer]
      <4>1. CASE x \in received
        BY <3>1, <3>5, <4>1 DEF AnswerInv
      <4>2. CASE x = [key |-> k, body |-> stored.body, answer |-> stored.answer]
        BY <2>1, <3>1, <4>2 DEF AnswerInv
      <4> QED BY <3>1, <4>1, <4>2
    <3> QED BY <3>3, <3>4, <3>7, <3>8, <3>9 DEF AnswerInv
  <2>3. CASE answers[k] # NoAnswer
    <3>1. Return(r) /\ UNCHANGED <<answers, received, executions>>
      BY <1>4, <2>3 DEF StoreAnswer
    <3>2. Shape' /\ serving'[r] = Idle /\ \A q \in Slots \ {r} : serving'[q] = serving[q]
      BY <1>0, <3>1, ReturnEffect
    <3>3. \A q \in Slots : RequestHeld(q)'
      BY <1>0, <3>2, RequestSame, RequestIdle
    <3> QED BY <3>1, <3>2, <3>3 DEF AnswerInv
  <2> QED BY <2>2, <2>3
<1>5. ASSUME NEW r \in Slots, Dies(r), UNCHANGED idempotencyRows PROVE AnswerInv'
  <2>1. Shape' /\ serving'[r] = Idle /\ \A q \in Slots \ {r} : serving'[q] = serving[q]
    BY <1>0, <1>5, ReturnEffect DEF Dies
  <2>2. \A q \in Slots : RequestHeld(q)'
    BY <1>0, <2>1, RequestSame, RequestIdle
  <2> QED BY <1>5, <2>1, <2>2 DEF AnswerInv, idempotencyRows
<1>6. CASE UNCHANGED idempotencyVars
  BY <1>6 DEF idempotencyVars, idempotencyRows, handlerVars, AnswerInv, RequestHeld, Args, Shape, Slot
<1> QED BY <1>1, <1>2, <1>3, <1>4, <1>5, <1>6 DEF IdempotencyNext

\* All requests with one key that succeed get one answer, and had one body: for any
\* number of keys, bodies and requests, and however often requests are sent again.
THEOREM AnswersAreOne == IdempotencySpec => []OneAnswerPerKey
<1>1. IdempotencySpec => []AnswerInv
  BY AnswerInit, AnswerStep, PTL DEF IdempotencySpec
<1>2. AnswerInv => OneAnswerPerKey
  <2> SUFFICES ASSUME AnswerInv, NEW x \in received, NEW y \in received, x.key = y.key PROVE x = y
    BY DEF OneAnswerPerKey
  <2>1. /\ x \in [key : Keys, body : Bodies, answer : Nat]
        /\ y \in [key : Keys, body : Bodies, answer : Nat]
        /\ [body |-> x.body, answer |-> x.answer] = [body |-> y.body, answer |-> y.answer]
    BY DEF AnswerInv
  <2>2. x.body = y.body /\ x.answer = y.answer
    BY <2>1
  <2> QED BY <2>1, <2>2
<1> QED BY <1>1, <1>2, PTL
-----------------------------------------------------------------------------
(* The end of a handler that calls for tasks                                *)

LEMMA GenerationOthers ==
  ASSUME Shape, NEW r \in Slots, GenerationNext(r) \/ Generate(r)
  PROVE  Others(r) /\ serving'[r].step \in {"idle", "generation", "generation.create"}
<1>1. CASE Return(r)
  BY <1>1, ReturnOthers DEF Idle
<1>2. CASE \E step, args, rows : Continue(r, step, args, rows) /\ step \in {"generation", "generation.create"}
  <2>1. PICK step, args, rows : Continue(r, step, args, rows) /\ step \in {"generation", "generation.create"}
    BY <1>2
  <2>2. /\ Shape' /\ serving'[r].step = step
        /\ \A q \in Slots \ {r} : serving'[q] = serving[q]
    BY <2>1, ContinueEffect
  <2> QED BY <2>1, <2>2 DEF Others, Keeps
<1> QED BY <1>1, <1>2 DEF GenerationNext, Generate

\* Of a call under way, every template of its event is still to come, or has its task.
GenerationHeld(r) ==
  LET done(t) == <<t, Args(r)[1]>> \in generated
  IN  /\ serving[r].step = "generation" =>
           \A t \in Templates[Args(r)[2]] : t \in Args(r)[3] \/ done(t)
      /\ serving[r].step = "generation.create" =>
           \A t \in Templates[Args(r)[2]] : t \in Args(r)[3] \cup {Args(r)[4]} \/ done(t)

GenerationInv == GenerationIsComplete /\ \A r \in Slots : GenerationHeld(r)

\* A call begins with all of its templates to come.
LEMMA GenerationBegins ==
  ASSUME NEW r \in Slots, NEW source, NEW event, serving'[r].args = GenerationOf(source, event),
         serving'[r].step = "generation"
  PROVE  GenerationHeld(r)'
BY DEF GenerationHeld, GenerationOf, Args

LEMMA GenerationElsewhere ==
  ASSUME NEW r \in Slots, serving'[r].step \notin {"generation", "generation.create"} PROVE GenerationHeld(r)'
BY DEF GenerationHeld

\* Whatever else a request does, the calls of the others go on.
LEMMA GenerationKept ==
  ASSUME GenerationInv, NEW r \in Slots, Others(r), UNCHANGED generationRows, GenerationHeld(r)'
  PROVE  GenerationInv'
<1>1. ASSUME NEW q \in Slots \ {r} PROVE GenerationHeld(q)'
  <2>1. GenerationHeld(q) /\ serving'[q].step = serving[q].step /\ serving'[q].args = serving[q].args
    BY DEF GenerationInv, Others, Keeps
  <2> QED BY <2>1 DEF GenerationHeld, Args, generationRows
<1>2. GenerationIsComplete'
  BY DEF GenerationInv, GenerationIsComplete, generationRows
<1> QED BY <1>1, <1>2 DEF GenerationInv

LEMMA GenerationSteps ==
  ASSUME Shape, GenerationInv, NEW r \in Slots, GenerationNext(r) \/ Generate(r) PROVE GenerationInv'
<1> DEFINE source == Args(r)[1]
           event == Args(r)[2]
           left == Args(r)[3]
<1>0. Others(r) /\ GenerationHeld(r)
  BY GenerationOthers DEF GenerationInv
<1>1. CASE GenerationNext(r) /\ left = {} /\ Return(r) /\ answered' = answered \cup {<<event, source>>}
  <2>1. \A t \in Templates[event] : <<t, source>> \in generated
    BY <1>0, <1>1 DEF GenerationNext, GenerationHeld, At
  <2>2. generated' = generated
    BY <1>1 DEF GenerationNext
  <2>3. ASSUME NEW call \in answered', NEW t \in Templates[call[1]] PROVE <<t, call[2]>> \in generated
    <3>1. CASE call \in answered
      BY <3>1 DEF GenerationInv, GenerationIsComplete
    <3>2. CASE call = <<event, source>>
      <4>1. call[1] = event /\ call[2] = source
        BY <3>2
      <4> QED BY <2>1, <4>1
    <3> QED BY <1>1, <3>1, <3>2
  <2>4. serving'[r] = Idle
    BY <1>1, ReturnOthers
  <2>5. ASSUME NEW q \in Slots PROVE GenerationHeld(q)'
    <3>1. CASE q = r
      BY <2>4, <3>1 DEF GenerationHeld, Idle
    <3>2. CASE q # r
      BY <1>0, <2>2, <3>2 DEF GenerationInv, GenerationHeld, Others, Keeps, Args
    <3> QED BY <3>1, <3>2
  <2> QED BY <2>2, <2>3, <2>5 DEF GenerationInv, GenerationIsComplete
<1>2. ASSUME NEW t \in left, GenerationNext(r), answered' = answered,
             Continue(r, IF <<t, source>> \in generated THEN "generation" ELSE "generation.create",
                      <<source, event, left \ {t}, t>>, {})
      PROVE  GenerationInv'
  <2>1. generated' = generated /\ serving[r].step = "generation"
    BY <1>2 DEF GenerationNext, At
  <2>2. /\ serving'[r].args = <<source, event, left \ {t}, t>>
        /\ serving'[r].step = IF <<t, source>> \in generated THEN "generation" ELSE "generation.create"
    BY <1>2 DEF Continue, Shape, Slot
  <2>3. GenerationHeld(r)'
    BY <1>0, <2>1, <2>2 DEF GenerationHeld, Args
  <2> QED BY <1>0, <1>2, <2>1, <2>3, GenerationKept DEF generationRows
<1>3. CASE Generate(r)
  <2>1. /\ generated' = generated \cup {<<Args(r)[4], source>>} /\ answered' = answered
        /\ serving[r].step = "generation.create"
    BY <1>3 DEF Generate, At
  <2>2. serving'[r].args = <<source, event, left>> /\ serving'[r].step = "generation"
    BY <1>3 DEF Generate, Continue, Shape, Slot
  <2>3. GenerationHeld(r)'
    BY <1>0, <2>1, <2>2 DEF GenerationHeld, Args
  <2>4. ASSUME NEW q \in Slots \ {r} PROVE GenerationHeld(q)'
    BY <1>0, <2>1 DEF GenerationInv, GenerationHeld, Others, Keeps, Args
  <2>5. GenerationIsComplete'
    BY <2>1 DEF GenerationInv, GenerationIsComplete
  <2> QED BY <2>3, <2>4, <2>5 DEF GenerationInv
<1> QED BY <1>1, <1>2, <1>3 DEF GenerationNext

-----------------------------------------------------------------------------
(* Visas                                                                    *)

VisaRow == [status : VisaStatus \cup {"ABSENT"}, submitted : BOOLEAN, complete : BOOLEAN]
Results == {"APPOINTMENT", "INTERVIEW", "GRANTED", "REFUSED"}

\* A visa that is to get a result was submitted, whatever status it has by now.
VisaHeld(r) ==
  /\ serving[r].step \in {"visa.ready", "visa.write"} =>
       /\ Args(r)[1] \in Visas /\ VisaExists(Args(r)[1])
       /\ Args(r)[2] \in VisaStatus
       /\ Args(r)[2] \in Results => visas[Args(r)[1]].submitted = TRUE
  /\ serving[r].step = "visa.items" => Args(r)[1] \in Visas /\ VisaExists(Args(r)[1])

VisaRowsOK ==
  /\ visas \in [Visas -> VisaRow]
  /\ \A v \in Visas :
       /\ visas[v].submitted = TRUE => VisaExists(v)
       /\ visas[v].status \in Results \cup {"SUBMITTED"} => visas[v].submitted = TRUE

VisaInv == Shape /\ VisaRowsOK /\ \A r \in Slots : VisaHeld(r)

\* No request takes a visa or a submission back.
VisasGrow ==
  \A v \in Visas : /\ VisaExists(v) => visas'[v].status # "ABSENT"
                   /\ visas[v].submitted = TRUE => visas'[v].submitted = TRUE

LEMMA VisaKept ==
  ASSUME VisaInv, VisasGrow, NEW r \in Slots, Others(r), VisaRowsOK', VisaHeld(r)' PROVE VisaInv'
<1>1. ASSUME NEW q \in Slots \ {r} PROVE VisaHeld(q)'
  <2>1. VisaHeld(q) /\ serving'[q].step = serving[q].step /\ serving'[q].args = serving[q].args
    BY DEF VisaInv, Others, Keeps
  <2>2. \A v \in Visas : /\ visas[v].status # "ABSENT" => visas'[v].status # "ABSENT"
                         /\ visas[v].submitted = TRUE => visas'[v].submitted = TRUE
    BY DEF VisasGrow, VisaExists
  <2>3. ASSUME serving[q].step \in {"visa.ready", "visa.write"}
        PROVE  /\ Args(q)[1] \in Visas /\ visas'[Args(q)[1]].status # "ABSENT"
               /\ Args(q)[2] \in VisaStatus
               /\ Args(q)[2] \in Results => visas'[Args(q)[1]].submitted = TRUE
    BY <2>1, <2>2, <2>3 DEF VisaHeld, VisaExists
  <2>4. ASSUME serving[q].step = "visa.items"
        PROVE  Args(q)[1] \in Visas /\ visas'[Args(q)[1]].status # "ABSENT"
    BY <2>1, <2>2, <2>4 DEF VisaHeld, VisaExists
  <2>5. Args(q)' = Args(q)
    BY <2>1 DEF Args
  <2> QED BY <2>1, <2>3, <2>4, <2>5 DEF VisaHeld, VisaExists
<1> QED BY <1>1 DEF VisaInv, Others

\* A slot that is at none of the steps named holds nothing.
LEMMA VisaElsewhere ==
  ASSUME NEW r \in Slots, serving'[r].step \notin {"visa.ready", "visa.write", "visa.items"} PROVE VisaHeld(r)'
BY DEF VisaHeld

\* A request that only reads leaves the rows to the others.
LEMMA VisaRead ==
  ASSUME VisaInv, NEW r \in Slots, Others(r), UNCHANGED visaRows, VisaHeld(r)' PROVE VisaInv'
<1>1. VisasGrow /\ VisaRowsOK'
  BY DEF VisaInv, VisaRowsOK, VisasGrow, VisaExists, visaRows
<1> QED BY <1>1, VisaKept

\* One that writes a row writes one that has all that the row had.
LEMMA VisaRowSet ==
  ASSUME VisaInv, NEW v \in Visas, NEW row \in VisaRow, visas' = [visas EXCEPT ![v] = row],
         row.status # "ABSENT", visas[v].submitted = TRUE => row.submitted = TRUE,
         row.status \in Results \cup {"SUBMITTED"} => row.submitted = TRUE
  PROVE  VisaRowsOK' /\ VisasGrow
BY DEF VisaInv, VisaRowsOK, VisasGrow, VisaExists, VisaRow

LEMMA VisaInitInv == VisaInit => VisaInv
<1> SUFFICES ASSUME VisaInit PROVE VisaInv
  OBVIOUS
<1>1. Shape /\ \A q \in Slots : serving[q] = Idle
  BY HandlersInitShape DEF VisaInit
<1>2. VisaRowsOK
  BY DEF VisaInit, NoVisa, VisaRowsOK, VisaRow, VisaExists, Results
<1> QED BY <1>1, <1>2 DEF VisaInv, VisaHeld, Idle

LEMMA VisaStep == VisaInv /\ [VisaNext]_visaVars => VisaInv'
<1> SUFFICES ASSUME VisaInv, [VisaNext]_visaVars PROVE VisaInv'
  OBVIOUS
<1>0. Shape /\ VisaRowsOK /\ \A q \in Slots : VisaHeld(q)
  BY DEF VisaInv
<1>1. ASSUME NEW r \in Slots, VisaCreateRead(r) PROVE VisaInv'
  <2>1. Others(r) /\ serving'[r].step = "visa.create" /\ UNCHANGED visaRows
    BY <1>0, <1>1 DEF VisaCreateRead, Continue, Others, Keeps, Shape, Slot
  <2> QED BY <2>1, VisaRead, VisaElsewhere
<1>2. ASSUME NEW r \in Slots, NEW v \in Visas, VisaCreate(r, v) PROVE VisaInv'
  <2> DEFINE next == IF Required = {} THEN Idle ELSE [Idle EXCEPT !.step = "visa.items", !.args = <<v>>]
             row == [status |-> "NOT_STARTED", submitted |-> FALSE, complete |-> Required = {}]
  <2>1. ~VisaExists(v) /\ visas' = [visas EXCEPT ![v] = row] /\ \E rows : Write(r, rows, next)
    BY <1>2 DEF VisaCreate, SetVisa
  <2>2. Slot(next)
    BY DEF Slot, Idle
  <2>3. Others(r) /\ serving'[r] = next
    BY <1>0, <2>1, <2>2, WriteOthers
  <2>4. /\ row \in VisaRow /\ row.status = "NOT_STARTED"
        /\ visas[v].submitted # TRUE
    BY <1>0, <2>1 DEF VisaRow, VisaStatus, VisaRowsOK
  <2> HIDE DEF row
  <2>5. VisaRowsOK' /\ VisasGrow
    BY <2>1, <2>4, VisaRowSet DEF Results
  <2>6. VisaHeld(r)'
    BY <1>0, <2>1, <2>3, <2>4 DEF VisaHeld, VisaExists, VisaRowsOK, Idle, Args
  <2> QED BY <2>3, <2>5, <2>6, VisaKept
<1>3. ASSUME NEW r \in Slots, NEW v \in Visas, VisaSubmitRead(r, v) PROVE VisaInv'
  <2>1. /\ Others(r) /\ serving'[r].step = "visa.ready" /\ serving'[r].args = <<v, "SUBMITTED">>
        /\ visas[v].status = "READY" /\ UNCHANGED visaRows
    BY <1>0, <1>3 DEF VisaSubmitRead, Continue, Others, Keeps, Shape, Slot
  <2>2. VisaHeld(r)'
    BY <2>1 DEF VisaHeld, VisaExists, VisaStatus, Results, Args, visaRows
  <2> QED BY <2>1, <2>2, VisaRead
<1>4. ASSUME NEW r \in Slots, NEW v \in Visas, NEW t \in Items, NEW state \in ItemStates,
             ItemCreate(r, v, t, state) \/ ItemUpdate(r, v, t, state)
      PROVE  VisaInv'
  <2>1. visas' = visas /\ \E rows : Put(r, rows, Idle)
    BY <1>4 DEF ItemCreate, ItemUpdate, SetItem
  <2>2. Slot(Idle)
    BY DEF Slot, Idle
  <2>3. Others(r) /\ serving'[r] = Idle
    BY <1>0, <2>1, <2>2, WriteOthers
  <2>4. VisasGrow /\ VisaRowsOK'
    BY <1>0, <2>1 DEF VisaRowsOK, VisasGrow, VisaExists
  <2>5. VisaHeld(r)'
    BY <2>3 DEF VisaHeld, Idle
  <2> QED BY <2>3, <2>4, <2>5, VisaKept
<1>5. ASSUME NEW r \in Slots, NEW v \in Visas, NEW status \in VisaStatus, VisaStatusRead(r, v, status)
      PROVE  VisaInv'
  <2>1. /\ Others(r) /\ serving'[r].step \in {"visa.ready", "visa.write"} /\ serving'[r].args = <<v, status>>
        /\ VisaExists(v) /\ UNCHANGED visaRows
    BY <1>0, <1>5 DEF VisaStatusRead, Continue, Others, Keeps, Shape, Slot
  <2>2. status \in VISA_TRANSITIONS[visas[v].status] /\ visas[v].status \in VisaStatus
    BY <1>0, <1>5 DEF VisaStatusRead, VisaExists, VisaRowsOK, VisaRow
  <2>3. \A s \in VisaStatus : VISA_TRANSITIONS[s] \cap Results = {}
    BY DEF VISA_TRANSITIONS, VisaStatus, Results
  <2>4. VisaHeld(r)'
    BY <2>1, <2>2, <2>3 DEF VisaHeld, VisaExists, Args, visaRows
  <2> QED BY <2>1, <2>4, VisaRead
<1>6. ASSUME NEW r \in Slots, NEW v \in Visas, NEW status \in DOMAIN ResultStatuses, VisaResultRead(r, v, status)
      PROVE  VisaInv'
  <2>1. /\ Others(r) /\ serving'[r].step = "visa.write" /\ serving'[r].args = <<v, status>>
        /\ visas[v].status \in ResultStatuses[status] /\ UNCHANGED visaRows
    BY <1>0, <1>6 DEF VisaResultRead, Continue, Others, Keeps, Shape, Slot
  <2>2. status \in Results /\ visas[v].status \in {"SUBMITTED", "APPOINTMENT", "INTERVIEW"}
    BY <2>1 DEF ResultStatuses, Results
  <2>3. status \in VisaStatus /\ VisaExists(v) /\ visas[v].submitted = TRUE
    BY <1>0, <2>2 DEF Results, VisaStatus, VisaExists, VisaRowsOK
  <2>4. VisaHeld(r)'
    BY <2>1, <2>3 DEF VisaHeld, VisaExists, Args, visaRows
  <2> QED BY <2>1, <2>4, VisaRead
<1>7. ASSUME NEW r \in Slots, NEW t \in Required, VisaItem(r, t) PROVE VisaInv'
  <2> DEFINE v == Args(r)[1]
             left == {u \in Required : checklist[v][u] = "ABSENT"} \ {t}
             done == left = {}
  <2>1. v \in Visas /\ VisaExists(v)
    BY <1>0, <1>7 DEF VisaItem, VisaHeld, At
  <2>2. PICK rows, next : Put(r, rows, next) /\ next = (IF left = {} THEN Idle ELSE serving[r])
    BY <1>7 DEF VisaItem
  <2>3. Slot(next)
    BY <1>0, <2>2 DEF Slot, Idle, Shape
  <2>4. Others(r) /\ serving'[r] = next
    BY <1>0, <2>2, <2>3, WriteOthers
  <2>5. visas' = [visas EXCEPT ![v].complete = done] /\ done \in BOOLEAN
    BY <1>7 DEF VisaItem
  <2> HIDE DEF done, left
  <2>6. VisaRowsOK' /\ VisasGrow
    BY <1>0, <2>1, <2>5 DEF VisaRowsOK, VisasGrow, VisaExists, VisaRow
  <2>7. VisaHeld(r)'
    <3>1. CASE left = {}
      BY <2>2, <2>4, <3>1 DEF VisaHeld, Idle
    <3>2. CASE left # {}
      <4>1. serving'[r] = serving[r] /\ serving[r].step = "visa.items"
        BY <1>7, <2>2, <2>4, <3>2 DEF VisaItem, At
      <4>2. visas'[v].status # "ABSENT"
        BY <2>1, <2>6 DEF VisasGrow
      <4> QED BY <2>1, <4>1, <4>2 DEF VisaHeld, VisaExists, Args
    <3> QED BY <3>1, <3>2
  <2> QED BY <2>4, <2>6, <2>7, VisaKept
<1>8. ASSUME NEW r \in Slots, VisaChecklistRead(r) PROVE VisaInv'
  <2>1. /\ Others(r) /\ serving'[r].step = "visa.write" /\ serving'[r].args = serving[r].args
        /\ serving[r].step = "visa.ready" /\ UNCHANGED visaRows
    BY <1>0, <1>8 DEF VisaChecklistRead, Continue, Others, Keeps, Shape, Slot, At, Args
  <2>2. VisaHeld(r)'
    BY <1>0, <2>1 DEF VisaHeld, VisaExists, Args, visaRows
  <2> QED BY <2>1, <2>2, VisaRead
<1>9. ASSUME NEW r \in Slots, VisaWrite(r) PROVE VisaInv'
  <2> DEFINE v == Args(r)[1]
             status == Args(r)[2]
  <2>1. /\ v \in Visas /\ VisaExists(v) /\ status \in VisaStatus
        /\ status \in Results => visas[v].submitted = TRUE
    BY <1>0, <1>9 DEF VisaWrite, VisaHeld, At
  <2>2. PICK rows, next :
          /\ Write(r, rows, next)
          /\ next = IF status = "GRANTED"
                    THEN [Idle EXCEPT !.step = "generation", !.args = GenerationOf(v, "VISA_GRANTED")] ELSE Idle
    BY <1>9 DEF VisaWrite, SetVisa
  <2>3. Slot(next) /\ next.step \in {"idle", "generation"}
    BY <2>2 DEF Slot, Idle
  <2>4. Others(r) /\ serving'[r] = next
    BY <1>0, <2>2, <2>3, WriteOthers
  <2>5. PICK row : row = [visas[v] EXCEPT !.status = status, !.submitted = @ \/ status = "SUBMITTED"]
    OBVIOUS
  <2>6. visas' = [visas EXCEPT ![v] = row]
    BY <1>9, <2>5 DEF VisaWrite, SetVisa
  <2>7. visas[v] \in VisaRow
    BY <1>0, <2>1 DEF VisaRowsOK
  <2>8. /\ row \in VisaRow /\ row.status = status
        /\ row.submitted = TRUE <=> visas[v].submitted = TRUE \/ status = "SUBMITTED"
    <3>1. PICK old \in VisaRow, new \in VisaStatus : old = visas[v] /\ new = status
      BY <2>1, <2>7
    <3>2. row = [old EXCEPT !.status = new, !.submitted = @ \/ new = "SUBMITTED"]
      BY <2>5, <3>1
    <3>3. row \in VisaRow /\ row.status = new /\ (row.submitted = TRUE <=> old.submitted = TRUE \/ new = "SUBMITTED")
      <4>1. (old.submitted \/ new = "SUBMITTED") \in BOOLEAN
        OBVIOUS
      <4> QED BY <3>2, <4>1 DEF VisaRow
    <3> QED BY <3>1, <3>3
  <2>9. status # "ABSENT"
    BY <2>1 DEF VisaStatus
  <2>10. VisaRowsOK' /\ VisasGrow
    BY <2>1, <2>6, <2>8, <2>9, VisaRowSet
  <2>11. VisaHeld(r)'
    BY <2>3, <2>4, VisaElsewhere
  <2> QED BY <2>4, <2>10, <2>11, VisaKept
<1>10. ASSUME NEW r \in Slots, GenerationNext(r) \/ Generate(r), UNCHANGED visaRows PROVE VisaInv'
  <2>1. Others(r) /\ serving'[r].step \in {"idle", "generation", "generation.create"}
    BY <1>0, <1>10, GenerationOthers
  <2> QED BY <1>10, <2>1, VisaRead, VisaElsewhere
<1>11. ASSUME NEW r \in Slots, Dies(r), UNCHANGED visaRows PROVE VisaInv'
  <2>1. Others(r) /\ serving'[r] = Idle
    BY <1>0, <1>11, ReturnOthers DEF Dies
  <2>2. VisaHeld(r)'
    BY <2>1 DEF VisaHeld, Idle
  <2> QED BY <1>11, <2>1, <2>2, VisaRead
<1>12. CASE UNCHANGED visaVars
  BY <1>12 DEF visaVars, visaRows, handlerVars, VisaInv, VisaRowsOK, VisaHeld, VisaExists, Args, Shape, Slot
<1> QED BY <1>1, <1>2, <1>3, <1>4, <1>5, <1>6, <1>7, <1>8, <1>9, <1>10, <1>11, <1>12 DEF VisaNext

\* No visa has an appointment, an interview or a result without a submission on record,
\* whatever requests overlap: for any number of visas, templates and requests.
THEOREM ResultsWereSubmitted == VisaSpec => []ResultWasSubmitted
<1>1. VisaSpec => []VisaInv
  BY VisaInitInv, VisaStep, PTL DEF VisaSpec
<1>2. VisaInv => ResultWasSubmitted
  BY DEF VisaInv, VisaRowsOK, ResultWasSubmitted, Results
<1> QED BY <1>1, <1>2, PTL
-----------------------------------------------------------------------------
(* Commissions                                                              *)

CommissionStatus == {"PENDING", "ELIGIBLE", "CALCULATED", "APPROVED", "PAYABLE", "PAID", "CANCELLED"}
Calculated       == {"CALCULATED"} \cup Approved
TransactionRow   == [status : CommissionStatus \cup {"ABSENT"}, rule : Rules \cup {NoRule},
                     amount : (Rates \X Paid) \cup {NoAmount}, student : Referred \cup {NoReferral}]
LinkRow          == [status : {"ABSENT", "ACTIVE", "ARCHIVED"}, student : Referred \cup {NoReferral}]
HasAmount(t)     == transactions[t].amount # NoAmount
Recorded(t)      == transactions[t].status # "ABSENT"

\* A transaction that is to be approved has an amount, and it can only get another.
CommissionHeld(r) ==
  /\ serving[r].step \in {"commission.check", "commission.create"} => Args(r)[1] \in Rules
  /\ serving[r].step \in {"commission.check", "commission.create", "linkage.write"} => Args(r)[2] \in Referred
  /\ serving[r].step = "link.create" => Args(r)[1] \in Referred
  /\ serving[r].step \in {"linkage.write", "commission.write", "calculate.rule", "calculate.source",
                         "calculate.write"} =>
       Args(r)[1] \in Transactions /\ Recorded(Args(r)[1])
  /\ serving[r].step = "commission.write" =>
       Args(r)[2] \in CommissionStatus /\ (Args(r)[2] \in Calculated => HasAmount(Args(r)[1]))
  /\ serving[r].step = "calculate.source" => Args(r)[2] \in Rates
  /\ serving[r].step = "calculate.write" => Args(r)[2] \in Rates \X Paid

CommissionRowsOK ==
  /\ transactions \in [Transactions -> TransactionRow]
  /\ rates \in [Rules -> Rates]
  /\ paid \in Paid
  /\ links \in [Links -> LinkRow]
  /\ \A t \in Transactions :
       /\ Recorded(t) => transactions[t].rule \in Rules
       /\ HasAmount(t) => Recorded(t)
       /\ transactions[t].status \in Calculated => HasAmount(t)

CommissionInv == Shape /\ CommissionRowsOK /\ \A r \in Slots : CommissionHeld(r)

\* No request takes a transaction or its amount back.
TransactionsGrow ==
  \A t \in Transactions :
    /\ transactions[t].status # "ABSENT" => transactions'[t].status # "ABSENT"
    /\ transactions[t].amount # NoAmount => transactions'[t].amount # NoAmount

LEMMA CommissionKept ==
  ASSUME CommissionInv, TransactionsGrow, NEW r \in Slots, Others(r), CommissionRowsOK', CommissionHeld(r)'
  PROVE  CommissionInv'
<1>1. ASSUME NEW q \in Slots \ {r} PROVE CommissionHeld(q)'
  <2>1. CommissionHeld(q) /\ serving'[q].step = serving[q].step /\ serving'[q].args = serving[q].args
    BY DEF CommissionInv, Others, Keeps
  <2> QED BY <2>1 DEF CommissionHeld, Recorded, HasAmount, TransactionsGrow, Args
<1> QED BY <1>1 DEF CommissionInv, Others

LEMMA CommissionReads ==
  ASSUME CommissionInv, NEW r \in Slots, Others(r), UNCHANGED commissionRows, CommissionHeld(r)'
  PROVE  CommissionInv'
<1>1. TransactionsGrow /\ CommissionRowsOK'
  BY DEF CommissionInv, CommissionRowsOK, TransactionsGrow, Recorded, HasAmount, commissionRows
<1> QED BY <1>1, CommissionKept

\* A slot that is idle holds nothing.
LEMMA CommissionIdle ==
  ASSUME NEW r \in Slots, serving'[r].step = "idle" PROVE CommissionHeld(r)'
BY DEF CommissionHeld

LEMMA CommissionSet ==
  ASSUME CommissionInv, NEW r \in Slots, NEW t \in Transactions, NEW row \in TransactionRow, NEW rows,
         SetTransaction(r, t, row, rows), row.status # "ABSENT", row.rule \in Rules,
         transactions[t].amount # NoAmount => row.amount # NoAmount,
         row.status \in Calculated => row.amount # NoAmount
  PROVE  CommissionInv'
<1>1. \E w : Write(r, w, Idle)
  BY DEF SetTransaction
<1>2. Others(r) /\ serving'[r] = Idle
  BY <1>1, WriteOthers DEF CommissionInv, Slot, Idle
<1>3. transactions' = [transactions EXCEPT ![t] = row] /\ rates' = rates /\ paid' = paid /\ links' = links
  BY DEF SetTransaction
<1>4. CommissionRowsOK' /\ TransactionsGrow
  BY <1>3 DEF CommissionInv, CommissionRowsOK, TransactionsGrow, Recorded, HasAmount, TransactionRow
<1>5. CommissionHeld(r)'
  BY <1>2, CommissionIdle DEF Idle
<1> QED BY <1>2, <1>4, <1>5, CommissionKept

LEMMA CommissionInitInv == CommissionInit => CommissionInv
<1> SUFFICES ASSUME CommissionInit PROVE CommissionInv
  OBVIOUS
<1>1. Shape /\ \A q \in Slots : serving[q] = Idle
  BY HandlersInitShape DEF CommissionInit
<1>2. CommissionRowsOK
  BY DEF CommissionInit, NoTransaction, NoLink, CommissionRowsOK, TransactionRow, LinkRow, Recorded, HasAmount,
         Calculated, Approved
<1> QED BY <1>1, <1>2 DEF CommissionInv, CommissionHeld, Idle

LEMMA CommissionStep == CommissionInv /\ [CommissionNext]_commissionVars => CommissionInv'
<1> SUFFICES ASSUME CommissionInv, [CommissionNext]_commissionVars PROVE CommissionInv'
  OBVIOUS
<1>0. Shape /\ CommissionRowsOK /\ \A q \in Slots : CommissionHeld(q)
  BY DEF CommissionInv
<1>1. ASSUME NEW r \in Slots, NEW rule \in Rules, NEW s \in Referred, CreateLinked(r, rule, s) PROVE CommissionInv'
  <2>1. /\ Others(r) /\ UNCHANGED commissionRows
        /\ serving'[r].step = "commission.check" /\ serving'[r].args = <<rule, s>>
    BY <1>0, <1>1 DEF CreateLinked, Looks, Continue, Others, Keeps, Shape, Slot
  <2>2. CommissionHeld(r)'
    BY <2>1 DEF CommissionHeld, Args
  <2> QED BY <2>1, <2>2, CommissionReads
<1>2. ASSUME NEW r \in Slots, NEW rule \in Rules, NEW rate \in Rates, RuleUpdate(r, rule, rate)
      PROVE  CommissionInv'
  <2>1. Slot(Idle) /\ \E rows : Put(r, rows, Idle)
    BY <1>2 DEF RuleUpdate, Slot, Idle
  <2>2. Others(r) /\ serving'[r] = Idle
    BY <1>0, <2>1, WriteOthers
  <2>3. CommissionRowsOK' /\ TransactionsGrow
    BY <1>0, <1>2 DEF RuleUpdate, CommissionRowsOK, TransactionsGrow, Recorded, HasAmount
  <2>4. CommissionHeld(r)'
    BY <2>2, CommissionIdle DEF Idle
  <2> QED BY <2>2, <2>3, <2>4, CommissionKept
<1>3. ASSUME NEW r \in Slots, NEW t \in Transactions, CommissionCreate(r, t) PROVE CommissionInv'
  <2>1. Args(r)[1] \in Rules /\ Args(r)[2] \in Referred
    BY <1>0, <1>3 DEF CommissionCreate, CommissionHeld, At
  <2>2. PICK row, rows : /\ row = [status |-> "PENDING", rule |-> Args(r)[1], amount |-> NoAmount,
                                   student |-> Args(r)[2]]
                         /\ SetTransaction(r, t, row, rows)
    BY <1>3 DEF CommissionCreate
  <2>3. ~Recorded(t)
    BY <1>3 DEF CommissionCreate, Recorded
  <2>4. /\ row \in TransactionRow /\ row.status = "PENDING" /\ row.rule \in Rules
        /\ transactions[t].amount = NoAmount
    BY <1>0, <2>1, <2>2, <2>3 DEF CommissionRowsOK, TransactionRow, CommissionStatus, HasAmount
  <2> QED BY <2>2, <2>4, CommissionSet DEF Calculated, Approved
<1>4. ASSUME NEW r \in Slots, NEW t \in Transactions, CalculateRead(r, t) PROVE CommissionInv'
  <2>1. /\ Others(r) /\ UNCHANGED commissionRows
        /\ serving'[r].step = "calculate.rule" /\ serving'[r].args = <<t>>
    BY <1>0, <1>4 DEF CalculateRead, Looks, Continue, Others, Keeps, Shape, Slot
  <2>2. Recorded(t)
    BY <1>4 DEF CalculateRead, Recorded, COMMISSION_STEPS
  <2>3. CommissionHeld(r)'
    BY <2>1, <2>2 DEF CommissionHeld, Recorded, Args, commissionRows
  <2> QED BY <2>1, <2>3, CommissionReads
<1>5. ASSUME NEW r \in Slots, NEW t \in Transactions, NEW status \in DOMAIN COMMISSION_STEPS,
             CommissionRead(r, t, status)
      PROVE  CommissionInv'
  <2>1. /\ Others(r) /\ UNCHANGED commissionRows
        /\ serving'[r].step = "commission.write" /\ serving'[r].args = <<t, status>>
    BY <1>0, <1>5 DEF CommissionRead, Looks, Continue, Others, Keeps, Shape, Slot
  <2>2. transactions[t].status \in CommissionStatus \cup {"ABSENT"}
    BY <1>0 DEF CommissionRowsOK, TransactionRow
  <2>3. /\ Recorded(t) /\ status \in CommissionStatus
        /\ status \in Calculated => transactions[t].status \in Calculated
    BY <1>5, <2>2 DEF CommissionRead, Recorded, COMMISSION_STEPS, CommissionStatus, Calculated, Approved
  <2>4. status \in Calculated => HasAmount(t)
    BY <1>0, <2>3 DEF CommissionRowsOK
  <2>5. CommissionHeld(r)'
    BY <2>1, <2>3, <2>4 DEF CommissionHeld, Recorded, HasAmount, Args, commissionRows
  <2> QED BY <2>1, <2>5, CommissionReads
<1>6. ASSUME NEW r \in Slots, CreateCheck(r) PROVE CommissionInv'
  <2>1. /\ Others(r) /\ UNCHANGED commissionRows /\ Args(r)[1] \in Rules /\ Args(r)[2] \in Referred
        /\ serving'[r].step = "commission.create" /\ serving'[r].args = Args(r)
    BY <1>0, <1>6 DEF CreateCheck, Looks, Continue, Others, Keeps, Shape, Slot, CommissionHeld, At
  <2>2. CommissionHeld(r)'
    BY <2>1 DEF CommissionHeld, Args
  <2> QED BY <2>1, <2>2, CommissionReads
<1>7. ASSUME NEW r \in Slots, CommissionWrite(r) PROVE CommissionInv'
  <2> DEFINE t == Args(r)[1]
             status == Args(r)[2]
  <2>1. /\ t \in Transactions /\ Recorded(t) /\ status \in CommissionStatus
        /\ status \in Calculated => HasAmount(t)
    BY <1>0, <1>7 DEF CommissionWrite, CommissionHeld, At
  <2>2. PICK row, rows : row = [transactions[t] EXCEPT !.status = status] /\ SetTransaction(r, t, row, rows)
    BY <1>7 DEF CommissionWrite
  <2>3. /\ row \in TransactionRow /\ row.status = status /\ row.rule \in Rules
        /\ row.amount = transactions[t].amount
    BY <1>0, <2>1, <2>2 DEF CommissionRowsOK, TransactionRow
  <2>4. PICK tt \in Transactions : tt = t
    BY <2>1
  <2>5. status # "ABSENT" /\ (row.status \in Calculated => row.amount # NoAmount)
    BY <2>1, <2>3 DEF CommissionStatus, HasAmount
  <2> QED BY <2>2, <2>3, <2>4, <2>5, CommissionSet
<1>8. ASSUME NEW r \in Slots, CalculateRule(r) PROVE CommissionInv'
  <2> DEFINE t == Args(r)[1]
             rate == rates[transactions[t].rule]
  <2>1. t \in Transactions /\ Recorded(t)
    BY <1>0, <1>8 DEF CalculateRule, CommissionHeld, At
  <2>2. rate \in Rates
    BY <1>0, <2>1 DEF CommissionRowsOK
  <2>3. /\ Others(r) /\ UNCHANGED commissionRows
        /\ serving'[r].step = "calculate.source" /\ serving'[r].args = <<t, rate>>
    BY <1>0, <1>8 DEF CalculateRule, Looks, Continue, Others, Keeps, Shape, Slot
  <2>4. CommissionHeld(r)'
    BY <2>1, <2>2, <2>3 DEF CommissionHeld, Recorded, Args, commissionRows
  <2> QED BY <2>3, <2>4, CommissionReads
<1>9. ASSUME NEW r \in Slots, CalculateSource(r) PROVE CommissionInv'
  <2> DEFINE t == Args(r)[1]
             amount == <<Args(r)[2], paid>>
  <2>1. t \in Transactions /\ Recorded(t) /\ amount \in Rates \X Paid
    BY <1>0, <1>9 DEF CalculateSource, CommissionHeld, CommissionRowsOK, At
  <2>2. /\ Others(r) /\ UNCHANGED commissionRows
        /\ serving'[r].step = "calculate.write" /\ serving'[r].args = <<t, amount>>
    BY <1>0, <1>9 DEF CalculateSource, Looks, Continue, Others, Keeps, Shape, Slot
  <2>3. CommissionHeld(r)'
    BY <2>1, <2>2 DEF CommissionHeld, Recorded, Args, commissionRows
  <2> QED BY <2>2, <2>3, CommissionReads
<1>10. ASSUME NEW r \in Slots, CalculateWrite(r) PROVE CommissionInv'
  <2> DEFINE t == Args(r)[1]
  <2>1. t \in Transactions /\ Recorded(t) /\ Args(r)[2] \in Rates \X Paid
    BY <1>0, <1>10 DEF CalculateWrite, CommissionHeld, At
  <2>2. PICK row, rows : /\ row = [transactions[t] EXCEPT !.status = "CALCULATED", !.amount = Args(r)[2]]
                         /\ SetTransaction(r, t, row, rows)
    BY <1>10 DEF CalculateWrite
  <2>3. /\ row \in TransactionRow /\ row.status = "CALCULATED" /\ row.rule \in Rules
        /\ row.amount \in Rates \X Paid
    BY <1>0, <2>1, <2>2 DEF CommissionRowsOK, TransactionRow, CommissionStatus
  <2>4. PICK tt \in Transactions : tt = t
    BY <2>1
  <2>5. row.amount # NoAmount
    BY <2>3, AmountAssumption
  <2> QED BY <2>2, <2>3, <2>4, <2>5, CommissionSet
<1>11. ASSUME NEW r \in Slots, NEW amount \in Paid, PaidChanges(r, amount) PROVE CommissionInv'
  <2>1. Slot(Idle) /\ \E rows : Put(r, rows, Idle)
    BY <1>11 DEF PaidChanges, Slot, Idle
  <2>2. Others(r) /\ serving'[r] = Idle
    BY <1>0, <2>1, WriteOthers
  <2>3. CommissionRowsOK' /\ TransactionsGrow
    BY <1>0, <1>11 DEF PaidChanges, CommissionRowsOK, TransactionsGrow, Recorded, HasAmount
  <2>4. CommissionHeld(r)'
    BY <2>2, CommissionIdle DEF Idle
  <2> QED BY <2>2, <2>3, <2>4, CommissionKept
<1>12. ASSUME NEW r \in Slots, NEW s \in Referred, LinkCreateRead(r, s) PROVE CommissionInv'
  <2>1. /\ Others(r) /\ UNCHANGED commissionRows
        /\ serving'[r].step = "link.create" /\ serving'[r].args = <<s>>
    BY <1>0, <1>12 DEF LinkCreateRead, Looks, Continue, Others, Keeps, Shape, Slot
  <2>2. CommissionHeld(r)'
    BY <2>1 DEF CommissionHeld, Args
  <2> QED BY <2>1, <2>2, CommissionReads
<1>13. ASSUME NEW r \in Slots, NEW k \in Links, LinkCreate(r, k) \/ LinkArchive(r, k) PROVE CommissionInv'
  <2>1. Slot(Idle) /\ \E rows : Write(r, rows, Idle) \/ Put(r, rows, Idle)
    BY <1>13 DEF LinkCreate, LinkArchive, Slot, Idle
  <2>2. Others(r) /\ serving'[r] = Idle
    BY <1>0, <2>1, WriteOthers
  <2>3. UNCHANGED <<transactions, rates, paid>>
    BY <1>13 DEF LinkCreate, LinkArchive
  <2>a. links' \in [Links -> LinkRow]
    <3>1. CASE LinkCreate(r, k)
      <4>1. Args(r)[1] \in Referred
        BY <1>0, <3>1 DEF LinkCreate, CommissionHeld, At
      <4> QED BY <1>0, <3>1, <4>1 DEF LinkCreate, CommissionRowsOK, LinkRow
    <3>2. CASE LinkArchive(r, k)
      BY <1>0, <3>2 DEF LinkArchive, CommissionRowsOK, LinkRow
    <3> QED BY <1>13, <3>1, <3>2
  <2>4. CommissionRowsOK' /\ TransactionsGrow
    BY <1>0, <2>3, <2>a DEF CommissionRowsOK, TransactionsGrow, Recorded, HasAmount
  <2>5. CommissionHeld(r)'
    BY <2>2, CommissionIdle DEF Idle
  <2> QED BY <2>2, <2>4, <2>5, CommissionKept
<1>14. ASSUME NEW r \in Slots, Dies(r), UNCHANGED commissionRows PROVE CommissionInv'
  <2>1. Others(r) /\ serving'[r] = Idle
    BY <1>0, <1>14, ReturnOthers DEF Dies
  <2>2. CommissionHeld(r)'
    BY <2>1, CommissionIdle DEF Idle
  <2> QED BY <1>14, <2>1, <2>2, CommissionReads
<1>15. CASE UNCHANGED commissionVars
  BY <1>15 DEF commissionVars, commissionRows, handlerVars, CommissionInv, CommissionRowsOK, CommissionHeld,
               Recorded, HasAmount, Args, Shape, Slot
<1>16. ASSUME NEW r \in Slots, NEW t \in Transactions, NEW s \in Referred, LinkageRead(r, t, s)
       PROVE  CommissionInv'
  <2>1. /\ Others(r) /\ UNCHANGED commissionRows
        /\ serving'[r].step = "linkage.write" /\ serving'[r].args = <<t, s>>
    BY <1>0, <1>16 DEF LinkageRead, Looks, Continue, Others, Keeps, Shape, Slot
  <2>2. Recorded(t)
    BY <1>16 DEF LinkageRead, Recorded
  <2>3. CommissionHeld(r)'
    BY <2>1, <2>2 DEF CommissionHeld, Recorded, Args, commissionRows
  <2> QED BY <2>1, <2>3, CommissionReads
<1>17. ASSUME NEW r \in Slots, LinkageWrite(r) PROVE CommissionInv'
  <2>1. Args(r)[1] \in Transactions /\ Recorded(Args(r)[1]) /\ Args(r)[2] \in Referred
    BY <1>0, <1>17 DEF LinkageWrite, CommissionHeld, At
  <2>2. PICK t \in Transactions, s \in Referred : t = Args(r)[1] /\ s = Args(r)[2]
    BY <2>1
  <2>3. PICK row, rows : row = [transactions[t] EXCEPT !.student = s] /\ SetTransaction(r, t, row, rows)
    BY <1>17, <2>2 DEF LinkageWrite
  <2>4. /\ row \in TransactionRow /\ row.status = transactions[t].status /\ row.rule \in Rules
        /\ row.amount = transactions[t].amount
    BY <1>0, <2>1, <2>2, <2>3 DEF CommissionRowsOK, TransactionRow
  <2>5. row.status # "ABSENT" /\ (row.status \in Calculated => row.amount # NoAmount)
    BY <1>0, <2>1, <2>2, <2>4 DEF CommissionRowsOK, Recorded, HasAmount
  <2> QED BY <2>3, <2>4, <2>5, CommissionSet
<1> QED BY <1>1, <1>2, <1>3, <1>4, <1>5, <1>6, <1>7, <1>8, <1>9, <1>10, <1>11, <1>12, <1>13, <1>14, <1>15, <1>16,
           <1>17 DEF CommissionNext

\* Nothing is approved, payable or paid that was never calculated, whatever overlaps:
\* for any number of transactions, rules and requests.
THEOREM PaidAmountsWereCalculated == CommissionSpec => []PaidWasCalculated
<1>1. CommissionSpec => []CommissionInv
  BY CommissionInitInv, CommissionStep, PTL DEF CommissionSpec
<1>2. CommissionInv => PaidWasCalculated
  BY DEF CommissionInv, CommissionRowsOK, PaidWasCalculated, Calculated, HasAmount
<1> QED BY <1>1, <1>2, PTL
-----------------------------------------------------------------------------
(* Leads, students and cases                                                *)

LeadRow    == [status : LeadStatus \cup {"ABSENT"}, student : Students \cup {NoOne}]
StudentRow == [status : {"ABSENT", "LIVE", "ARCHIVED"}, person : {Person[l] : l \in Leads} \cup {NoOne}, asked : BOOLEAN]
CaseRow    == [status : {"ABSENT", "OPEN", "CLOSED"}, student : Students \cup {NoOne}, owner : Users \cup {NoOne}]
Enrolled(s) == students[s].status # "ABSENT"
HasCase(s)  == \E k \in Cases : cases[k].status # "ABSENT" /\ cases[k].student = s

\* A conversion holds a student who is there, and one whose case it is to use again
\* has a case, open or not by now.
FileHeld(r) ==
  /\ serving[r].step = "lead.status" => Args(r)[2] \in LeadStatus \ {"CONVERTED"}
  /\ serving[r].step \in {"convert.match", "convert.student", "convert.case", "convert.open", "convert.reuse"} =>
       Args(r)[1] \in Leads
  /\ serving[r].step = "convert.student" => Args(r)[3] \in BOOLEAN
  /\ serving[r].step \in {"convert.case", "convert.open", "convert.reuse"} =>
       Args(r)[2] \in Students /\ Enrolled(Args(r)[2])
  /\ serving[r].step = "convert.reuse" => HasCase(Args(r)[2])
  /\ serving[r].step \in {"case.check", "case.open"} => Args(r)[1] \in Students
  /\ serving[r].step \in {"case.check", "case.open", "owner.commit"} => Args(r)[2] \in Users

FileRowsOK ==
  /\ leads \in [Leads -> LeadRow]
  /\ students \in [Students -> StudentRow]
  /\ cases \in [Cases -> CaseRow]
  /\ ConvertedHasCase

FileInv == Shape /\ FileRowsOK /\ GenerationInv /\ \A r \in Slots : FileHeld(r)

\* No request takes a student or a case back, or hands a case to another student.
FileGrows ==
  /\ \A s \in Students : students[s].status # "ABSENT" => students'[s].status # "ABSENT"
  /\ \A k \in Cases : cases[k].status # "ABSENT" =>
       cases'[k].status # "ABSENT" /\ cases'[k].student = cases[k].student

LEMMA FileKept ==
  ASSUME FileInv, FileGrows, NEW r \in Slots, Others(r), FileRowsOK', GenerationInv', FileHeld(r)'
  PROVE  FileInv'
<1>1. ASSUME NEW q \in Slots \ {r} PROVE FileHeld(q)'
  <2>1. FileHeld(q) /\ serving'[q].step = serving[q].step /\ serving'[q].args = serving[q].args
    BY DEF FileInv, Others, Keeps
  <2>2. Args(q)' = Args(q)
    BY <2>1 DEF Args
  <2>3. HasCase(Args(q)[2]) => \E k \in Cases : cases'[k].status # "ABSENT" /\ cases'[k].student = Args(q)[2]
    BY DEF FileGrows, HasCase
  <2> QED BY <2>1, <2>2, <2>3 DEF FileHeld, Enrolled, HasCase, FileGrows
<1> QED BY <1>1 DEF FileInv, Others

\* A request that writes none of the rows, or a lead, a student or a case.
LEMMA FileReads ==
  ASSUME FileInv, UNCHANGED <<leads, students, cases>> PROVE FileGrows /\ FileRowsOK'
BY DEF FileInv, FileRowsOK, FileGrows, ConvertedHasCase

LEMMA FileLead ==
  ASSUME FileInv, NEW l \in Leads, NEW row \in LeadRow, leads' = [leads EXCEPT ![l] = row],
         row.status = "CONVERTED" =>
           /\ row.student \in Students /\ students'[row.student].status # "ABSENT"
           /\ \E j \in Cases : cases'[j].status # "ABSENT" /\ cases'[j].student = row.student,
         FileGrows, students' \in [Students -> StudentRow], cases' \in [Cases -> CaseRow]
  PROVE  FileRowsOK'
<1>1. leads' \in [Leads -> LeadRow]
  BY DEF FileInv, FileRowsOK
<1>2. ASSUME NEW k \in Leads, leads'[k].status = "CONVERTED"
      PROVE  /\ leads'[k].student \in Students /\ students'[leads'[k].student].status # "ABSENT"
             /\ \E j \in Cases : cases'[j].status # "ABSENT" /\ cases'[j].student = leads'[k].student
  <2>1. CASE k = l
    <3>1. leads'[k] = row
      BY <2>1 DEF FileInv, FileRowsOK
    <3> QED BY <1>2, <3>1
  <2>2. CASE k # l
    <3>1. leads'[k] = leads[k]
      BY <2>2 DEF FileInv, FileRowsOK
    <3>2. leads[k].student \in Students /\ students[leads[k].student].status # "ABSENT"
      BY <1>2, <3>1 DEF FileInv, FileRowsOK, ConvertedHasCase
    <3>3. PICK j \in Cases : cases[j].status # "ABSENT" /\ cases[j].student = leads[k].student
      BY <1>2, <3>1 DEF FileInv, FileRowsOK, ConvertedHasCase
    <3>4. students'[leads[k].student].status # "ABSENT"
      BY <3>2 DEF FileGrows
    <3>5. cases'[j].status # "ABSENT" /\ cases'[j].student = leads[k].student
      BY <3>3 DEF FileGrows
    <3> QED BY <3>1, <3>2, <3>4, <3>5
  <2> QED BY <2>1, <2>2
<1> QED BY <1>1, <1>2 DEF FileRowsOK, ConvertedHasCase

LEMMA FileRecords ==
  ASSUME FileInv, leads' = leads, FileGrows, students' \in [Students -> StudentRow], cases' \in [Cases -> CaseRow]
  PROVE  FileRowsOK'
<1>1. ASSUME NEW k \in Leads, leads[k].status = "CONVERTED"
      PROVE  /\ leads[k].student \in Students /\ students'[leads[k].student].status # "ABSENT"
             /\ \E j \in Cases : cases'[j].status # "ABSENT" /\ cases'[j].student = leads[k].student
  BY <1>1 DEF FileInv, FileRowsOK, ConvertedHasCase, FileGrows
<1> QED BY <1>1 DEF FileInv, FileRowsOK, ConvertedHasCase

\* A slot that is at a step of no interest here.
LEMMA FileElsewhere ==
  ASSUME NEW r \in Slots, serving'[r].step \in {"idle", "case.member", "generation", "generation.create"}
  PROVE  FileHeld(r)'
BY DEF FileHeld

LEMMA FileInitInv == FileInit => FileInv
<1> SUFFICES ASSUME FileInit PROVE FileInv
  OBVIOUS
<1>1. Shape /\ \A q \in Slots : serving[q] = Idle
  BY HandlersInitShape DEF FileInit
<1>2. FileRowsOK
  BY DEF FileInit, NoLead, NoStudent, NoCase, FileRowsOK, LeadRow, StudentRow, CaseRow, ConvertedHasCase
<1>3. GenerationIsComplete
  BY DEF FileInit, GenerationInit, GenerationIsComplete
<1> QED BY <1>1, <1>2, <1>3 DEF FileInv, FileHeld, GenerationInv, GenerationHeld, Idle

\* The requests that work on leads.
LEMMA LeadStep ==
  ASSUME FileInv, NEW r \in Slots, LeadNext(r) PROVE FileInv'
<1>0. Shape /\ FileRowsOK /\ GenerationInv /\ \A q \in Slots : FileHeld(q)
  BY DEF FileInv
<1>1. ASSUME NEW l \in Leads, CreateLead(r, l) PROVE FileInv'
  <2>1. Slot(Idle) /\ \E rows : Put(r, rows, Idle)
    BY <1>1 DEF CreateLead, Slot, Idle
  <2>2. Others(r) /\ serving'[r] = Idle
    BY <1>0, <2>1, WriteOthers
  <2>3. PICK row : row = [leads[l] EXCEPT !.status = "NEW"]
    OBVIOUS
  <2>4. /\ leads' = [leads EXCEPT ![l] = row] /\ students' = students /\ cases' = cases
        /\ UNCHANGED generationRows
    BY <1>1, <2>3 DEF CreateLead
  <2>5. row \in LeadRow /\ row.status = "NEW"
    BY <1>0, <2>3 DEF FileRowsOK, LeadRow, LeadStatus
  <2>6. FileGrows
    BY <2>4 DEF FileGrows
  <2>7. FileRowsOK'
    BY <1>0, <2>4, <2>5, <2>6, FileLead DEF FileRowsOK
  <2>8. FileHeld(r)' /\ GenerationHeld(r)'
    BY <2>2, FileElsewhere, GenerationElsewhere DEF Idle
  <2>9. GenerationInv'
    BY <1>0, <2>2, <2>4, <2>8, GenerationKept
  <2> QED BY <2>2, <2>6, <2>7, <2>8, <2>9, FileKept
<1>2. ASSUME NEW l \in Leads, NEW status \in LeadStatus, LeadStatusRead(r, l, status) PROVE FileInv'
  <2>1. /\ Others(r) /\ UNCHANGED <<fileRows, generationRows>>
        /\ serving'[r].step = "lead.status" /\ serving'[r].args = <<l, status>>
    BY <1>0, <1>2 DEF LeadStatusRead, Continue, Others, Keeps, Shape, Slot
  <2>2. leads[l].status \in LeadStatus /\ status \in LEAD_TRANSITIONS[leads[l].status]
    BY <1>0, <1>2 DEF LeadStatusRead, FileRowsOK, LeadRow
  <2>3. \A st \in LeadStatus : "CONVERTED" \notin LEAD_TRANSITIONS[st]
    BY DEF LEAD_TRANSITIONS, LeadStatus
  <2>4. FileHeld(r)' /\ GenerationHeld(r)'
    BY <2>1, <2>2, <2>3, GenerationElsewhere DEF FileHeld, Args
  <2> QED BY <1>0, <2>1, <2>4, FileReads, GenerationKept, FileKept DEF fileRows
<1>3. ASSUME NEW l \in Leads, NEW choice, NEW target, ConvertRead(r, l, choice, target) PROVE FileInv'
  <2>1. /\ Others(r) /\ UNCHANGED <<fileRows, generationRows>>
        /\ serving'[r].step = "convert.match" /\ serving'[r].args = <<l, choice, target>>
    BY <1>0, <1>3 DEF ConvertRead, Continue, Others, Keeps, Shape, Slot
  <2>2. FileHeld(r)' /\ GenerationHeld(r)'
    BY <2>1, GenerationElsewhere DEF FileHeld, Args
  <2> QED BY <1>0, <2>1, <2>2, FileReads, GenerationKept, FileKept DEF fileRows
<1>4. ASSUME LeadStatusWrite(r) PROVE FileInv'
  <2> DEFINE l == Args(r)[1]
  <2>1. Slot(Idle) /\ (\E rows : Write(r, rows, Idle)) /\ serving[r].step = "lead.status"
    BY <1>4 DEF LeadStatusWrite, At, Slot, Idle
  <2>2. Others(r) /\ serving'[r] = Idle
    BY <1>0, <2>1, WriteOthers
  <2>3. /\ leads' = [leads EXCEPT ![l].status = Args(r)[2]] /\ students' = students /\ cases' = cases
        /\ UNCHANGED generationRows
    BY <1>4 DEF LeadStatusWrite
  <2>4. Args(r)[2] \in LeadStatus /\ Args(r)[2] # "CONVERTED"
    BY <1>0, <2>1 DEF FileHeld
  <2>5. FileGrows /\ FileRowsOK'
    BY <1>0, <2>3, <2>4 DEF FileGrows, FileRowsOK, ConvertedHasCase, LeadRow
  <2>6. FileHeld(r)' /\ GenerationHeld(r)'
    BY <2>2, FileElsewhere, GenerationElsewhere DEF Idle
  <2> QED BY <1>0, <2>2, <2>3, <2>5, <2>6, GenerationKept, FileKept
<1>5. ASSUME ConvertMatch(r) PROVE FileInv'
  <2> DEFINE l == Args(r)[1]
             choice == Args(r)[2]
             target == Args(r)[3]
             asked == choice = "CREATE_NEW"
  <2>1. /\ Others(r) /\ UNCHANGED <<fileRows, generationRows>> /\ serving[r].step = "convert.match"
        /\ serving'[r].step = IF choice = "MERGE" THEN "convert.case" ELSE "convert.student"
        /\ serving'[r].args = <<l, target, asked>>
    BY <1>0, <1>5 DEF ConvertMatch, Continue, Others, Keeps, Shape, Slot, At
  <2>2. choice = "MERGE" => target \in Students /\ Enrolled(target)
    BY <1>5 DEF ConvertMatch, Candidates, Enrolled
  <2>3. l \in Leads /\ asked \in BOOLEAN
    BY <1>0, <2>1 DEF FileHeld
  <2> HIDE DEF asked
  <2>4. FileHeld(r)' /\ GenerationHeld(r)'
    BY <2>1, <2>2, <2>3, GenerationElsewhere DEF FileHeld, Enrolled, Args, fileRows
  <2> QED BY <1>0, <2>1, <2>4, FileReads, GenerationKept, FileKept DEF fileRows
<1>6. ASSUME ConvertCase(r) PROVE FileInv'
  <2> DEFINE s == Args(r)[2]
  <2>1. /\ Others(r) /\ UNCHANGED <<fileRows, generationRows>> /\ serving[r].step = "convert.case"
        /\ serving'[r].step = IF OpenCases(s) = {} THEN "convert.open" ELSE "convert.reuse"
        /\ serving'[r].args = serving[r].args
    BY <1>0, <1>6 DEF ConvertCase, Continue, Others, Keeps, Shape, Slot, At, Args
  <2>2. OpenCases(s) # {} => HasCase(s)
    BY DEF OpenCases, HasCase
  <2>3. FileHeld(r)' /\ GenerationHeld(r)'
    BY <1>0, <2>1, <2>2, GenerationElsewhere DEF FileHeld, Enrolled, HasCase, Args, fileRows
  <2> QED BY <1>0, <2>1, <2>3, FileReads, GenerationKept, FileKept DEF fileRows
<1>7. ASSUME ConvertReuse(r) PROVE FileInv'
  <2> DEFINE l == Args(r)[1]
             s == Args(r)[2]
  <2>1. Slot(Idle) /\ (\E rows : Write(r, rows, Idle)) /\ serving[r].step = "convert.reuse"
    BY <1>7 DEF ConvertReuse, At, Slot, Idle
  <2>2. Others(r) /\ serving'[r] = Idle
    BY <1>0, <2>1, WriteOthers
  <2>3. l \in Leads /\ s \in Students /\ Enrolled(s) /\ HasCase(s)
    BY <1>0, <2>1 DEF FileHeld
  <2>a. PICK ll \in Leads : ll = l
    BY <2>3
  <2>4. PICK row : row = [status |-> "CONVERTED", student |-> s]
    OBVIOUS
  <2>5. /\ leads' = [leads EXCEPT ![ll] = row] /\ students' = students /\ cases' = cases
        /\ UNCHANGED generationRows
    BY <1>7, <2>a, <2>4 DEF ConvertReuse, Convert
  <2>6. row \in LeadRow /\ row.student = s
    BY <2>3, <2>4 DEF LeadRow, LeadStatus
  <2>7. FileGrows
    BY <2>5 DEF FileGrows
  <2>8. FileRowsOK'
    BY <1>0, <2>3, <2>5, <2>6, <2>7, FileLead DEF FileRowsOK, Enrolled, HasCase
  <2>9. FileHeld(r)' /\ GenerationHeld(r)'
    BY <2>2, FileElsewhere, GenerationElsewhere DEF Idle
  <2> QED BY <1>0, <2>2, <2>5, <2>7, <2>8, <2>9, GenerationKept, FileKept
<1>8. ASSUME NEW s \in Students, ConvertStudent(r, s) PROVE FileInv'
  <2> DEFINE l == Args(r)[1]
             next == [serving[r] EXCEPT !.step = "convert.case", !.args = <<l, s, FALSE>>]
  <2>1. l \in Leads /\ Args(r)[3] \in BOOLEAN
    BY <1>0, <1>8 DEF ConvertStudent, At, FileHeld
  <2>2. PICK nx, rows : nx = next /\ Write(r, rows, nx)
    BY <1>8 DEF ConvertStudent
  <2>3. Slot(nx) /\ nx.step = "convert.case" /\ nx.args = <<l, s, FALSE>>
    <3>1. PICK h, a : h = serving[r] /\ a = <<l, s, FALSE>>
      OBVIOUS
    <3>2. Slot(h)
      BY <1>0, <3>1 DEF Shape, Slot
    <3>3. nx = [h EXCEPT !.step = "convert.case", !.args = a]
      BY <2>2, <3>1
    <3>a. PICK b, c, o, t : b = h.step /\ c = h.args /\ o = h.on /\ t = h.stale
      OBVIOUS
    <3>b. h = [step |-> b, args |-> c, on |-> o, stale |-> t]
      BY <3>2, <3>a DEF Slot
    <3>c. nx = [step |-> "convert.case", args |-> a, on |-> o, stale |-> t]
      BY <3>3, <3>b
    <3>4. Slot(nx) /\ nx.step = "convert.case" /\ nx.args = a
      BY <3>c DEF Slot
    <3> QED BY <3>1, <3>4
  <2>4. Others(r) /\ serving'[r] = nx
    BY <1>0, <2>2, <2>3, WriteOthers
  <2>5. /\ students' = [students EXCEPT ![s] = [status |-> "LIVE", person |-> Person[l], asked |-> Args(r)[3]]]
        /\ leads' = leads /\ cases' = cases /\ UNCHANGED generationRows
    BY <1>8 DEF ConvertStudent
  <2>6. students' \in [Students -> StudentRow] /\ students'[s].status = "LIVE"
    BY <1>0, <2>1, <2>5 DEF FileRowsOK, StudentRow
  <2>7. FileGrows
    BY <1>0, <2>5 DEF FileGrows, FileRowsOK
  <2>8. FileRowsOK'
    BY <1>0, <2>5, <2>6, <2>7, FileRecords DEF FileRowsOK
  <2>9. FileHeld(r)' /\ GenerationHeld(r)'
    BY <2>1, <2>3, <2>4, <2>6, GenerationElsewhere DEF FileHeld, Enrolled, Args
  <2> QED BY <1>0, <2>4, <2>5, <2>7, <2>8, <2>9, GenerationKept, FileKept
<1>9. ASSUME NEW k \in Cases, NEW u \in Users, ConvertOpen(r, k, u) PROVE FileInv'
  <2> DEFINE l == Args(r)[1]
             s == Args(r)[2]
             next == [Idle EXCEPT !.step = "case.member", !.args = <<k, u>>]
  <2>1. Slot(next) /\ (\E rows : Write(r, rows, next)) /\ serving[r].step = "convert.open"
    <3>1. Slot(next)
      BY IdleSlot, SlotAt
    <3>2. Write(r, {CaseQuery(s)} \cup {l}, next) /\ serving[r].step = "convert.open"
      BY <1>9 DEF ConvertOpen, OpenCase, At
    <3> QED BY <3>1, <3>2
  <2>2. Others(r) /\ serving'[r] = next
    BY <1>0, <2>1, WriteOthers
  <2>3. l \in Leads /\ s \in Students /\ Enrolled(s)
    BY <1>0, <2>1 DEF FileHeld
  <2>a. PICK ll \in Leads : ll = l
    BY <2>3
  <2>4. PICK row : row = [status |-> "CONVERTED", student |-> s]
    OBVIOUS
  <2>5. /\ leads' = [leads EXCEPT ![ll] = row] /\ students' = students /\ cases[k].status = "ABSENT"
        /\ cases' = [cases EXCEPT ![k] = [status |-> "OPEN", student |-> s, owner |-> u]]
        /\ UNCHANGED generationRows
    BY <1>9, <2>a, <2>4 DEF ConvertOpen, OpenCase, Convert
  <2>6. row \in LeadRow /\ row.student = s
    BY <2>3, <2>4 DEF LeadRow, LeadStatus
  <2>7. /\ cases' \in [Cases -> CaseRow] /\ FileGrows
        /\ cases'[k].status = "OPEN" /\ cases'[k].student = s
    BY <1>0, <2>3, <2>5 DEF FileGrows, FileRowsOK, CaseRow
  <2>8. FileRowsOK'
    BY <1>0, <2>3, <2>5, <2>6, <2>7, FileLead DEF FileRowsOK, Enrolled
  <2>9. FileHeld(r)' /\ GenerationHeld(r)'
    BY <2>2, FileElsewhere, GenerationElsewhere DEF Idle
  <2> QED BY <1>0, <2>2, <2>5, <2>7, <2>8, <2>9, GenerationKept, FileKept
<1> QED BY <1>1, <1>2, <1>3, <1>4, <1>5, <1>6, <1>7, <1>8, <1>9 DEF LeadNext

\* The requests that work on students and cases.
LEMMA CaseStep ==
  ASSUME FileInv, NEW r \in Slots, CaseNext(r) PROVE FileInv'
<1>0. Shape /\ FileRowsOK /\ GenerationInv /\ \A q \in Slots : FileHeld(q)
  BY DEF FileInv
<1>1. ASSUME NEW s \in Students, NEW l \in Leads, CreateStudent(r, s, Person[l]) PROVE FileInv'
  <2>1. Slot(Idle) /\ \E rows : Put(r, rows, Idle)
    BY <1>1 DEF CreateStudent, Slot, Idle
  <2>2. Others(r) /\ serving'[r] = Idle
    BY <1>0, <2>1, WriteOthers
  <2>3. /\ students' = [students EXCEPT ![s] = [status |-> "LIVE", person |-> Person[l], asked |-> TRUE]]
        /\ leads' = leads /\ cases' = cases /\ UNCHANGED generationRows
    BY <1>1 DEF CreateStudent
  <2>4. students' \in [Students -> StudentRow] /\ cases' \in [Cases -> CaseRow] /\ FileGrows
    BY <1>0, <2>3 DEF FileRowsOK, StudentRow, FileGrows
  <2>5. FileRowsOK'
    BY <2>3, <2>4, FileRecords
  <2>6. FileHeld(r)' /\ GenerationHeld(r)'
    BY <2>2, FileElsewhere, GenerationElsewhere DEF Idle
  <2> QED BY <1>0, <2>2, <2>3, <2>4, <2>5, <2>6, GenerationKept, FileKept
<1>2. ASSUME NEW s \in Students, ArchiveStudent(r, s) PROVE FileInv'
  <2>1. Slot(Idle) /\ \E rows : Put(r, rows, Idle)
    BY <1>2 DEF ArchiveStudent, Slot, Idle
  <2>2. Others(r) /\ serving'[r] = Idle
    BY <1>0, <2>1, WriteOthers
  <2>3. /\ students' = [students EXCEPT ![s].status = "ARCHIVED"]
        /\ leads' = leads /\ cases' = cases /\ UNCHANGED generationRows
    BY <1>2 DEF ArchiveStudent
  <2>4. students' \in [Students -> StudentRow] /\ cases' \in [Cases -> CaseRow] /\ FileGrows
    BY <1>0, <2>3 DEF FileRowsOK, StudentRow, FileGrows
  <2>5. FileRowsOK'
    BY <2>3, <2>4, FileRecords
  <2>6. FileHeld(r)' /\ GenerationHeld(r)'
    BY <2>2, FileElsewhere, GenerationElsewhere DEF Idle
  <2> QED BY <1>0, <2>2, <2>3, <2>4, <2>5, <2>6, GenerationKept, FileKept
<1>3. ASSUME NEW s \in Students, NEW u \in Users, CreateCaseRead(r, s, u) PROVE FileInv'
  <2>1. /\ Others(r) /\ UNCHANGED <<fileRows, generationRows>>
        /\ serving'[r].step = "case.check" /\ serving'[r].args = <<s, u>>
    BY <1>0, <1>3 DEF CreateCaseRead, Continue, Others, Keeps, Shape, Slot
  <2>2. FileHeld(r)' /\ GenerationHeld(r)'
    BY <2>1, GenerationElsewhere DEF FileHeld, Args
  <2> QED BY <1>0, <2>1, <2>2, FileReads, GenerationKept, FileKept DEF fileRows
<1>4. ASSUME CreateCaseCheck(r) PROVE FileInv'
  <2>1. /\ Others(r) /\ UNCHANGED <<fileRows, generationRows>> /\ serving[r].step = "case.check"
        /\ serving'[r].step = "case.open" /\ serving'[r].args = serving[r].args
    BY <1>0, <1>4 DEF CreateCaseCheck, Continue, Others, Keeps, Shape, Slot, At, Args
  <2>2. FileHeld(r)' /\ GenerationHeld(r)'
    BY <1>0, <2>1, GenerationElsewhere DEF FileHeld, Args
  <2> QED BY <1>0, <2>1, <2>2, FileReads, GenerationKept, FileKept DEF fileRows
<1>5. ASSUME NEW k \in Cases, CreateCase(r, k) PROVE FileInv'
  <2> DEFINE s == Args(r)[1]
             u == Args(r)[2]
  <2>a. PICK a, next : a = <<k, u>> /\ next = [Idle EXCEPT !.step = "case.member", !.args = a]
    OBVIOUS
  <2>b. next = [Idle EXCEPT !.step = "case.member", !.args = a]
    BY <2>a
  <2>c. Slot(next) /\ next.step = "case.member"
    <3>1. next = [step |-> "case.member", args |-> a, on |-> {}, stale |-> FALSE]
      BY <2>b DEF Idle
    <3> QED BY <3>1 DEF Slot
  <2>1. Slot(next) /\ (\E rows : Write(r, rows, next)) /\ serving[r].step = "case.open"
    <3>1. Write(r, {CaseQuery(s)} \cup {}, next) /\ serving[r].step = "case.open"
      BY <1>5, <2>a DEF CreateCase, OpenCase, At
    <3> QED BY <2>c, <3>1
  <2>2. Others(r) /\ serving'[r] = next
    BY <1>0, <2>1, WriteOthers
  <2>3. s \in Students /\ u \in Users
    BY <1>0, <2>1 DEF FileHeld
  <2>4. /\ leads' = leads /\ students' = students /\ cases[k].status = "ABSENT"
        /\ cases' = [cases EXCEPT ![k] = [status |-> "OPEN", student |-> s, owner |-> u]]
        /\ UNCHANGED generationRows
    BY <1>5 DEF CreateCase, OpenCase
  <2>5. students' \in [Students -> StudentRow] /\ cases' \in [Cases -> CaseRow] /\ FileGrows
    BY <1>0, <2>3, <2>4 DEF FileRowsOK, CaseRow, FileGrows
  <2>6. FileRowsOK'
    BY <2>4, <2>5, FileRecords
  <2>7. FileHeld(r)' /\ GenerationHeld(r)'
    BY <2>2, <2>c, FileElsewhere, GenerationElsewhere
  <2> QED BY <1>0, <2>2, <2>4, <2>5, <2>6, <2>7, GenerationKept, FileKept
<1>6. ASSUME NEW source, NEW event, NEW rows, UNCHANGED <<leads, students, cases, generationRows>>,
             Put(r, rows, [Idle EXCEPT !.step = "generation", !.args = GenerationOf(source, event)])
      PROVE  FileInv'
  <2>1. PICK call, next : /\ call = GenerationOf(source, event)
                          /\ next = [Idle EXCEPT !.step = "generation", !.args = call]
    OBVIOUS
  <2>a. next = [Idle EXCEPT !.step = "generation", !.args = call]
    BY <2>1
  <2>b. Slot(next) /\ next.step = "generation" /\ next.args = call
    <3>1. next = [step |-> "generation", args |-> call, on |-> {}, stale |-> FALSE]
      BY <2>a DEF Idle
    <3> QED BY <3>1 DEF Slot
  <2>2. Slot(next) /\ Put(r, rows, next)
    <3>1. Put(r, rows, next)
      BY <1>6, <2>1
    <3> QED BY <2>b, <3>1
  <2>3. Others(r) /\ serving'[r] = next
    BY <1>0, <2>2, WriteOthers
  <2>4. serving'[r].step = "generation" /\ serving'[r].args = GenerationOf(source, event)
    BY <2>1, <2>3, <2>b
  <2>5. FileHeld(r)' /\ GenerationHeld(r)'
    BY <2>4, FileElsewhere, GenerationBegins
  <2> QED BY <1>0, <1>6, <2>3, <2>5, FileReads, GenerationKept, FileKept
<1>7. ASSUME CreateMember(r) \/ \E k \in Cases : UpdateStage(r, k) PROVE FileInv'
  <2>1. \E source, event, rows :
          /\ UNCHANGED <<leads, students, cases, generationRows>>
          /\ Put(r, rows, [Idle EXCEPT !.step = "generation", !.args = GenerationOf(source, event)])
    BY <1>7 DEF CreateMember, UpdateStage, fileRows
  <2> QED BY <1>6, <2>1
<1>8. ASSUME NEW k \in Cases, FinishCase(r, k) PROVE FileInv'
  <2>1. Slot(Idle) /\ \E rows : Put(r, rows, Idle)
    BY <1>8 DEF FinishCase, Slot, Idle
  <2>2. Others(r) /\ serving'[r] = Idle
    BY <1>0, <2>1, WriteOthers
  <2>3. /\ cases' = [cases EXCEPT ![k].status = "CLOSED"]
        /\ leads' = leads /\ students' = students /\ UNCHANGED generationRows
    BY <1>8 DEF FinishCase
  <2>4. students' \in [Students -> StudentRow] /\ cases' \in [Cases -> CaseRow] /\ FileGrows
    BY <1>0, <2>3 DEF FileRowsOK, CaseRow, FileGrows
  <2>5. FileRowsOK'
    BY <2>3, <2>4, FileRecords
  <2>6. FileHeld(r)' /\ GenerationHeld(r)'
    BY <2>2, FileElsewhere, GenerationElsewhere DEF Idle
  <2> QED BY <1>0, <2>2, <2>3, <2>4, <2>5, <2>6, GenerationKept, FileKept
<1>9. ASSUME GenerationNext(r) \/ Generate(r), UNCHANGED fileRows PROVE FileInv'
  <2>1. Others(r) /\ FileHeld(r)' /\ GenerationInv'
    BY <1>0, <1>9, GenerationOthers, GenerationSteps, FileElsewhere
  <2> QED BY <1>0, <1>9, <2>1, FileReads, FileKept DEF fileRows
<1> QED BY <1>1, <1>2, <1>3, <1>4, <1>5, <1>7, <1>8, <1>9 DEF CaseNext

\* The requests that work on owners, and those that end where they stand.
LEMMA OwnerStep ==
  ASSUME FileInv, NEW r \in Slots, OwnerNext(r) \/ FileEnds(r) PROVE FileInv'
<1>0. Shape /\ FileRowsOK /\ GenerationInv /\ \A q \in Slots : FileHeld(q)
  BY DEF FileInv
<1>1. ASSUME NEW k \in Cases, NEW u \in Users, NEW role, AddMember(r, k, u, role) PROVE FileInv'
  <2>1. Slot(Idle) /\ \E rows : Put(r, rows, Idle)
    BY <1>1 DEF AddMember, Slot, Idle
  <2>2. Others(r) /\ serving'[r] = Idle
    BY <1>0, <2>1, WriteOthers
  <2>3. UNCHANGED <<leads, students, cases, generationRows>>
    BY <1>1 DEF AddMember
  <2>4. FileHeld(r)' /\ GenerationHeld(r)'
    BY <2>2, FileElsewhere, GenerationElsewhere DEF Idle
  <2> QED BY <1>0, <2>2, <2>3, <2>4, FileReads, GenerationKept, FileKept
<1>2. ASSUME NEW k \in Cases, NEW u \in Users, TransferRead(r, k, u) PROVE FileInv'
  <2>1. PICK found : Continue(r, "owner.commit", <<k, u, found>>, {OwnerQuery(k)})
    BY <1>2 DEF TransferRead
  <2>2. /\ Others(r) /\ serving'[r].step = "owner.commit" /\ serving'[r].args = <<k, u, found>>
    BY <1>0, <2>1 DEF Continue, Others, Keeps, Shape, Slot
  <2>3. UNCHANGED <<leads, students, cases, generationRows>>
    BY <1>2 DEF TransferRead, fileRows
  <2>4. FileHeld(r)' /\ GenerationHeld(r)'
    BY <2>2, GenerationElsewhere DEF FileHeld, Args
  <2> QED BY <1>0, <2>2, <2>3, <2>4, FileReads, GenerationKept, FileKept
<1>3. ASSUME TransferCommit(r) PROVE FileInv'
  <2> DEFINE k == Args(r)[1]
             u == Args(r)[2]
  <2>1. Slot(Idle) /\ (\E rows : Write(r, rows, Idle)) /\ serving[r].step = "owner.commit"
    BY <1>3 DEF TransferCommit, At, Slot, Idle
  <2>2. Others(r) /\ serving'[r] = Idle
    BY <1>0, <2>1, WriteOthers
  <2>3. u \in Users
    BY <1>0, <2>1 DEF FileHeld
  <2>4. /\ cases' = [cases EXCEPT ![k].owner = u]
        /\ leads' = leads /\ students' = students /\ UNCHANGED generationRows
    BY <1>3 DEF TransferCommit
  <2>5. students' \in [Students -> StudentRow] /\ cases' \in [Cases -> CaseRow] /\ FileGrows
    BY <1>0, <2>3, <2>4 DEF FileRowsOK, CaseRow, FileGrows
  <2>6. FileRowsOK'
    BY <2>4, <2>5, FileRecords
  <2>7. FileHeld(r)' /\ GenerationHeld(r)'
    BY <2>2, FileElsewhere, GenerationElsewhere DEF Idle
  <2> QED BY <1>0, <2>2, <2>4, <2>5, <2>6, <2>7, GenerationKept, FileKept
<1>4. ASSUME FileEnds(r) PROVE FileInv'
  <2>1. Others(r) /\ serving'[r] = Idle /\ UNCHANGED <<fileRows, generationRows>>
    BY <1>0, <1>4, ReturnOthers DEF FileEnds, Dies
  <2>2. FileHeld(r)' /\ GenerationHeld(r)'
    BY <2>1, FileElsewhere, GenerationElsewhere DEF Idle
  <2> QED BY <1>0, <2>1, <2>2, FileReads, GenerationKept, FileKept DEF fileRows
<1> QED BY <1>1, <1>2, <1>3, <1>4 DEF OwnerNext

LEMMA FileStep == FileInv /\ [FileNext]_fileVars => FileInv'
<1> SUFFICES ASSUME FileInv, [FileNext]_fileVars PROVE FileInv'
  OBVIOUS
<1>1. CASE FileNext
  BY <1>1, LeadStep, CaseStep, OwnerStep DEF FileNext
<1>2. CASE UNCHANGED fileVars
  <2>1. Shape' /\ \A q \in Slots : Keeps(q)
    BY <1>2, ShapeStays DEF FileInv, fileVars
  <2>2. UNCHANGED <<serving, leads, students, cases, generated, answered>>
    BY <1>2 DEF fileVars, fileRows, generationRows, handlerVars
  <2>3. GenerationInv'
    BY <2>2 DEF FileInv, GenerationInv, GenerationHeld, GenerationIsComplete, Args
  <2>4. FileRowsOK' /\ \A q \in Slots : FileHeld(q)'
    BY <2>2 DEF FileInv, FileRowsOK, ConvertedHasCase, FileHeld, Enrolled, HasCase, Args
  <2> QED BY <2>1, <2>3, <2>4 DEF FileInv
<1> QED BY <1>1, <1>2

\* A converted lead has its student, and the student a case, for any number of leads
\* converted at the same time and wherever convert() is cut off.
THEOREM ConversionsAreComplete == FileSpec => []ConvertedHasCase
<1>1. FileSpec => []FileInv
  BY FileInitInv, FileStep, PTL DEF FileSpec
<1>2. FileInv => ConvertedHasCase
  BY DEF FileInv, FileRowsOK
<1> QED BY <1>1, <1>2, PTL

\* However many calls generate the tasks of one event of one record at a time, each
\* that comes to its end leaves all of them.
THEOREM GenerationsAreComplete == FileSpec => []GenerationIsComplete
<1>1. FileSpec => []FileInv
  BY FileInitInv, FileStep, PTL DEF FileSpec
<1>2. FileInv => GenerationIsComplete
  BY DEF FileInv, GenerationInv
<1> QED BY <1>1, <1>2, PTL

-----------------------------------------------------------------------------
(* Applications, offers and scholarships                                    *)

ApplicationRow == [status : ApplicationStatus \cup {"ABSENT"}, intake : Intakes \cup {None}, submitted : BOOLEAN]
OfferRow       == [status : {"ABSENT", "RECEIVED", "ACCEPTED", "DECLINED", "EXPIRED"}, of : Applications \cup {None}]
ScholarshipRow == [status : ScholarshipStatus \cup {"ABSENT"}, eligible : BOOLEAN]

\* What counts as submitted, and that there is an offer for a.
Sent       == {"SUBMITTED", "WAITLIST", "OFFER", "REJECT"}
Offered(a) == \E o \in Offers : offers[o].status # "ABSENT" /\ offers[o].of = a

\* An application that is to wait or to be refused was submitted; one that is to get an
\* offer too, and when it is to be moved to OFFER the offer is on record.
ApplicationHeld(r) ==
  /\ serving[r].step = "application.create" => Args(r)[1] \in Intakes
  /\ serving[r].step \in {"application.update", "application.status", "submit.check", "submit.write",
                          "offer.create", "offer.transition", "offer.write"} =>
       Args(r)[1] \in Applications /\ applications[Args(r)[1]].status # "ABSENT"
  /\ serving[r].step = "application.update" => Args(r)[2] \in Intakes
  /\ serving[r].step = "application.status" =>
       /\ Args(r)[2] \in ApplicationStatus \ {"SUBMITTED", "OFFER"}
       /\ Args(r)[2] \in Sent => applications[Args(r)[1]].submitted = TRUE
  /\ serving[r].step \in {"offer.create", "offer.transition", "offer.write"} =>
       applications[Args(r)[1]].submitted = TRUE
  /\ serving[r].step \in {"offer.transition", "offer.write"} => Offered(Args(r)[1])

OfferHeld(r) ==
  serving[r].step \in {"respond.read", "respond.write"} =>
    /\ Args(r)[1] \in Offers /\ offers[Args(r)[1]].status # "ABSENT"
    /\ Args(r)[2] \in {"ACCEPTED", "DECLINED"}

ScholarshipHeld(r) ==
  serving[r].step = "scholarship.write" =>
    /\ Args(r)[1] \in Scholarships /\ scholarships[Args(r)[1]].status # "ABSENT"
    /\ Args(r)[2] \in ScholarshipStatus \ {"PLANNING"}
    /\ Args(r)[2] # "WITHDRAWN" => scholarships[Args(r)[1]].eligible = TRUE

ApplicationsOK ==
  /\ applications \in [Applications -> ApplicationRow]
  /\ \A a \in Applications :
       /\ applications[a].submitted = TRUE => applications[a].status # "ABSENT"
       /\ applications[a].status \in Sent => applications[a].submitted = TRUE
       /\ applications[a].status = "OFFER" => Offered(a)

ScholarshipsOK ==
  /\ scholarships \in [Scholarships -> ScholarshipRow]
  /\ \A s \in Scholarships :
       /\ scholarships[s].eligible = TRUE => scholarships[s].status # "ABSENT"
       /\ scholarships[s].status \notin {"ABSENT", "PLANNING", "WITHDRAWN"} => scholarships[s].eligible = TRUE

AdmissionRowsOK == ApplicationsOK /\ offers \in [Offers -> OfferRow] /\ ScholarshipsOK

AdmissionHeld(r) == ApplicationHeld(r) /\ OfferHeld(r) /\ ScholarshipHeld(r)

AdmissionInv == Shape /\ AdmissionRowsOK /\ \A r \in Slots : AdmissionHeld(r)

\* No request takes back a row, a submission, an offer's application or an eligibility.
AdmissionGrows ==
  /\ \A a \in Applications :
       /\ applications[a].status # "ABSENT" => applications'[a].status # "ABSENT"
       /\ applications[a].submitted = TRUE => applications'[a].submitted = TRUE
       /\ Offered(a) => Offered(a)'
  /\ \A o \in Offers : offers[o].status # "ABSENT" => offers'[o].status # "ABSENT"
  /\ \A s \in Scholarships :
       /\ scholarships[s].status # "ABSENT" => scholarships'[s].status # "ABSENT"
       /\ scholarships[s].eligible = TRUE => scholarships'[s].eligible = TRUE

LEMMA AdmissionKept ==
  ASSUME AdmissionInv, AdmissionGrows, NEW r \in Slots, Others(r), AdmissionRowsOK', AdmissionHeld(r)'
  PROVE  AdmissionInv'
<1>1. ASSUME NEW q \in Slots \ {r} PROVE AdmissionHeld(q)'
  <2>1. AdmissionHeld(q) /\ serving'[q].step = serving[q].step /\ Args(q)' = Args(q)
    BY DEF AdmissionInv, Others, Keeps, Args
  <2>2. ApplicationHeld(q)'
    BY <2>1 DEF AdmissionHeld, ApplicationHeld, AdmissionGrows
  <2>3. OfferHeld(q)'
    BY <2>1 DEF AdmissionHeld, OfferHeld, AdmissionGrows
  <2>4. ScholarshipHeld(q)'
    BY <2>1 DEF AdmissionHeld, ScholarshipHeld, AdmissionGrows
  <2> QED BY <2>2, <2>3, <2>4 DEF AdmissionHeld
<1> QED BY <1>1 DEF AdmissionInv, Others

\* The steps at which a handler holds something of admission.
AdmissionSteps ==
  {"application.create", "application.update", "application.status", "submit.check", "submit.write", "offer.create",
   "offer.transition", "offer.write", "respond.read", "respond.write", "scholarship.write"}

LEMMA AdmissionElsewhere ==
  ASSUME NEW r \in Slots, serving'[r].step \notin AdmissionSteps PROVE AdmissionHeld(r)'
BY DEF AdmissionHeld, ApplicationHeld, OfferHeld, ScholarshipHeld, AdmissionSteps

LEMMA AdmissionSame ==
  ASSUME AdmissionInv, UNCHANGED <<applications, offers, scholarships>>
  PROVE  AdmissionGrows /\ AdmissionRowsOK'
BY DEF AdmissionInv, AdmissionRowsOK, ApplicationsOK, ScholarshipsOK, AdmissionGrows, Offered

LEMMA ApplicationSet ==
  ASSUME AdmissionInv, NEW a \in Applications, NEW row \in ApplicationRow,
         applications' = [applications EXCEPT ![a] = row], UNCHANGED <<offers, scholarships>>,
         row.status # "ABSENT", applications[a].submitted = TRUE => row.submitted = TRUE,
         row.status \in Sent => row.submitted = TRUE, row.status = "OFFER" => Offered(a)
  PROVE  AdmissionRowsOK' /\ AdmissionGrows
<1>1. \A b \in Applications : Offered(b) <=> Offered(b)'
  BY DEF Offered
<1>2. applications \in [Applications -> ApplicationRow]
  BY DEF AdmissionInv, AdmissionRowsOK, ApplicationsOK
<1>3. ApplicationsOK'
  BY <1>1, <1>2 DEF AdmissionInv, AdmissionRowsOK, ApplicationsOK, ApplicationRow
<1>4. AdmissionGrows
  BY <1>1, <1>2 DEF AdmissionGrows
<1> QED BY <1>3, <1>4 DEF AdmissionInv, AdmissionRowsOK, ScholarshipsOK

LEMMA OffersSet ==
  ASSUME AdmissionInv, offers' \in [Offers -> OfferRow], UNCHANGED <<applications, scholarships>>,
         \A o \in Offers : offers[o].status # "ABSENT" =>
                             offers'[o].status # "ABSENT" /\ offers'[o].of = offers[o].of
  PROVE  AdmissionRowsOK' /\ AdmissionGrows
<1>1. \A b \in Applications : Offered(b) => Offered(b)'
  BY DEF Offered
<1> QED BY <1>1 DEF AdmissionInv, AdmissionRowsOK, ApplicationsOK, ScholarshipsOK, AdmissionGrows

LEMMA ScholarshipSet ==
  ASSUME AdmissionInv, NEW s \in Scholarships, NEW row \in ScholarshipRow,
         scholarships' = [scholarships EXCEPT ![s] = row], UNCHANGED <<applications, offers>>,
         row.status # "ABSENT", scholarships[s].eligible = TRUE => row.eligible = TRUE,
         row.status \notin {"PLANNING", "WITHDRAWN"} => row.eligible = TRUE
  PROVE  AdmissionRowsOK' /\ AdmissionGrows
<1>1. \A b \in Applications : Offered(b) <=> Offered(b)'
  BY DEF Offered
<1>2. ScholarshipsOK'
  BY DEF AdmissionInv, AdmissionRowsOK, ScholarshipsOK, ScholarshipRow
<1> QED BY <1>1, <1>2 DEF AdmissionInv, AdmissionRowsOK, ApplicationsOK, ScholarshipsOK, AdmissionGrows

LEMMA AdmissionInitInv == AdmissionInit => AdmissionInv
<1> SUFFICES ASSUME AdmissionInit PROVE AdmissionInv
  OBVIOUS
<1>1. Shape /\ \A q \in Slots : serving[q] = Idle
  BY HandlersInitShape DEF AdmissionInit
<1>2. ApplicationsOK
  BY DEF AdmissionInit, NoApplication, ApplicationsOK, ApplicationRow, Sent
<1>3. offers \in [Offers -> OfferRow] /\ ScholarshipsOK
  BY DEF AdmissionInit, NoOffer, NoScholarship, ScholarshipsOK, OfferRow, ScholarshipRow
<1>4. ASSUME NEW q \in Slots PROVE AdmissionHeld(q)
  <2>1. serving[q].step = "idle"
    BY <1>1 DEF Idle
  <2>2. ApplicationHeld(q)
    BY <2>1 DEF ApplicationHeld
  <2>3. OfferHeld(q) /\ ScholarshipHeld(q)
    BY <2>1 DEF OfferHeld, ScholarshipHeld
  <2> QED BY <2>2, <2>3 DEF AdmissionHeld
<1> QED BY <1>1, <1>2, <1>3, <1>4 DEF AdmissionInv, AdmissionRowsOK

\* A handler's first read, and one that goes on reading.
LEMMA AdmissionReads ==
  ASSUME AdmissionInv, NEW r \in Slots, NEW step, NEW args, NEW rows, Continue(r, step, args, rows)
  PROVE  Others(r) /\ serving'[r].step = step /\ Args(r)' = args
BY ContinueEffect DEF AdmissionInv, Others, Keeps, Args

\* A read that ends where the handler holds what it must.
LEMMA AdmissionReadKeeps ==
  ASSUME AdmissionInv, NEW r \in Slots, Others(r), UNCHANGED admissionRows, AdmissionHeld(r)'
  PROVE  AdmissionInv'
BY AdmissionSame, AdmissionKept DEF admissionRows

\* ..., or where it holds nothing of admission.
LEMMA AdmissionRest ==
  ASSUME AdmissionInv, NEW r \in Slots, Others(r), UNCHANGED admissionRows, serving'[r].step \notin AdmissionSteps
  PROVE  AdmissionInv'
BY AdmissionElsewhere, AdmissionReadKeeps

LEMMA AdmissionFirst ==
  ASSUME AdmissionInv, NEW r \in Slots, NEW step, NEW args, NEW rows, Reads(r, step, args, rows)
  PROVE  Others(r) /\ serving'[r].step = step /\ Args(r)' = args /\ UNCHANGED admissionRows
BY AdmissionReads DEF Reads

\* A handler that writes one row and then holds nothing.
LEMMA ApplicationWritten ==
  ASSUME AdmissionInv, NEW r \in Slots, NEW a \in Applications, NEW row \in ApplicationRow, NEW next,
         SetApplication(r, a, row, next), Slot(next), next.step \notin AdmissionSteps,
         row.status # "ABSENT", applications[a].submitted = TRUE => row.submitted = TRUE,
         row.status \in Sent => row.submitted = TRUE, row.status = "OFFER" => Offered(a)
  PROVE  AdmissionInv'
<1>1. Write(r, {a}, next) /\ applications' = [applications EXCEPT ![a] = row] /\ UNCHANGED <<offers, scholarships>>
  BY DEF SetApplication
<1>2. Others(r) /\ serving'[r] = next
  BY <1>1, WriteOthers DEF AdmissionInv
<1>3. AdmissionRowsOK' /\ AdmissionGrows
  BY <1>1, ApplicationSet
<1> QED BY <1>2, <1>3, AdmissionElsewhere, AdmissionKept

LEMMA OffersWritten ==
  ASSUME AdmissionInv, NEW r \in Slots, NEW rows, NEW next, Write(r, rows, next) \/ Put(r, rows, next), Slot(next),
         next.step \notin AdmissionSteps \/ AdmissionHeld(r)',
         offers' \in [Offers -> OfferRow], UNCHANGED <<applications, scholarships>>,
         \A o \in Offers : offers[o].status # "ABSENT" =>
                             offers'[o].status # "ABSENT" /\ offers'[o].of = offers[o].of
  PROVE  AdmissionInv'
<1>1. Others(r) /\ serving'[r] = next
  BY WriteOthers DEF AdmissionInv
<1>2. AdmissionRowsOK' /\ AdmissionGrows
  BY OffersSet
<1> QED BY <1>1, <1>2, AdmissionElsewhere, AdmissionKept

LEMMA ScholarshipWritten ==
  ASSUME AdmissionInv, NEW r \in Slots, NEW s \in Scholarships, NEW row \in ScholarshipRow, NEW next,
         SetScholarship(r, s, row, next), Slot(next), next.step \notin AdmissionSteps,
         row.status # "ABSENT", scholarships[s].eligible = TRUE => row.eligible = TRUE,
         row.status \notin {"PLANNING", "WITHDRAWN"} => row.eligible = TRUE
  PROVE  AdmissionInv'
<1>1. Write(r, {s}, next) /\ scholarships' = [scholarships EXCEPT ![s] = row] /\ UNCHANGED <<applications, offers>>
  BY DEF SetScholarship
<1>2. Others(r) /\ serving'[r] = next
  BY <1>1, WriteOthers DEF AdmissionInv
<1>3. AdmissionRowsOK' /\ AdmissionGrows
  BY <1>1, ScholarshipSet
<1> QED BY <1>2, <1>3, AdmissionElsewhere, AdmissionKept

LEMMA AdmissionDies ==
  ASSUME AdmissionInv, NEW r \in Slots, AdmissionEnds(r) PROVE AdmissionInv'
<1>1. Others(r) /\ serving'[r] = Idle /\ UNCHANGED admissionRows
  BY ReturnOthers DEF AdmissionEnds, Dies, AdmissionInv
<1> QED BY <1>1, AdmissionRest DEF Idle, AdmissionSteps

\* The requests on applications: one step per action.
LEMMA ApplicationStep ==
  ASSUME AdmissionInv, NEW r \in Slots, ApplicationNext(r) PROVE AdmissionInv'
<1>0. Shape /\ AdmissionRowsOK /\ AdmissionHeld(r)
  BY DEF AdmissionInv
<1>1. ASSUME NEW i \in Intakes, ApplicationCreateRead(r, i) PROVE AdmissionInv'
  <2>1. Others(r) /\ serving'[r].step = "application.create" /\ Args(r)' = <<i>> /\ UNCHANGED admissionRows
    BY <1>1, AdmissionFirst DEF ApplicationCreateRead
  <2>2. AdmissionHeld(r)'
    BY <2>1 DEF AdmissionHeld, ApplicationHeld, OfferHeld, ScholarshipHeld
  <2> QED BY <2>1, <2>2, AdmissionReadKeeps
<1>2. ASSUME NEW i \in Intakes, NEW a \in Applications, ApplicationUpdateRead(r, a, i) PROVE AdmissionInv'
  <2>1. Others(r) /\ serving'[r].step = "application.update" /\ Args(r)' = <<a, i>> /\ UNCHANGED admissionRows
    BY <1>2, AdmissionFirst DEF ApplicationUpdateRead
  <2>2. applications'[a].status # "ABSENT"
    BY <1>2, <2>1 DEF ApplicationUpdateRead, admissionRows
  <2>3. AdmissionHeld(r)'
    BY <2>1, <2>2 DEF AdmissionHeld, ApplicationHeld, OfferHeld, ScholarshipHeld
  <2> QED BY <2>1, <2>3, AdmissionReadKeeps
<1>3. ASSUME NEW a \in Applications, ApplicationCreate(r, a) PROVE AdmissionInv'
  <2>1. Args(r)[1] \in Intakes /\ applications[a].submitted # TRUE
    BY <1>0, <1>3 DEF ApplicationCreate, At, AdmissionHeld, ApplicationHeld, AdmissionRowsOK, ApplicationsOK
  <2>2. PICK row, rows : /\ row = [status |-> "PLANNING", intake |-> Args(r)[1], submitted |-> FALSE]
                         /\ applications' = [applications EXCEPT ![a] = row] /\ Write(r, rows, Idle)
                         /\ UNCHANGED <<offers, scholarships>>
    BY <1>3 DEF ApplicationCreate
  <2>3. row \in ApplicationRow /\ row.status = "PLANNING"
    BY <2>1, <2>2 DEF ApplicationRow, ApplicationStatus
  <2>4. AdmissionRowsOK' /\ AdmissionGrows
    BY <2>1, <2>2, <2>3, ApplicationSet DEF Sent
  <2>5. Others(r) /\ serving'[r] = Idle
    BY <1>0, <2>2, IdleSlot, WriteOthers
  <2> QED BY <2>4, <2>5, AdmissionElsewhere, AdmissionKept DEF Idle, AdmissionSteps
<1>4. ASSUME NEW a \in Applications, ChecklistChange(r, a) PROVE AdmissionInv'
  <2>1. UNCHANGED <<applications, offers, scholarships>> /\ \E rows : Put(r, rows, Idle)
    BY <1>4 DEF ChecklistChange
  <2>2. Others(r) /\ serving'[r] = Idle
    BY <1>0, <2>1, IdleSlot, WriteOthers
  <2> QED BY <2>1, <2>2, AdmissionSame, AdmissionElsewhere, AdmissionKept DEF Idle, AdmissionSteps
<1>5. ASSUME NEW a \in Applications, SubmitRead(r, a) PROVE AdmissionInv'
  <2>1. Others(r) /\ serving'[r].step = "submit.check" /\ Args(r)' = <<a>> /\ UNCHANGED admissionRows
    BY <1>5, AdmissionFirst DEF SubmitRead
  <2>2. applications'[a].status # "ABSENT"
    BY <1>5, <2>1 DEF SubmitRead, admissionRows
  <2>3. AdmissionHeld(r)'
    BY <2>1, <2>2 DEF AdmissionHeld, ApplicationHeld, OfferHeld, ScholarshipHeld
  <2> QED BY <2>1, <2>3, AdmissionReadKeeps
<1>6. ASSUME NEW a \in Applications, NEW status \in ApplicationStatus, ApplicationStatusRead(r, a, status)
      PROVE  AdmissionInv'
  <2>1. Others(r) /\ serving'[r].step = "application.status" /\ Args(r)' = <<a, status>> /\ UNCHANGED admissionRows
    BY <1>6, AdmissionFirst DEF ApplicationStatusRead
  <2>2. /\ applications[a].status # "ABSENT" /\ applications[a].status \in ApplicationStatus
        /\ status \in APPLICATION_TRANSITIONS[applications[a].status]
    BY <1>0, <1>6 DEF ApplicationStatusRead, AdmissionRowsOK, ApplicationsOK, ApplicationRow
  <2>3. \A s \in ApplicationStatus : APPLICATION_TRANSITIONS[s] \cap {"SUBMITTED", "OFFER"} = {}
    BY DEF APPLICATION_TRANSITIONS, ApplicationStatus
  <2>4. \A s \in ApplicationStatus : APPLICATION_TRANSITIONS[s] \cap Sent # {} => s \in Sent
    BY DEF APPLICATION_TRANSITIONS, ApplicationStatus, Sent
  <2>5. status \in ApplicationStatus \ {"SUBMITTED", "OFFER"} /\ (status \in Sent => applications[a].submitted = TRUE)
    BY <1>0, <2>2, <2>3, <2>4 DEF AdmissionRowsOK, ApplicationsOK
  <2>6. applications' = applications
    BY <2>1 DEF admissionRows
  <2>7. AdmissionHeld(r)'
    BY <2>1, <2>2, <2>5, <2>6 DEF AdmissionHeld, ApplicationHeld, OfferHeld, ScholarshipHeld
  <2> QED BY <2>1, <2>7, AdmissionReadKeeps
<1>7. ASSUME ApplicationUpdate(r) PROVE AdmissionInv'
  <2>1. PICK a, i : a = Args(r)[1] /\ i = Args(r)[2]
    OBVIOUS
  <2>2. a \in Applications /\ applications[a].status # "ABSENT" /\ i \in Intakes
    BY <1>0, <1>7, <2>1 DEF ApplicationUpdate, At, AdmissionHeld, ApplicationHeld
  <2>3. PICK old \in ApplicationRow : old = applications[a]
    BY <1>0, <2>2 DEF AdmissionRowsOK, ApplicationsOK
  <2>4. PICK row : row = [old EXCEPT !.intake = i]
    OBVIOUS
  <2>5. row \in ApplicationRow /\ row.status = old.status /\ row.submitted = old.submitted
    BY <2>2, <2>3, <2>4 DEF ApplicationRow
  <2>6. SetApplication(r, a, row, Idle)
    BY <1>7, <2>1, <2>3, <2>4 DEF ApplicationUpdate
  <2>7. (row.status \in Sent => row.submitted = TRUE) /\ (row.status = "OFFER" => Offered(a))
    BY <1>0, <2>2, <2>3, <2>5 DEF AdmissionRowsOK, ApplicationsOK
  <2>8. Idle.step \notin AdmissionSteps
    BY DEF Idle, AdmissionSteps
  <2> QED BY <2>2, <2>3, <2>5, <2>6, <2>7, <2>8, IdleSlot, ApplicationWritten
<1>8. ASSUME ApplicationStatusWrite(r) PROVE AdmissionInv'
  <2>1. PICK a, status : a = Args(r)[1] /\ status = Args(r)[2]
    OBVIOUS
  <2>2. /\ a \in Applications /\ applications[a].status # "ABSENT" /\ status \in ApplicationStatus \ {"SUBMITTED", "OFFER"}
        /\ status \in Sent => applications[a].submitted = TRUE
    BY <1>0, <1>8, <2>1 DEF ApplicationStatusWrite, At, AdmissionHeld, ApplicationHeld
  <2>3. PICK old \in ApplicationRow : old = applications[a]
    BY <1>0, <2>2 DEF AdmissionRowsOK, ApplicationsOK
  <2>4. PICK row : row = [old EXCEPT !.status = status]
    OBVIOUS
  <2>5. row \in ApplicationRow /\ row.status = status /\ row.submitted = old.submitted
    BY <2>2, <2>3, <2>4 DEF ApplicationRow
  <2>6. SetApplication(r, a, row, Idle)
    BY <1>8, <2>1, <2>3, <2>4 DEF ApplicationStatusWrite
  <2>7. status \notin {"ABSENT", "OFFER"}
    BY <2>2 DEF ApplicationStatus
  <2>8. Idle.step \notin AdmissionSteps
    BY DEF Idle, AdmissionSteps
  <2> QED BY <2>2, <2>3, <2>5, <2>6, <2>7, <2>8, IdleSlot, ApplicationWritten
<1>9. ASSUME SubmitCheck(r) PROVE AdmissionInv'
  <2>1. /\ Others(r) /\ serving'[r].step = "submit.write" /\ Args(r)' = Args(r)
        /\ serving[r].step = "submit.check" /\ UNCHANGED admissionRows
    BY <1>9, AdmissionReads DEF SubmitCheck, At
  <2>2. applications' = applications
    BY <2>1 DEF admissionRows
  <2>3. AdmissionHeld(r)'
    BY <1>0, <2>1, <2>2 DEF AdmissionHeld, ApplicationHeld, OfferHeld, ScholarshipHeld
  <2> QED BY <2>1, <2>3, AdmissionReadKeeps
<1>10. ASSUME SubmitWrite(r) PROVE AdmissionInv'
  <2>1. PICK a, call, next : /\ a = Args(r)[1] /\ call = GenerationOf(a, "APPLICATION_SUBMITTED")
                             /\ next = [Idle EXCEPT !.step = "generation", !.args = call]
    OBVIOUS
  <2>2. a \in Applications /\ applications[a].status # "ABSENT"
    BY <1>0, <1>10, <2>1 DEF SubmitWrite, At, AdmissionHeld, ApplicationHeld
  <2>3. PICK old \in ApplicationRow : old = applications[a]
    BY <1>0, <2>2 DEF AdmissionRowsOK, ApplicationsOK
  <2>4. PICK row : row = [old EXCEPT !.status = "SUBMITTED", !.submitted = TRUE]
    OBVIOUS
  <2>5. row \in ApplicationRow /\ row.status = "SUBMITTED" /\ row.submitted = TRUE
    BY <2>3, <2>4 DEF ApplicationRow, ApplicationStatus
  <2>6. SetApplication(r, a, row, next)
    BY <1>10, <2>1, <2>3, <2>4 DEF SubmitWrite
  <2>7. next = [Idle EXCEPT !.step = "generation", !.args = call]
    BY <2>1
  <2>8. Slot(next) /\ next.step = "generation"
    <3>1. next = [step |-> "generation", args |-> call, on |-> {}, stale |-> FALSE]
      BY <2>7 DEF Idle
    <3> QED BY <3>1 DEF Slot
  <2>9. next.step \notin AdmissionSteps
    BY <2>8 DEF AdmissionSteps
  <2> QED BY <2>2, <2>5, <2>6, <2>8, <2>9, ApplicationWritten
<1>11. ASSUME GenerationNext(r) \/ Generate(r), UNCHANGED admissionRows PROVE AdmissionInv'
  <2>1. Others(r) /\ serving'[r].step \in {"idle", "generation", "generation.create"}
    BY <1>0, <1>11, GenerationOthers
  <2> QED BY <1>11, <2>1, AdmissionRest DEF AdmissionSteps
<1>12. ASSUME AdmissionEnds(r) PROVE AdmissionInv'
  BY <1>12, AdmissionDies
<1> QED BY <1>1, <1>2, <1>3, <1>4, <1>5, <1>6, <1>7, <1>8, <1>9, <1>10, <1>11, <1>12 DEF ApplicationNext

\* The requests on offers.
LEMMA OfferStep ==
  ASSUME AdmissionInv, NEW r \in Slots, OfferNext(r) PROVE AdmissionInv'
<1>0. Shape /\ AdmissionRowsOK /\ AdmissionHeld(r)
  BY DEF AdmissionInv
<1>1. ASSUME NEW a \in Applications, OfferRead(r, a) PROVE AdmissionInv'
  <2>1. Others(r) /\ serving'[r].step = "offer.create" /\ Args(r)' = <<a>> /\ UNCHANGED admissionRows
    BY <1>1, AdmissionFirst DEF OfferRead
  <2>2. applications[a].status # "ABSENT" /\ applications[a].submitted = TRUE
    BY <1>0, <1>1 DEF OfferRead, Sent, AdmissionRowsOK, ApplicationsOK
  <2>3. applications' = applications
    BY <2>1 DEF admissionRows
  <2>4. AdmissionHeld(r)'
    BY <2>1, <2>2, <2>3 DEF AdmissionHeld, ApplicationHeld, OfferHeld, ScholarshipHeld
  <2> QED BY <2>1, <2>4, AdmissionReadKeeps
<1>2. ASSUME NEW a, NEW next, Sweep(r, a, next), Slot(next), next.step \notin AdmissionSteps \/ AdmissionHeld(r)'
      PROVE  AdmissionInv'
  <2>1. PICK late \in SUBSET {o \in Offers : offers[o].of = a /\ offers[o].status = "RECEIVED"} :
          /\ offers' = [o \in Offers |-> IF o \in late THEN [offers[o] EXCEPT !.status = "EXPIRED"] ELSE offers[o]]
          /\ Put(r, late, next) /\ UNCHANGED <<applications, scholarships>>
    BY <1>2 DEF Sweep
  <2>2. ASSUME NEW o \in Offers
        PROVE  offers'[o] \in OfferRow /\ offers'[o].of = offers[o].of
               /\ (offers[o].status # "ABSENT" => offers'[o].status # "ABSENT")
    BY <1>0, <2>1 DEF AdmissionRowsOK, OfferRow
  <2>3. offers' \in [Offers -> OfferRow]
    BY <2>1, <2>2
  <2> QED BY <1>2, <2>1, <2>2, <2>3, OffersWritten
<1>3. ASSUME NEW a \in Applications, ListOffers(r, a) PROVE AdmissionInv'
  <2>1. Sweep(r, a, Idle) /\ Idle.step \notin AdmissionSteps
    BY <1>3 DEF ListOffers, Idle, AdmissionSteps
  <2> QED BY <1>2, <2>1, IdleSlot
<1>4. ASSUME NEW o \in Offers, NEW status \in {"ACCEPTED", "DECLINED"}, RespondSweep(r, o, status)
      PROVE  AdmissionInv'
  <2>1. PICK next : next = [Idle EXCEPT !.step = "respond.read", !.args = <<o, status>>]
    OBVIOUS
  <2>2. next = [step |-> "respond.read", args |-> <<o, status>>, on |-> {}, stale |-> FALSE]
    BY <2>1 DEF Idle
  <2>3. Slot(next)
    BY <2>2 DEF Slot
  <2>4. Sweep(r, offers[o].of, next) /\ offers[o].status # "ABSENT"
    BY <1>4, <2>1 DEF RespondSweep
  <2>5. serving'[r] = next /\ offers'[o].status # "ABSENT"
    BY <1>0, <2>3, <2>4, WriteOthers DEF Sweep, AdmissionRowsOK, OfferRow
  <2>6. serving'[r].step = "respond.read" /\ Args(r)' = <<o, status>>
    BY <2>2, <2>5 DEF Args
  <2>7. AdmissionHeld(r)'
    BY <2>5, <2>6 DEF AdmissionHeld, ApplicationHeld, OfferHeld, ScholarshipHeld
  <2> QED BY <1>2, <2>3, <2>4, <2>7
<1>5. ASSUME NEW o \in Offers, OfferCreate(r, o) PROVE AdmissionInv'
  <2>1. PICK a, row, next, args :
          /\ args = Args(r) /\ a = args[1] /\ row = [status |-> "RECEIVED", of |-> a]
          /\ next = [serving[r] EXCEPT !.step = "offer.transition"]
    OBVIOUS
  <2>2. /\ serving[r].step = "offer.create" /\ offers[o].status = "ABSENT" /\ Write(r, {o}, next)
        /\ offers' = [offers EXCEPT ![o] = row] /\ UNCHANGED <<applications, scholarships>>
    BY <1>5, <2>1 DEF OfferCreate, At
  <2>3. a \in Applications /\ applications[a].status # "ABSENT" /\ applications[a].submitted = TRUE
    BY <1>0, <2>1, <2>2 DEF AdmissionHeld, ApplicationHeld
  <2>4. Slot(next) /\ next.step = "offer.transition" /\ next.args = args
    <3>1. Slot(serving[r])
      BY <1>0 DEF Shape
    <3> QED BY <2>1, <3>1 DEF Slot, Args
  <2>5. serving'[r] = next
    BY <1>0, <2>2, <2>4, WriteOthers
  <2>6. offers' \in [Offers -> OfferRow] /\ offers'[o] = row
    BY <1>0, <2>1, <2>2, <2>3 DEF AdmissionRowsOK, OfferRow
  <2>7. Offered(a)'
    BY <2>1, <2>6 DEF Offered
  <2>8. serving'[r].step = "offer.transition" /\ Args(r)' = args /\ applications' = applications
    BY <2>2, <2>4, <2>5 DEF Args
  <2>9. AdmissionHeld(r)'
    BY <2>1, <2>3, <2>7, <2>8 DEF AdmissionHeld, ApplicationHeld, OfferHeld, ScholarshipHeld
  <2>10. \A p \in Offers : offers[p].status # "ABSENT" =>
                             offers'[p].status # "ABSENT" /\ offers'[p].of = offers[p].of
    BY <1>0, <2>2 DEF AdmissionRowsOK
  <2> QED BY <2>2, <2>4, <2>6, <2>9, <2>10, OffersWritten
<1>6. ASSUME TransitionRead(r) PROVE AdmissionInv'
  <2>1. CASE Return(r)
    <3>1. Others(r) /\ serving'[r] = Idle /\ UNCHANGED admissionRows
      BY <1>0, <1>6, <2>1, ReturnOthers DEF TransitionRead
    <3> QED BY <3>1, AdmissionRest DEF Idle, AdmissionSteps
  <2>2. CASE Continue(r, "offer.write", Args(r), {Args(r)[1]})
    <3>1. /\ Others(r) /\ serving'[r].step = "offer.write" /\ Args(r)' = Args(r)
          /\ serving[r].step = "offer.transition" /\ UNCHANGED admissionRows
      BY <1>6, <2>2, AdmissionReads DEF TransitionRead, At
    <3>2. UNCHANGED <<applications, offers>>
      BY <3>1 DEF admissionRows
    <3>3. AdmissionHeld(r)'
      BY <1>0, <3>1, <3>2 DEF AdmissionHeld, ApplicationHeld, OfferHeld, ScholarshipHeld, Offered
    <3> QED BY <3>1, <3>3, AdmissionReadKeeps
  <2> QED BY <1>6, <2>1, <2>2 DEF TransitionRead
<1>7. ASSUME TransitionWrite(r) PROVE AdmissionInv'
  <2>1. PICK a : a = Args(r)[1]
    OBVIOUS
  <2>2. /\ a \in Applications /\ applications[a].status # "ABSENT" /\ applications[a].submitted = TRUE
        /\ Offered(a)
    BY <1>0, <1>7, <2>1 DEF TransitionWrite, At, AdmissionHeld, ApplicationHeld
  <2>3. PICK old \in ApplicationRow : old = applications[a]
    BY <1>0, <2>2 DEF AdmissionRowsOK, ApplicationsOK
  <2>4. PICK row : row = [old EXCEPT !.status = "OFFER"]
    OBVIOUS
  <2>5. row \in ApplicationRow /\ row.status = "OFFER" /\ row.submitted = old.submitted
    BY <2>3, <2>4 DEF ApplicationRow, ApplicationStatus
  <2>6. SetApplication(r, a, row, Idle)
    BY <1>7, <2>1, <2>3, <2>4 DEF TransitionWrite
  <2>7. Idle.step \notin AdmissionSteps
    BY DEF Idle, AdmissionSteps
  <2> QED BY <2>2, <2>3, <2>5, <2>6, <2>7, IdleSlot, ApplicationWritten
<1>8. ASSUME RespondRead(r) PROVE AdmissionInv'
  <2>1. /\ Others(r) /\ serving'[r].step = "respond.write" /\ Args(r)' = Args(r)
        /\ serving[r].step = "respond.read" /\ UNCHANGED admissionRows
    BY <1>8, AdmissionReads DEF RespondRead, At
  <2>2. offers' = offers
    BY <2>1 DEF admissionRows
  <2>3. AdmissionHeld(r)'
    BY <1>0, <2>1, <2>2 DEF AdmissionHeld, ApplicationHeld, OfferHeld, ScholarshipHeld
  <2> QED BY <2>1, <2>3, AdmissionReadKeeps
<1>9. ASSUME RespondWrite(r) PROVE AdmissionInv'
  <2>1. PICK o, status : o = Args(r)[1] /\ status = Args(r)[2]
    OBVIOUS
  <2>2. o \in Offers /\ offers[o].status # "ABSENT" /\ status \in {"ACCEPTED", "DECLINED"}
    BY <1>0, <1>9, <2>1 DEF RespondWrite, At, AdmissionHeld, OfferHeld
  <2>3. /\ offers' = [offers EXCEPT ![o].status = status] /\ UNCHANGED <<applications, scholarships>>
        /\ \E rows : Write(r, rows, Idle)
    BY <1>9, <2>1 DEF RespondWrite
  <2>4. /\ offers' \in [Offers -> OfferRow]
        /\ \A p \in Offers : offers[p].status # "ABSENT" =>
                               offers'[p].status # "ABSENT" /\ offers'[p].of = offers[p].of
    BY <1>0, <2>2, <2>3 DEF AdmissionRowsOK, OfferRow
  <2>5. Idle.step \notin AdmissionSteps
    BY DEF Idle, AdmissionSteps
  <2> QED BY <2>3, <2>4, <2>5, IdleSlot, OffersWritten
<1> QED BY <1>1, <1>3, <1>4, <1>5, <1>6, <1>7, <1>8, <1>9 DEF OfferNext

\* The requests on enrollments leave the rows of this invariant alone.
LEMMA EnrollmentStep ==
  ASSUME AdmissionInv, NEW r \in Slots, EnrollmentNext(r) PROVE AdmissionInv'
<1>1. \/ \E step \in {"enroll", "confirm.check", "confirm.write", "enrollment.withdraw"} : \E args, rows :
           Continue(r, step, args, rows) /\ UNCHANGED admissionRows
      \/ \E e, row, rows : SetEnrollment(r, e, row, rows)
  BY DEF EnrollmentNext, EnrollRead, Enroll, ConfirmRead, ConfirmCheck, ConfirmWrite, EnrollmentWithdrawRead,
         EnrollmentWithdraw, Reads
<1>2. ASSUME NEW step \in {"enroll", "confirm.check", "confirm.write", "enrollment.withdraw"}, NEW args, NEW rows,
             Continue(r, step, args, rows), UNCHANGED admissionRows
      PROVE  AdmissionInv'
  <2>1. Others(r) /\ serving'[r].step = step
    BY <1>2, AdmissionReads
  <2> QED BY <1>2, <2>1, AdmissionRest DEF AdmissionSteps
<1>3. ASSUME NEW e, NEW row, NEW rows, SetEnrollment(r, e, row, rows) PROVE AdmissionInv'
  <2>1. UNCHANGED <<applications, offers, scholarships>> /\ \E w : Write(r, w, Idle)
    BY <1>3 DEF SetEnrollment
  <2>2. Others(r) /\ serving'[r] = Idle
    BY <2>1, IdleSlot, WriteOthers DEF AdmissionInv
  <2> QED BY <2>1, <2>2, AdmissionSame, AdmissionElsewhere, AdmissionKept DEF Idle, AdmissionSteps
<1> QED BY <1>1, <1>2, <1>3

\* The requests on scholarships.
LEMMA ScholarshipStep ==
  ASSUME AdmissionInv, NEW r \in Slots, ScholarshipNext(r) PROVE AdmissionInv'
<1>0. Shape /\ AdmissionRowsOK /\ AdmissionHeld(r) /\ Slot(Idle) /\ Idle.step \notin AdmissionSteps
  BY IdleSlot DEF AdmissionInv, Idle, AdmissionSteps
<1>1. ASSUME NEW s \in Scholarships, ScholarshipCreate(r, s) PROVE AdmissionInv'
  <2>1. PICK row : row = [status |-> "PLANNING", eligible |-> FALSE]
    OBVIOUS
  <2>2. row \in ScholarshipRow /\ row.status = "PLANNING"
    BY <2>1 DEF ScholarshipRow, ScholarshipStatus
  <2>3. SetScholarship(r, s, row, Idle) /\ scholarships[s].eligible # TRUE
    BY <1>0, <1>1, <2>1 DEF ScholarshipCreate, AdmissionRowsOK, ScholarshipsOK
  <2> QED BY <1>0, <2>2, <2>3, ScholarshipWritten
<1>2. ASSUME NEW s \in Scholarships, ConfirmEligibility(r, s) PROVE AdmissionInv'
  <2>1. PICK old \in ScholarshipRow : old = scholarships[s]
    BY <1>0 DEF AdmissionRowsOK, ScholarshipsOK
  <2>2. PICK row : row = [old EXCEPT !.eligible = TRUE]
    OBVIOUS
  <2>3. row \in ScholarshipRow /\ row.status = old.status /\ row.eligible = TRUE
    BY <2>1, <2>2 DEF ScholarshipRow
  <2>4. SetScholarship(r, s, row, Idle) /\ old.status # "ABSENT"
    BY <1>2, <2>1, <2>2 DEF ConfirmEligibility
  <2> QED BY <1>0, <2>1, <2>3, <2>4, ScholarshipWritten
<1>3. ASSUME NEW s \in Scholarships, NEW status \in ScholarshipStatus,
             ScholarshipRead(r, s, status) \/ ScholarshipDecide(r, s, status)
      PROVE  AdmissionInv'
  <2>1. Others(r) /\ serving'[r].step = "scholarship.write" /\ Args(r)' = <<s, status>> /\ UNCHANGED admissionRows
    BY <1>3, AdmissionFirst DEF ScholarshipRead, ScholarshipDecide
  <2>2. scholarships[s].status \in ScholarshipStatus
    BY <1>0, <1>3 DEF ScholarshipRead, ScholarshipDecide, AdmissionRowsOK, ScholarshipsOK, ScholarshipRow, ScholarshipStatus
  <2>3. \A from \in ScholarshipStatus : "PLANNING" \notin SCHOLARSHIP_TRANSITIONS[from]
    BY DEF SCHOLARSHIP_TRANSITIONS, ScholarshipStatus
  <2>4. status # "PLANNING"
    BY <1>3, <2>2, <2>3 DEF ScholarshipRead, ScholarshipDecide
  <2>5. \A from \in ScholarshipStatus : \A to \in SCHOLARSHIP_TRANSITIONS[from] :
          to \in {"SUBMITTED", "WITHDRAWN"} \/ from \notin {"PLANNING", "WITHDRAWN"}
    BY DEF SCHOLARSHIP_TRANSITIONS, ScholarshipStatus
  <2>6. status # "WITHDRAWN" => scholarships[s].eligible = TRUE
    <3>1. scholarships[s].eligible \in BOOLEAN /\ scholarships[s].status # "ABSENT"
      BY <1>0, <2>2 DEF AdmissionRowsOK, ScholarshipsOK, ScholarshipRow, ScholarshipStatus
    <3>2. CASE status = "SUBMITTED"
      BY <1>3, <3>1, <3>2 DEF ScholarshipRead, ScholarshipDecide
    <3>3. CASE scholarships[s].status \notin {"PLANNING", "WITHDRAWN"}
      BY <1>0, <3>1, <3>3 DEF AdmissionRowsOK, ScholarshipsOK
    <3> QED BY <1>3, <2>2, <2>5, <3>2, <3>3 DEF ScholarshipRead, ScholarshipDecide
  <2>7. scholarships' = scholarships /\ scholarships[s].status # "ABSENT"
    BY <2>1, <2>2 DEF admissionRows, ScholarshipStatus
  <2>8. AdmissionHeld(r)'
    BY <2>1, <2>4, <2>6, <2>7 DEF AdmissionHeld, ApplicationHeld, OfferHeld, ScholarshipHeld
  <2> QED BY <2>1, <2>8, AdmissionReadKeeps
<1>4. ASSUME ScholarshipWrite(r) PROVE AdmissionInv'
  <2>1. PICK s, status, call, away, next :
          /\ s = Args(r)[1] /\ status = Args(r)[2] /\ call = GenerationOf(s, "SCHOLARSHIP_AWARDED")
          /\ away = [Idle EXCEPT !.step = "generation", !.args = call]
          /\ next = IF status = "AWARDED" THEN away ELSE Idle
    OBVIOUS
  <2>2. /\ s \in Scholarships /\ scholarships[s].status # "ABSENT" /\ status \in ScholarshipStatus \ {"PLANNING"}
        /\ status # "WITHDRAWN" => scholarships[s].eligible = TRUE
    BY <1>0, <1>4, <2>1 DEF ScholarshipWrite, At, AdmissionHeld, ScholarshipHeld
  <2>3. PICK old \in ScholarshipRow : old = scholarships[s]
    BY <1>0, <2>2 DEF AdmissionRowsOK, ScholarshipsOK
  <2>4. PICK row : row = [old EXCEPT !.status = status]
    OBVIOUS
  <2>5. row \in ScholarshipRow /\ row.status = status /\ row.eligible = old.eligible
    BY <2>2, <2>3, <2>4 DEF ScholarshipRow
  <2>6. SetScholarship(r, s, row, next)
    BY <1>4, <2>1, <2>3, <2>4 DEF ScholarshipWrite
  <2>7. Slot(away) /\ away.step = "generation"
    <3>1. away = [Idle EXCEPT !.step = "generation", !.args = call]
      BY <2>1
    <3>2. away = [step |-> "generation", args |-> call, on |-> {}, stale |-> FALSE]
      BY <3>1 DEF Idle
    <3> QED BY <3>2 DEF Slot
  <2>8. Slot(next) /\ next.step \notin AdmissionSteps
    BY <1>0, <2>1, <2>7 DEF AdmissionSteps
  <2>9. status # "ABSENT"
    BY <2>2 DEF ScholarshipStatus
  <2> QED BY <2>2, <2>3, <2>5, <2>6, <2>8, <2>9, ScholarshipWritten
<1>5. ASSUME AdmissionEnds(r) PROVE AdmissionInv'
  BY <1>5, AdmissionDies
<1> QED BY <1>1, <1>2, <1>3, <1>4, <1>5 DEF ScholarshipNext

LEMMA AdmissionStep == AdmissionInv /\ [AdmissionNext]_admissionVars => AdmissionInv'
<1> SUFFICES ASSUME AdmissionInv, [AdmissionNext]_admissionVars PROVE AdmissionInv'
  OBVIOUS
<1>1. CASE AdmissionNext
  BY <1>1, ApplicationStep, OfferStep, EnrollmentStep, ScholarshipStep DEF AdmissionNext
<1>2. CASE UNCHANGED admissionVars
  <2>1. Shape' /\ \A q \in Slots : Keeps(q)
    BY <1>2, ShapeStays DEF AdmissionInv, admissionVars
  <2>2. UNCHANGED <<serving, applications, offers, scholarships>>
    BY <1>2 DEF admissionVars, admissionRows, handlerVars
  <2>3. AdmissionRowsOK'
    BY <2>2, AdmissionSame
  <2>4. ASSUME NEW q \in Slots PROVE AdmissionHeld(q)'
    BY <2>2 DEF AdmissionInv, AdmissionHeld, ApplicationHeld, OfferHeld, ScholarshipHeld, Offered, Args
  <2> QED BY <2>1, <2>3, <2>4 DEF AdmissionInv
<1> QED BY <1>1, <1>2

\* No application is answered or waits without a submission, none is at OFFER without an
\* offer, and no scholarship goes on without its eligibility, whatever requests overlap and
\* wherever they end: for any number of applications, intakes, offers and requests.
THEOREM DecisionsRestOnEvidence == AdmissionSpec => []DecisionsAreBacked
<1>1. AdmissionSpec => []AdmissionInv
  BY AdmissionInitInv, AdmissionStep, PTL DEF AdmissionSpec
<1>2. AdmissionInv => DecisionsAreBacked
  BY DEF AdmissionInv, AdmissionRowsOK, ApplicationsOK, ScholarshipsOK, DecisionsAreBacked, Sent, Offered
<1> QED BY <1>1, <1>2, PTL

-----------------------------------------------------------------------------
(* Enrollments                                                              *)

EnrollmentRow == [status : {"ABSENT", "PLANNED", "CONFIRMED", "WITHDRAWN"}, on : Offers \cup {None}]
Standing(e)   == enrollments[e].status # "ABSENT"
Confirmed     == {e \in Enrollments : enrollments[e].status = "CONFIRMED"}
TheConfirmed  == <<"confirmed", None>>

\* Who is to write an answer or an enrollment holds the rows that he has read, and as long
\* as nobody has written them, what he read of them is true.
EnrollmentHeld(r) ==
  /\ serving[r].step = "enroll" =>
       /\ Args(r)[1] \in Offers /\ Args(r)[1] \in serving[r].on
       /\ ~serving[r].stale => offers[Args(r)[1]].status = "ACCEPTED"
  /\ serving[r].step = "respond.write" =>
       /\ Args(r)[1] \in Offers /\ Args(r)[1] \in serving[r].on
       /\ ~serving[r].stale => offers[Args(r)[1]].status = "RECEIVED"
  /\ serving[r].step \in {"confirm.check", "confirm.write", "enrollment.withdraw"} =>
       Args(r)[1] \in Enrollments /\ Standing(Args(r)[1])
  /\ serving[r].step = "confirm.write" =>
       /\ TheConfirmed \in serving[r].on
       /\ ~serving[r].stale => Confirmed = {}

EnrollmentRowsOK ==
  /\ enrollments \in [Enrollments -> EnrollmentRow]
  /\ \A e \in Enrollments : Standing(e) => enrollments[e].on \in Offers

EnrollmentInv ==
  AdmissionInv /\ EnrollmentRowsOK /\ EnrollmentHolds /\ \A r \in Slots : EnrollmentHeld(r)

EnrollmentSteps == {"enroll", "respond.write", "confirm.check", "confirm.write", "enrollment.withdraw"}

LEMMA EnrollmentElsewhere ==
  ASSUME NEW r \in Slots, serving'[r].step \notin EnrollmentSteps PROVE EnrollmentHeld(r)'
BY DEF EnrollmentHeld, EnrollmentSteps

\* Whoever holds a row that is written is stale from here on.
LEMMA EnrollmentKept ==
  ASSUME NEW q \in Slots, EnrollmentHeld(q), Keeps(q), serving[q].stale => serving'[q].stale,
         \A o \in Offers : ~serving'[q].stale /\ o \in serving[q].on => offers'[o] = offers[o],
         ~serving'[q].stale /\ TheConfirmed \in serving[q].on => Confirmed' \subseteq Confirmed,
         \A e \in Enrollments : Standing(e) => Standing(e)'
  PROVE  EnrollmentHeld(q)'
<1>1. Args(q)' = Args(q) /\ serving'[q].step = serving[q].step /\ serving'[q].on = serving[q].on
  BY DEF Keeps, Args
<1>2. \A o \in Offers : o \in serving[q].on /\ ~serving'[q].stale => ~serving[q].stale /\ offers'[o] = offers[o]
  OBVIOUS
<1>3. ~serving'[q].stale /\ TheConfirmed \in serving[q].on => ~serving[q].stale /\ (Confirmed = {} => Confirmed' = {})
  OBVIOUS
<1>4. serving[q].step = "enroll" =>
        /\ Args(q)[1] \in Offers /\ Args(q)[1] \in serving'[q].on
        /\ ~serving'[q].stale => offers'[Args(q)[1]].status = "ACCEPTED"
  BY <1>1, <1>2 DEF EnrollmentHeld
<1>5. serving[q].step = "respond.write" =>
        /\ Args(q)[1] \in Offers /\ Args(q)[1] \in serving'[q].on
        /\ ~serving'[q].stale => offers'[Args(q)[1]].status = "RECEIVED"
  BY <1>1, <1>2 DEF EnrollmentHeld
<1>6. serving[q].step \in {"confirm.check", "confirm.write", "enrollment.withdraw"} =>
        Args(q)[1] \in Enrollments /\ Standing(Args(q)[1])'
  BY <1>1 DEF EnrollmentHeld, Standing
<1>7. serving[q].step = "confirm.write" =>
        TheConfirmed \in serving'[q].on /\ (~serving'[q].stale => Confirmed' = {})
  BY <1>1, <1>3 DEF EnrollmentHeld
<1>8. TheConfirmed' = TheConfirmed
  BY DEF TheConfirmed
<1> HIDE DEF TheConfirmed
<1> QED BY <1>1, <1>4, <1>5, <1>6, <1>7, <1>8 DEF EnrollmentHeld, Standing, Confirmed

LEMMA EnrollmentSame ==
  ASSUME EnrollmentInv, AdmissionInv', NEW r \in Slots, UNCHANGED <<offers, enrollments>>, undisturbed' => undisturbed,
         \A q \in Slots \ {r} : Keeps(q) /\ (serving[q].stale => serving'[q].stale), EnrollmentHeld(r)'
  PROVE  EnrollmentInv'
<1>1. EnrollmentRowsOK' /\ EnrollmentHolds' /\ Confirmed' = Confirmed /\ \A e \in Enrollments : Standing(e) <=> Standing(e)'
  BY DEF EnrollmentInv, EnrollmentRowsOK, EnrollmentHolds, Confirmed, Standing
<1>2. \A q \in Slots \ {r} : EnrollmentHeld(q)'
  BY <1>1, EnrollmentKept DEF EnrollmentInv
<1> QED BY <1>1, <1>2 DEF EnrollmentInv

\* A request that writes no offer and no enrollment, and holds none then.
LEMMA EnrollmentBeside ==
  ASSUME EnrollmentInv, AdmissionInv', NEW r \in Slots, UNCHANGED <<offers, enrollments>>, NEW rows, NEW next,
         Write(r, rows, next) \/ Put(r, rows, next), Slot(next), next.step \notin EnrollmentSteps
  PROVE  EnrollmentInv'
<1>1. Shape
  BY DEF EnrollmentInv, AdmissionInv
<1>2. /\ serving'[r] = next
      /\ \A q \in Slots \ {r} : Keeps(q) /\ serving'[q].stale = (serving[q].stale \/ serving[q].on \cap rows # {})
  BY <1>1, WriteEffect, PutEffect
<1>3. undisturbed' = (undisturbed /\ ~serving[r].stale) \/ undisturbed' = undisturbed
  BY <1>1, WriteEffect, PutEffect
<1>4. \A q \in Slots \ {r} : serving[q].stale => serving'[q].stale
  BY <1>2, Zenon
<1>5. undisturbed' => undisturbed
  BY <1>3, Zenon
<1>6. EnrollmentHeld(r)'
  BY <1>2, EnrollmentElsewhere
<1> QED BY <1>2, <1>4, <1>5, <1>6, EnrollmentSame

\* A handler that goes on reading, and ends where it holds what it must.
LEMMA EnrollmentReads ==
  ASSUME EnrollmentInv, AdmissionInv', NEW r \in Slots, NEW step, NEW args, NEW rows, Continue(r, step, args, rows),
         UNCHANGED <<offers, enrollments>>, step \notin EnrollmentSteps \/ EnrollmentHeld(r)'
  PROVE  EnrollmentInv'
<1>1. /\ undisturbed' = undisturbed /\ serving'[r].step = step
      /\ \A q \in Slots \ {r} : serving'[q] = serving[q]
  BY ContinueEffect DEF EnrollmentInv, AdmissionInv
<1>2. \A q \in Slots \ {r} : Keeps(q) /\ (serving[q].stale => serving'[q].stale)
  BY <1>1 DEF Keeps
<1> QED BY <1>1, <1>2, EnrollmentElsewhere, EnrollmentSame

\* A request that ends.
LEMMA EnrollmentReturns ==
  ASSUME EnrollmentInv, AdmissionInv', NEW r \in Slots, Return(r), UNCHANGED <<offers, enrollments>>
  PROVE  EnrollmentInv'
<1>1. undisturbed' = undisturbed /\ serving'[r] = Idle /\ \A q \in Slots \ {r} : serving'[q] = serving[q]
  BY ReturnEffect DEF EnrollmentInv, AdmissionInv
<1>2. \A q \in Slots \ {r} : Keeps(q) /\ (serving[q].stale => serving'[q].stale)
  BY <1>1 DEF Keeps
<1>3. EnrollmentHeld(r)'
  BY <1>1, EnrollmentElsewhere DEF Idle, EnrollmentSteps
<1> QED BY <1>1, <1>2, <1>3, EnrollmentSame

\* A request that writes offers: all that it writes are among its rows.
LEMMA EnrollmentOffers ==
  ASSUME EnrollmentInv, AdmissionInv', NEW r \in Slots, NEW rows, NEW next, Slot(next),
         Write(r, rows, next) \/ Put(r, rows, next), next.step \notin EnrollmentSteps,
         enrollments' = enrollments, \A o \in Offers : o \notin rows => offers'[o] = offers[o],
         \A o \in Offers : undisturbed' /\ offers[o].status = "ACCEPTED" => offers'[o].status = "ACCEPTED"
  PROVE  EnrollmentInv'
<1>1. Shape
  BY DEF EnrollmentInv, AdmissionInv
<1>2. /\ serving'[r] = next
      /\ \A q \in Slots \ {r} : Keeps(q) /\ serving'[q].stale = (serving[q].stale \/ serving[q].on \cap rows # {})
  BY <1>1, WriteEffect, PutEffect
<1>3. undisturbed' => undisturbed
  <2>1. undisturbed' = (undisturbed /\ ~serving[r].stale) \/ undisturbed' = undisturbed
    BY <1>1, WriteEffect, PutEffect
  <2> QED BY <2>1, Zenon
<1>4. EnrollmentRowsOK' /\ EnrollmentHolds'
  BY <1>3 DEF EnrollmentInv, EnrollmentRowsOK, EnrollmentHolds, Standing
<1>5. Confirmed' = Confirmed /\ \A e \in Enrollments : Standing(e) => Standing(e)'
  BY DEF Confirmed, Standing
<1>6. ASSUME NEW q \in Slots \ {r} PROVE EnrollmentHeld(q)'
  <2>1. Keeps(q) /\ serving'[q].stale = (serving[q].stale \/ serving[q].on \cap rows # {})
    BY <1>2
  <2>2. serving[q].stale => serving'[q].stale
    BY <2>1, Zenon
  <2>3. ~serving'[q].stale => serving[q].on \cap rows = {}
    BY <2>1, Zenon
  <2>4. \A o \in Offers : ~serving'[q].stale /\ o \in serving[q].on => offers'[o] = offers[o]
    BY <2>3
  <2> QED BY <1>5, <2>1, <2>2, <2>4, EnrollmentKept DEF EnrollmentInv
<1>7. EnrollmentHeld(r)'
  BY <1>2, EnrollmentElsewhere
<1> QED BY <1>4, <1>6, <1>7 DEF EnrollmentInv

\* A request that writes an enrollment: whoever looked for the confirmed one is told of
\* another.
LEMMA EnrollmentWritten ==
  ASSUME EnrollmentInv, AdmissionInv', NEW r \in Slots, NEW e \in Enrollments, NEW row \in EnrollmentRow, NEW rows,
         SetEnrollment(r, e, row, rows), row.status # "ABSENT", row.on \in Offers,
         undisturbed /\ ~serving[r].stale => offers[row.on].status = "ACCEPTED",
         row.status = "CONFIRMED" => TheConfirmed \in rows /\ (~serving[r].stale => Confirmed = {})
  PROVE  EnrollmentInv'
<1>1. /\ Shape /\ Slot(Idle) /\ Write(r, {e} \cup rows, Idle)
      /\ enrollments' = [enrollments EXCEPT ![e] = row] /\ offers' = offers
  BY IdleSlot DEF EnrollmentInv, AdmissionInv, SetEnrollment
<1>2. /\ serving'[r] = Idle /\ undisturbed' = (undisturbed /\ ~serving[r].stale)
      /\ \A q \in Slots \ {r} :
           Keeps(q) /\ serving'[q].stale = (serving[q].stale \/ serving[q].on \cap ({e} \cup rows) # {})
  BY <1>1, WriteEffect
<1>3. undisturbed' => undisturbed /\ ~serving[r].stale
  BY <1>2, Zenon
<1>4. EnrollmentRowsOK' /\ \A d \in Enrollments : Standing(d) => Standing(d)'
  BY <1>1 DEF EnrollmentInv, EnrollmentRowsOK, Standing
<1>5. /\ enrollments'[e] = row /\ Confirmed' \subseteq Confirmed \cup {e}
      /\ \A d \in Enrollments \ {e} : enrollments'[d] = enrollments[d]
  BY <1>1 DEF EnrollmentInv, EnrollmentRowsOK, Confirmed
<1>6. row.status # "CONFIRMED" => Confirmed' \subseteq Confirmed
  BY <1>5 DEF Confirmed
<1>7. EnrollmentHolds'
  <2>1. SUFFICES ASSUME undisturbed' PROVE /\ \A d \in Enrollments : enrollments'[d].status # "ABSENT" =>
                                                offers'[enrollments'[d].on].status = "ACCEPTED"
                                           /\ \A c, d \in Confirmed' : c = d
    BY DEF EnrollmentHolds, Confirmed
  <2>2. undisturbed /\ ~serving[r].stale
    BY <1>3, <2>1
  <2>3. /\ \A d \in Enrollments : enrollments[d].status # "ABSENT" => offers[enrollments[d].on].status = "ACCEPTED"
        /\ \A c, d \in Confirmed : c = d
    BY <2>2 DEF EnrollmentInv, EnrollmentHolds, Confirmed
  <2>4. \A d \in Enrollments : enrollments'[d].status # "ABSENT" => offers'[enrollments'[d].on].status = "ACCEPTED"
    BY <1>1, <1>5, <2>2, <2>3
  <2>5. CASE row.status = "CONFIRMED"
    BY <1>5, <2>2, <2>4, <2>5
  <2>6. CASE row.status # "CONFIRMED"
    BY <1>6, <2>3, <2>4, <2>6
  <2> QED BY <2>5, <2>6
<1>8. ASSUME NEW q \in Slots \ {r} PROVE EnrollmentHeld(q)'
  <2>1. Keeps(q) /\ serving'[q].stale = (serving[q].stale \/ serving[q].on \cap ({e} \cup rows) # {})
    BY <1>2
  <2>2. serving[q].stale => serving'[q].stale
    BY <2>1, Zenon
  <2>3. ~serving'[q].stale => serving[q].on \cap ({e} \cup rows) = {}
    BY <2>1, Zenon
  <2>4. ~serving'[q].stale /\ TheConfirmed \in serving[q].on => Confirmed' \subseteq Confirmed
    BY <1>6, <2>3
  <2>5. \A o \in Offers : offers'[o] = offers[o]
    BY <1>1
  <2> QED BY <1>4, <2>1, <2>2, <2>4, <2>5, EnrollmentKept DEF EnrollmentInv
<1>9. EnrollmentHeld(r)'
  BY <1>2, EnrollmentElsewhere DEF Idle, EnrollmentSteps
<1> QED BY <1>4, <1>7, <1>8, <1>9 DEF EnrollmentInv

LEMMA EnrollmentInitInv == AdmissionInit => EnrollmentInv
<1> SUFFICES ASSUME AdmissionInit PROVE EnrollmentInv
  OBVIOUS
<1>1. AdmissionInv /\ EnrollmentRowsOK /\ EnrollmentHolds
  BY AdmissionInitInv DEF AdmissionInit, NoEnrollment, EnrollmentRowsOK, EnrollmentRow, EnrollmentHolds, Standing
<1>2. ASSUME NEW q \in Slots PROVE EnrollmentHeld(q)
  <2>1. serving[q].step = "idle"
    BY HandlersInitShape DEF AdmissionInit, Idle
  <2> QED BY <2>1 DEF EnrollmentHeld
<1> QED BY <1>1, <1>2 DEF EnrollmentInv

\* Steps at which a handler holds no offer to write and no enrollment.
FreeSteps == {"idle", "generation", "generation.create", "application.create", "application.update",
              "application.status", "submit.check", "submit.write", "offer.create", "offer.write",
              "scholarship.write"}

LEMMA EnrollmentFree ==
  ASSUME EnrollmentInv, AdmissionInv', NEW r \in Slots, UNCHANGED <<offers, enrollments>>,
         \/ \E step \in FreeSteps : \E args, rows : Continue(r, step, args, rows)
         \/ \E rows : Write(r, rows, Idle) \/ Put(r, rows, Idle)
         \/ \E rows, args : Write(r, rows, [Idle EXCEPT !.step = "generation", !.args = args])
         \/ Return(r)
  PROVE  EnrollmentInv'
<1>1. FreeSteps \cap EnrollmentSteps = {}
  BY DEF EnrollmentSteps, FreeSteps
<1>2. Slot(Idle) /\ Idle.step = "idle" /\ "idle" \in FreeSteps /\ "generation" \in FreeSteps
  BY IdleSlot DEF Idle, FreeSteps
<1>3. CASE \E step \in FreeSteps : \E args, rows : Continue(r, step, args, rows)
  <2>1. PICK step, args, rows : step \in FreeSteps /\ Continue(r, step, args, rows)
    BY <1>3
  <2> QED BY <1>1, <2>1, EnrollmentReads
<1>4. CASE \E rows : Write(r, rows, Idle) \/ Put(r, rows, Idle)
  BY <1>1, <1>2, <1>4, EnrollmentBeside
<1>5. CASE \E rows, args : Write(r, rows, [Idle EXCEPT !.step = "generation", !.args = args])
  <2>1. PICK rows, args, next : next = [Idle EXCEPT !.step = "generation", !.args = args] /\ Write(r, rows, next)
    BY <1>5
  <2>2. Slot(next) /\ next.step = "generation"
    BY <2>1, SentOff
  <2> QED BY <1>1, <1>2, <2>1, <2>2, EnrollmentBeside
<1>6. CASE Return(r)
  BY <1>6, EnrollmentReturns
<1> QED BY <1>3, <1>4, <1>5, <1>6

\* The requests of which the enrollments take no notice.
LEMMA EnrollmentApart ==
  ASSUME EnrollmentInv, AdmissionInv', NEW r \in Slots, ApplicationNext(r) \/ ScholarshipNext(r) PROVE EnrollmentInv'
<1>1. CASE AdmissionEnds(r)
  BY <1>1, EnrollmentReturns DEF AdmissionEnds, Dies, admissionRows
<1>2. CASE (GenerationNext(r) \/ Generate(r)) /\ UNCHANGED admissionRows
  <2>1. UNCHANGED <<offers, enrollments>>
    BY <1>2 DEF admissionRows
  <2>2. Return(r) \/ \E step \in FreeSteps : \E args, rows : Continue(r, step, args, rows)
    BY <1>2 DEF GenerationNext, Generate, FreeSteps
  <2> QED BY <2>1, <2>2, EnrollmentFree
<1>3. CASE \/ \E i \in Intakes : ApplicationCreateRead(r, i) \/ \E a \in Applications : ApplicationUpdateRead(r, a, i)
           \/ \E a \in Applications : SubmitRead(r, a)
                \/ \E status \in ApplicationStatus : ApplicationStatusRead(r, a, status)
           \/ \E s \in Scholarships, status \in ScholarshipStatus :
                ScholarshipRead(r, s, status) \/ ScholarshipDecide(r, s, status)
           \/ SubmitCheck(r)
  <2>1. UNCHANGED admissionRows /\ \E step \in FreeSteps : \E args, rows : Continue(r, step, args, rows)
    BY <1>3 DEF ApplicationCreateRead, ApplicationUpdateRead, SubmitRead, ApplicationStatusRead, ScholarshipRead,
                ScholarshipDecide, SubmitCheck, Reads, FreeSteps
  <2>2. UNCHANGED <<offers, enrollments>>
    BY <2>1 DEF admissionRows
  <2> QED BY <2>1, <2>2, EnrollmentFree
<1>4. CASE \/ \E a \in Applications : ApplicationCreate(r, a) \/ ChecklistChange(r, a)
           \/ \E s \in Scholarships : ScholarshipCreate(r, s) \/ ConfirmEligibility(r, s)
           \/ ApplicationUpdate(r) \/ ApplicationStatusWrite(r)
  <2>1. UNCHANGED <<offers, enrollments>> /\ \E rows : Write(r, rows, Idle) \/ Put(r, rows, Idle)
    BY <1>4 DEF ApplicationCreate, ChecklistChange, ScholarshipCreate, ConfirmEligibility, ApplicationUpdate,
                ApplicationStatusWrite, SetApplication, SetScholarship
  <2> QED BY <2>1, EnrollmentFree
<1>5. CASE SubmitWrite(r)
  <2>1. UNCHANGED <<offers, enrollments>>
        /\ \E rows, args : Write(r, rows, [Idle EXCEPT !.step = "generation", !.args = args])
    BY <1>5 DEF SubmitWrite, SetApplication
  <2> QED BY <2>1, EnrollmentFree
<1>6. CASE ScholarshipWrite(r)
  <2>1. PICK s, status : /\ s = Args(r)[1] /\ status = Args(r)[2]
                         /\ Write(r, {s}, IF status = "AWARDED"
                                          THEN [Idle EXCEPT !.step = "generation",
                                                            !.args = GenerationOf(s, "SCHOLARSHIP_AWARDED")]
                                          ELSE Idle)
                         /\ UNCHANGED <<offers, enrollments>>
    BY <1>6 DEF ScholarshipWrite, SetScholarship
  <2>2. CASE status = "AWARDED"
    BY <2>1, <2>2, EnrollmentFree
  <2>3. CASE status # "AWARDED"
    BY <2>1, <2>3, EnrollmentFree
  <2> QED BY <2>2, <2>3
<1> QED BY <1>1, <1>2, <1>3, <1>4, <1>5, <1>6 DEF ApplicationNext, ScholarshipNext

\* The requests on offers.
LEMMA EnrollmentOfferStep ==
  ASSUME EnrollmentInv, AdmissionInv', NEW r \in Slots, OfferNext(r) PROVE EnrollmentInv'
<1>0. AdmissionInv /\ AdmissionHeld(r) /\ EnrollmentHeld(r) /\ Shape
  BY DEF EnrollmentInv, AdmissionInv
<1>1. CASE \E a \in Applications : OfferRead(r, a)
  <2>1. UNCHANGED <<offers, enrollments>> /\ \E step \in FreeSteps : \E args, rows : Continue(r, step, args, rows)
    BY <1>1 DEF OfferRead, Reads, FreeSteps, admissionRows
  <2> QED BY <2>1, EnrollmentFree
<1>2. CASE TransitionRead(r)
  <2>1. /\ UNCHANGED <<offers, enrollments>>
        /\ Return(r) \/ \E step \in FreeSteps : \E args, rows : Continue(r, step, args, rows)
    BY <1>2 DEF TransitionRead, FreeSteps, admissionRows
  <2> QED BY <2>1, EnrollmentFree
<1>3. CASE TransitionWrite(r)
  <2>1. UNCHANGED <<offers, enrollments>> /\ \E rows : Write(r, rows, Idle)
    BY <1>3 DEF TransitionWrite, SetApplication
  <2> QED BY <2>1, EnrollmentFree
<1>4. ASSUME NEW a, NEW next, Sweep(r, a, next), Slot(next), next.step \notin EnrollmentSteps PROVE EnrollmentInv'
  <2>1. PICK late \in SUBSET {o \in Offers : offers[o].of = a /\ offers[o].status = "RECEIVED"} :
          /\ offers' = [o \in Offers |-> IF o \in late THEN [offers[o] EXCEPT !.status = "EXPIRED"] ELSE offers[o]]
          /\ Put(r, late, next) /\ enrollments' = enrollments
    BY <1>4 DEF Sweep
  <2>2. \A o \in Offers : o \notin late => offers'[o] = offers[o]
    BY <2>1
  <2>3. \A o \in Offers : offers[o].status = "ACCEPTED" => o \notin late
    BY <2>1
  <2> QED BY <1>4, <2>1, <2>2, <2>3, EnrollmentOffers
<1>5. CASE \E a \in Applications : ListOffers(r, a)
  <2>1. Slot(Idle) /\ Idle.step \notin EnrollmentSteps
    BY IdleSlot DEF Idle, EnrollmentSteps
  <2> QED BY <1>4, <1>5, <2>1 DEF ListOffers
<1>6. ASSUME NEW o \in Offers, NEW status, RespondSweep(r, o, status) PROVE EnrollmentInv'
  <2>1. PICK a, args, next : /\ a = offers[o].of /\ args = <<o, status>>
                             /\ next = [Idle EXCEPT !.step = "respond.read", !.args = args]
    OBVIOUS
  <2>2. Sweep(r, a, next)
    BY <1>6, <2>1 DEF RespondSweep
  <2>3. Slot(next) /\ next.step = "respond.read"
    BY <2>1, SentOff
  <2> QED BY <1>4, <2>2, <2>3 DEF EnrollmentSteps
<1>7. ASSUME NEW o \in Offers, OfferCreate(r, o) PROVE EnrollmentInv'
  <2>1. PICK row, next : next = [serving[r] EXCEPT !.step = "offer.transition"]
                         /\ offers' = [offers EXCEPT ![o] = row] /\ Write(r, {o}, next)
                         /\ offers[o].status = "ABSENT" /\ enrollments' = enrollments
    BY <1>7 DEF OfferCreate
  <2>2. Slot(next) /\ next.step = "offer.transition"
    <3>1. Slot(serving[r])
      BY <1>0 DEF Shape
    <3> QED BY <2>1, <3>1 DEF Slot
  <2>3. \A p \in Offers : p # o => offers'[p] = offers[p]
    BY <1>0, <2>1 DEF AdmissionInv, AdmissionRowsOK
  <2> QED BY <2>1, <2>2, <2>3, EnrollmentOffers DEF EnrollmentSteps
<1>8. CASE RespondRead(r)
  <2>1. /\ Continue(r, "respond.write", Args(r), {Args(r)[1]}) /\ UNCHANGED <<offers, enrollments>>
        /\ offers[Args(r)[1]].status = "RECEIVED" /\ serving[r].step = "respond.read"
    BY <1>8 DEF RespondRead, At, admissionRows
  <2>2. /\ serving'[r].step = "respond.write" /\ Args(r)' = Args(r) /\ Args(r)[1] \in serving'[r].on
    BY <1>0, <2>1, ContinueEffect, ContinueHolds DEF Args
  <2>3. Args(r)[1] \in Offers
    BY <1>0, <2>1 DEF AdmissionHeld, OfferHeld
  <2>4. EnrollmentHeld(r)'
    BY <2>1, <2>2, <2>3 DEF EnrollmentHeld
  <2> QED BY <2>1, <2>4, EnrollmentReads
<1>9. CASE RespondWrite(r)
  <2>1. PICK o : /\ o = Args(r)[1] /\ Write(r, {o}, Idle) /\ offers' = [offers EXCEPT ![o].status = Args(r)[2]]
                 /\ enrollments' = enrollments /\ serving[r].step = "respond.write"
    BY <1>9 DEF RespondWrite, At
  <2>2. o \in Offers /\ (~serving[r].stale => offers[o].status = "RECEIVED")
    BY <1>0, <2>1 DEF EnrollmentHeld
  <2>3. undisturbed' = (undisturbed /\ ~serving[r].stale)
    BY <1>0, <2>1, IdleSlot, WriteEffect
  <2>4. undisturbed' => ~serving[r].stale
    BY <2>3, Zenon
  <2>5. \A p \in Offers : p # o => offers'[p] = offers[p]
    BY <1>0, <2>1 DEF AdmissionInv, AdmissionRowsOK
  <2>6. \A p \in Offers : undisturbed' /\ offers[p].status = "ACCEPTED" => offers'[p].status = "ACCEPTED"
    BY <2>2, <2>4, <2>5
  <2>7. Slot(Idle) /\ Idle.step \notin EnrollmentSteps
    BY IdleSlot DEF Idle, EnrollmentSteps
  <2> QED BY <2>1, <2>5, <2>6, <2>7, EnrollmentOffers
<1> QED BY <1>1, <1>2, <1>3, <1>5, <1>6, <1>7, <1>8, <1>9 DEF OfferNext

\* The requests on enrollments.
LEMMA EnrollmentOwnStep ==
  ASSUME EnrollmentInv, AdmissionInv', NEW r \in Slots, EnrollmentNext(r) PROVE EnrollmentInv'
<1>0. Shape /\ EnrollmentRowsOK /\ EnrollmentHolds /\ EnrollmentHeld(r)
  BY DEF EnrollmentInv, AdmissionInv
<1>1. ASSUME NEW o \in Offers, EnrollRead(r, o) PROVE EnrollmentInv'
  <2>1. /\ Continue(r, "enroll", <<o>>, {o}) /\ UNCHANGED <<offers, enrollments>> /\ offers[o].status = "ACCEPTED"
    BY <1>1 DEF EnrollRead, Reads, admissionRows
  <2>2. serving'[r].step = "enroll" /\ Args(r)' = <<o>> /\ o \in serving'[r].on
    BY <1>0, <2>1, ContinueEffect, ContinueHolds DEF Args
  <2>3. EnrollmentHeld(r)'
    BY <2>1, <2>2 DEF EnrollmentHeld
  <2> QED BY <2>1, <2>3, EnrollmentReads
<1>2. ASSUME NEW e \in Enrollments, Enroll(r, e) PROVE EnrollmentInv'
  <2>1. PICK o, row : /\ o = Args(r)[1] /\ row = [status |-> "PLANNED", on |-> o]
                      /\ SetEnrollment(r, e, row, {}) /\ serving[r].step = "enroll"
    BY <1>2 DEF Enroll, At
  <2>2. o \in Offers /\ (~serving[r].stale => offers[o].status = "ACCEPTED")
    BY <1>0, <2>1 DEF EnrollmentHeld
  <2>3. row \in EnrollmentRow /\ row.status = "PLANNED" /\ row.on = o
    BY <2>1, <2>2 DEF EnrollmentRow
  <2> QED BY <2>1, <2>2, <2>3, EnrollmentWritten
<1>3. ASSUME NEW e \in Enrollments, ConfirmRead(r, e) \/ EnrollmentWithdrawRead(r, e) PROVE EnrollmentInv'
  <2>1. PICK step \in {"confirm.check", "enrollment.withdraw"} :
          Continue(r, step, <<e>>, {e}) /\ UNCHANGED <<offers, enrollments>> /\ enrollments[e].status # "ABSENT"
    BY <1>3 DEF ConfirmRead, EnrollmentWithdrawRead, Reads, admissionRows
  <2>2. serving'[r].step = step /\ Args(r)' = <<e>>
    BY <1>0, <2>1, ContinueEffect DEF Args
  <2>3. EnrollmentHeld(r)'
    BY <2>1, <2>2 DEF EnrollmentHeld, Standing
  <2> QED BY <2>1, <2>3, EnrollmentReads
<1>4. CASE ConfirmCheck(r)
  <2>1. /\ Continue(r, "confirm.write", Args(r), {TheConfirmed}) /\ UNCHANGED <<offers, enrollments>>
        /\ Confirmed = {} /\ serving[r].step = "confirm.check"
    BY <1>4 DEF ConfirmCheck, At, admissionRows, TheConfirmed, Confirmed
  <2>2. serving'[r].step = "confirm.write" /\ Args(r)' = Args(r) /\ TheConfirmed \in serving'[r].on
    BY <1>0, <2>1, ContinueEffect, ContinueHolds DEF Args
  <2>3. Args(r)[1] \in Enrollments /\ Standing(Args(r)[1])
    BY <1>0, <2>1 DEF EnrollmentHeld
  <2>4. EnrollmentHeld(r)'
    BY <2>1, <2>2, <2>3 DEF EnrollmentHeld, Standing, Confirmed, TheConfirmed
  <2> QED BY <2>1, <2>4, EnrollmentReads
<1>5. ASSUME NEW e \in Enrollments, NEW status \in {"CONFIRMED", "WITHDRAWN"}, NEW rows, Standing(e),
             SetEnrollment(r, e, [enrollments[e] EXCEPT !.status = status], rows),
             status = "CONFIRMED" => TheConfirmed \in rows /\ (~serving[r].stale => Confirmed = {})
      PROVE  EnrollmentInv'
  <2>1. PICK old \in EnrollmentRow : old = enrollments[e]
    BY <1>0 DEF EnrollmentRowsOK
  <2>2. PICK row : row = [old EXCEPT !.status = status]
    OBVIOUS
  <2>3. row \in EnrollmentRow /\ row.status = status /\ row.on = old.on
    BY <2>1, <2>2 DEF EnrollmentRow
  <2>4. SetEnrollment(r, e, row, rows)
    BY <1>5, <2>1, <2>2
  <2>5. old.on \in Offers /\ (undisturbed => offers[old.on].status = "ACCEPTED")
    BY <1>0, <1>5, <2>1 DEF EnrollmentRowsOK, EnrollmentHolds, Standing
  <2> QED BY <1>5, <2>3, <2>4, <2>5, EnrollmentWritten
<1>6. CASE ConfirmWrite(r)
  <2>1. PICK e : /\ e = Args(r)[1] /\ serving[r].step = "confirm.write"
                 /\ SetEnrollment(r, e, [enrollments[e] EXCEPT !.status = "CONFIRMED"], {TheConfirmed})
    BY <1>6 DEF ConfirmWrite, At, TheConfirmed
  <2>2. e \in Enrollments /\ Standing(e) /\ (~serving[r].stale => Confirmed = {})
    BY <1>0, <2>1 DEF EnrollmentHeld
  <2> QED BY <1>5, <2>1, <2>2
<1>7. CASE EnrollmentWithdraw(r)
  <2>1. PICK e : /\ e = Args(r)[1] /\ serving[r].step = "enrollment.withdraw"
                 /\ SetEnrollment(r, e, [enrollments[e] EXCEPT !.status = "WITHDRAWN"], {})
    BY <1>7 DEF EnrollmentWithdraw, At
  <2>2. e \in Enrollments /\ Standing(e)
    BY <1>0, <2>1 DEF EnrollmentHeld
  <2> QED BY <1>5, <2>1, <2>2
<1> QED BY <1>1, <1>2, <1>3, <1>4, <1>6, <1>7 DEF EnrollmentNext

LEMMA EnrollmentInvStep == EnrollmentInv /\ [AdmissionNext]_admissionVars => EnrollmentInv'
<1> SUFFICES ASSUME EnrollmentInv, [AdmissionNext]_admissionVars PROVE EnrollmentInv'
  OBVIOUS
<1>1. AdmissionInv'
  BY AdmissionStep DEF EnrollmentInv
<1>2. CASE AdmissionNext
  BY <1>1, <1>2, EnrollmentApart, EnrollmentOfferStep, EnrollmentOwnStep DEF AdmissionNext
<1>3. CASE UNCHANGED admissionVars
  <2>1. UNCHANGED <<serving, undisturbed, offers, enrollments>>
    BY <1>3 DEF admissionVars, admissionRows, handlerVars
  <2>2. EnrollmentRowsOK' /\ EnrollmentHolds'
    BY <2>1 DEF EnrollmentInv, EnrollmentRowsOK, EnrollmentHolds, Standing
  <2>3. ASSUME NEW q \in Slots PROVE EnrollmentHeld(q)'
    BY <2>1 DEF EnrollmentInv, EnrollmentHeld, Standing, Confirmed, TheConfirmed, Args
  <2> QED BY <1>1, <2>2, <2>3 DEF EnrollmentInv
<1> QED BY <1>2, <1>3

\* As long as nobody has written what he decided on old rows, every enrollment stands on an
\* accepted offer and one at most is confirmed, whatever requests overlap and wherever they
\* end: for any number of offers, enrollments and requests.
THEOREM EnrollmentsStand == AdmissionSpec => []EnrollmentHolds
<1>1. AdmissionSpec => []EnrollmentInv
  BY EnrollmentInitInv, EnrollmentInvStep, PTL DEF AdmissionSpec
<1>2. EnrollmentInv => EnrollmentHolds
  BY DEF EnrollmentInv
<1> QED BY <1>1, <1>2, PTL
-----------------------------------------------------------------------------
(* One file for a person                                                    *)

\* Who is to store a student without having asked, to open a case or to write an owner knows,
\* unless he is stale, what he has read: there was nobody like him, no open case, and
\* these owners.
OpenHeld(r) ==
  /\ serving[r].step = "convert.match" => Args(r)[2] \in {"none", "CREATE_NEW", "MERGE"}
  /\ serving[r].step = "convert.student" /\ ~serving[r].stale /\ ~Args(r)[3] =>
       /\ PersonQuery(Person[Args(r)[1]]) \in serving[r].on
       /\ Candidates(Person[Args(r)[1]]) = {}
  /\ serving[r].step = "convert.open" /\ ~serving[r].stale =>
       CaseQuery(Args(r)[2]) \in serving[r].on /\ OpenCases(Args(r)[2]) = {}
  /\ serving[r].step = "case.open" /\ ~serving[r].stale =>
       CaseQuery(Args(r)[1]) \in serving[r].on /\ OpenCases(Args(r)[1]) = {}
  /\ serving[r].step = "owner.commit" => Args(r)[3] \subseteq {Args(r)[1]} \X Users
  /\ serving[r].step = "owner.commit" /\ ~serving[r].stale =>
       /\ OwnerQuery(Args(r)[1]) \in serving[r].on
       /\ Args(r)[3] = owners \cap ({Args(r)[1]} \X (Users \ {Args(r)[2]}))

OpenSteps == {"convert.match", "convert.student", "convert.open", "case.open", "owner.commit"}

OpenInv == FileInv /\ OneFile /\ \A r \in Slots : OpenHeld(r)

\* Whatever becomes a candidate or an open case, or changes the owners of a case, is
\* announced to those who have looked for it.
Announced(rows) ==
  /\ \A p : PersonQuery(p) \in rows \/ Candidates(p)' \subseteq Candidates(p)
  /\ \A s : CaseQuery(s) \in rows \/ OpenCases(s)' \subseteq OpenCases(s)
  /\ \A k : OwnerQuery(k) \in rows \/ \A u : <<k, u>> \in owners' <=> <<k, u>> \in owners

LEMMA OpenElsewhere ==
  ASSUME NEW r \in Slots, serving'[r].step \notin OpenSteps PROVE OpenHeld(r)'
BY DEF OpenHeld, OpenSteps

LEMMA OpenFollows ==
  ASSUME OpenInv, NEW r \in Slots, NEW rows, Follow(r, rows), Announced(rows), NEW q \in Slots \ {r}
  PROVE  OpenHeld(q)'
<1>1. /\ OpenHeld(q) /\ Args(q)' = Args(q) /\ serving'[q].step = serving[q].step
      /\ serving'[q].on = serving[q].on
      /\ ~serving'[q].stale => ~serving[q].stale /\ serving[q].on \cap rows = {}
  BY DEF OpenInv, Follow, Keeps, Args
<1> DEFINE p == Person[Args(q)[1]]
           k == Args(q)[1]
           u == Args(q)[2]
<1>2. CASE serving[q].step = "convert.student"
  <2>1. SUFFICES ASSUME ~serving'[q].stale, ~Args(q)[3]
                 PROVE  PersonQuery(p) \in serving'[q].on /\ Candidates(p)' = {}
    <3>1. Person' = Person
      OBVIOUS
    <3> QED BY <1>1, <1>2, <3>1 DEF OpenHeld, Candidates
  <2>2. PersonQuery(p) \in serving[q].on /\ Candidates(p) = {} /\ PersonQuery(p) \notin rows
    BY <1>1, <1>2, <2>1 DEF OpenHeld
  <2>3. PICK pp : pp = p
    OBVIOUS
  <2>4. Candidates(pp)' \subseteq Candidates(pp)
    BY <2>2, <2>3 DEF Announced
  <2>5. Candidates(pp) = {} /\ Candidates(pp)' = Candidates(p)'
    BY <1>1, <2>2, <2>3
  <2> QED BY <1>1, <2>2, <2>4, <2>5
<1>3. CASE serving[q].step = "convert.open"
  <2>1. PICK s : s = u
    OBVIOUS
  <2>2. ~serving'[q].stale => CaseQuery(s) \in serving[q].on /\ OpenCases(s) = {} /\ CaseQuery(s) \notin rows
    BY <1>1, <1>3, <2>1 DEF OpenHeld
  <2>3. ~serving'[q].stale => OpenCases(s)' = {}
    BY <2>2 DEF Announced
  <2> QED BY <1>1, <1>3, <2>1, <2>2, <2>3 DEF OpenHeld, OpenCases, CaseQuery
<1>4. CASE serving[q].step = "case.open"
  <2>1. PICK s : s = k
    OBVIOUS
  <2>2. ~serving'[q].stale => CaseQuery(s) \in serving[q].on /\ OpenCases(s) = {} /\ CaseQuery(s) \notin rows
    BY <1>1, <1>4, <2>1 DEF OpenHeld
  <2>3. ~serving'[q].stale => OpenCases(s)' = {}
    BY <2>2 DEF Announced
  <2> QED BY <1>1, <1>4, <2>1, <2>2, <2>3 DEF OpenHeld, OpenCases, CaseQuery
<1>5. CASE serving[q].step = "owner.commit"
  <2>1. PICK kk, v : kk = k /\ v = u
    OBVIOUS
  <2>2. ~serving'[q].stale => /\ OwnerQuery(kk) \in serving[q].on /\ OwnerQuery(kk) \notin rows
                              /\ Args(q)[3] = owners \cap ({kk} \X (Users \ {v}))
    BY <1>1, <1>5, <2>1 DEF OpenHeld
  <2>3. ~serving'[q].stale => owners' \cap ({kk} \X (Users \ {v})) = owners \cap ({kk} \X (Users \ {v}))
    BY <2>2 DEF Announced
  <2> QED BY <1>1, <1>5, <2>1, <2>2, <2>3 DEF OpenHeld, OwnerQuery
<1> QED BY <1>1, <1>2, <1>3, <1>4, <1>5 DEF OpenHeld

\* Rows that become no one's candidate and no open case keep what the books say.
LEMMA BooksStay ==
  ASSUME OneFile, undisturbed' => undisturbed,
         \A s \in Students : students'[s].status = "LIVE" =>
           students[s].status = "LIVE" /\ students'[s].person = students[s].person /\ students'[s].asked = students[s].asked,
         \A s \in Students : OpenCases(s)' \subseteq OpenCases(s)
  PROVE  OneFile'
BY DEF OneFile, OneOpenCase, NoSilentTwin

\* A step after which the request holds nothing.
LEMMA OpenRests ==
  ASSUME OpenInv, FileInv', NEW r \in Slots, NEW rows, Follow(r, rows), Announced(rows), OneFile', OpenHeld(r)'
  PROVE  OpenInv'
BY OpenFollows DEF OpenInv

\* A step that writes none of these rows.
LEMMA OpenReads ==
  ASSUME OpenInv, FileInv', NEW r \in Slots, NEW rows, Follow(r, rows), undisturbed' => undisturbed,
         UNCHANGED <<students, cases, owners>>, OpenHeld(r)'
  PROVE  OpenInv'
<1>1. \A p : Candidates(p)' = Candidates(p)
  BY DEF Candidates
<1>2. \A s : OpenCases(s)' = OpenCases(s)
  BY DEF OpenCases
<1>3. Announced(rows)
  BY <1>1, <1>2 DEF Announced
<1>4. OneFile'
  BY <1>2, BooksStay DEF OpenInv
<1> QED BY <1>3, <1>4, OpenRests

\* A step that writes none of these rows and leaves the request at no step of these.
LEMMA OpenPlain ==
  ASSUME OpenInv, FileInv', NEW r \in Slots, UNCHANGED <<students, cases, owners>>,
         \/ \E step, args, rows : Continue(r, step, args, rows) /\ step \notin OpenSteps
         \/ \E rows : Write(r, rows, Idle) \/ Put(r, rows, Idle)
         \/ Return(r)
  PROVE  OpenInv'
<1>0. Shape
  BY DEF OpenInv, FileInv
<1> USE DEF OpenSteps
<1>1. CASE Return(r) \/ \E step, args, rows : Continue(r, step, args, rows) /\ step \notin OpenSteps
  <2>1. Follow(r, {}) /\ (undisturbed' => undisturbed)
    BY <1>0, <1>1, ReadsFollow
  <2>2. OpenHeld(r)'
    BY <1>0, <1>1, ReturnEffect, ContinueEffect, OpenElsewhere DEF Idle
  <2> QED BY <2>1, <2>2, OpenReads
<1>2. CASE \E rows : Write(r, rows, Idle) \/ Put(r, rows, Idle)
  <2>1. PICK rows : Follow(r, rows) /\ serving'[r] = Idle /\ (undisturbed' => undisturbed)
    BY <1>0, <1>2, IdleSlot, WritesFollow, PutsFollow
  <2>2. OpenHeld(r)'
    BY <2>1, OpenElsewhere DEF Idle
  <2> QED BY <2>1, <2>2, OpenReads
<1> QED BY <1>1, <1>2

\* A case is opened where there is none that is open, or by someone who is stale.
LEMMA OpenOpens ==
  ASSUME OpenInv, FileInv', NEW r \in Slots, NEW k \in Cases, NEW s, NEW u, NEW rows, OpenCase(r, k, s, u, rows),
         UNCHANGED <<students, owners>>, ~serving[r].stale => OpenCases(s) = {}
  PROVE  OpenInv'
<1>0. Shape /\ OneFile /\ cases \in [Cases -> CaseRow]
  BY DEF OpenInv, FileInv, FileRowsOK
<1>1. PICK next : /\ next = [Idle EXCEPT !.step = "case.member", !.args = <<k, u>>]
                  /\ Write(r, {CaseQuery(s)} \cup rows, next)
  BY DEF OpenCase
<1>2. Slot(next) /\ next.step = "case.member"
  BY <1>1, SentOff
<1>3. /\ Follow(r, {CaseQuery(s)} \cup rows) /\ serving'[r] = next
      /\ undisturbed' => undisturbed /\ ~serving[r].stale
  BY <1>0, <1>1, <1>2, WritesFollow
<1>4. \A t : OpenCases(t)' \subseteq OpenCases(t) \cup {k} /\ (t # s => OpenCases(t)' \subseteq OpenCases(t))
  BY <1>0 DEF OpenCase, OpenCases
<1>5. \A t : t # s => CaseQuery(t)' = CaseQuery(t)
  BY DEF CaseQuery
<1>6. Announced({CaseQuery(s)} \cup rows)
  BY <1>4 DEF Announced, Candidates
<1>7. OneFile'
  BY <1>0, <1>3, <1>4 DEF OneFile, OneOpenCase, NoSilentTwin
<1>8. OpenHeld(r)'
  BY <1>2, <1>3, OpenElsewhere DEF OpenSteps
<1> QED BY <1>3, <1>6, <1>7, <1>8, OpenRests

LEMMA OpenLeadStep ==
  ASSUME OpenInv, FileInv', NEW r \in Slots, LeadNext(r) PROVE OpenInv'
<1>0. Shape /\ FileRowsOK /\ FileHeld(r) /\ OpenHeld(r) /\ OneFile
  BY DEF OpenInv, FileInv
<1>1. CASE \E l \in Leads : CreateLead(r, l) \/ \E status \in LeadStatus : LeadStatusRead(r, l, status)
  <2>1. UNCHANGED <<students, cases, owners>>
    BY <1>1 DEF CreateLead, LeadStatusRead, fileRows
  <2>2. \/ \E step, args, rows : Continue(r, step, args, rows) /\ step \notin OpenSteps
        \/ \E rows : Put(r, rows, Idle)
    <3>1. "lead.status" \notin OpenSteps
      BY DEF OpenSteps
    <3> QED BY <1>1, <3>1 DEF CreateLead, LeadStatusRead
  <2> QED BY <2>1, <2>2, OpenPlain
<1>4. ASSUME NEW l, NEW choice \in {"none", "CREATE_NEW", "MERGE"}, NEW target, ConvertRead(r, l, choice, target)
      PROVE  OpenInv'
  <2>1. PICK args : args = <<l, choice, target>> /\ Continue(r, "convert.match", args, {l})
    BY <1>4 DEF ConvertRead
  <2>2. UNCHANGED <<students, cases, owners>>
    BY <1>4 DEF ConvertRead, fileRows
  <2>3. /\ Follow(r, {}) /\ (undisturbed' => undisturbed) /\ serving'[r].step = "convert.match" /\ serving'[r].args = args
    BY <1>0, <2>1, ReadsFollow, ContinueEffect
  <2>4. OpenHeld(r)'
    BY <2>1, <2>3 DEF OpenHeld, Args
  <2> QED BY <2>2, <2>3, <2>4, OpenReads
<1>2. CASE LeadStatusWrite(r) \/ ConvertReuse(r)
  BY <1>2, OpenPlain DEF LeadStatusWrite, ConvertReuse
<1>3. CASE ConvertMatch(r)
  <2> DEFINE l == Args(r)[1]
             choice == Args(r)[2]
             target == Args(r)[3]
  <2>1. PICK step, args, p :
          /\ step = IF choice = "MERGE" THEN "convert.case" ELSE "convert.student"
          /\ args = <<l, target, choice = "CREATE_NEW">>
          /\ p = Person[l] /\ Continue(r, step, args, {PersonQuery(p)})
          /\ choice = "none" => Candidates(p) = {}
          /\ UNCHANGED <<students, cases, owners>>
    BY <1>3 DEF ConvertMatch, fileRows
  <2>2. /\ Follow(r, {}) /\ (undisturbed' => undisturbed) /\ serving'[r].step = step /\ serving'[r].args = args
        /\ serving'[r].on = serving[r].on \cup {PersonQuery(p)}
    BY <1>0, <2>1, ReadsFollow, ContinueEffect, ContinueHolds
  <2>3. CASE choice = "MERGE"
    BY <2>1, <2>2, <2>3, OpenElsewhere, OpenReads DEF OpenSteps
  <2>4. CASE choice # "MERGE"
    <3>1. step = "convert.student" /\ (args[3] \/ Candidates(p) = {})
      BY <1>0, <1>3, <2>1, <2>4 DEF OpenHeld, ConvertMatch, At
    <3>2. Candidates(p)' = Candidates(p)
      BY <2>1 DEF Candidates
    <3>3. OpenHeld(r)'
      BY <2>1, <2>2, <3>1, <3>2 DEF OpenHeld, Args, Candidates, PersonQuery
    <3> QED BY <2>1, <2>2, <3>3, OpenReads
  <2> QED BY <2>3, <2>4
<1>5. CASE ConvertCase(r)
  <2>1. PICK step, args, s :
          /\ s = Args(r)[2] /\ args = Args(r) /\ step = IF OpenCases(s) = {} THEN "convert.open" ELSE "convert.reuse"
          /\ Continue(r, step, args, {CaseQuery(s)})
          /\ UNCHANGED <<students, cases, owners>>
    BY <1>5 DEF ConvertCase, fileRows
  <2>2. /\ Follow(r, {}) /\ (undisturbed' => undisturbed) /\ serving'[r].step = step /\ serving'[r].args = args
        /\ serving'[r].on = serving[r].on \cup {CaseQuery(s)}
    BY <1>0, <2>1, ReadsFollow, ContinueEffect, ContinueHolds
  <2>3. OpenCases(s)' = OpenCases(s)
    BY <2>1 DEF OpenCases
  <2>4. OpenHeld(r)'
    BY <2>1, <2>2, <2>3 DEF OpenHeld, Args, OpenCases, CaseQuery
  <2> QED BY <2>1, <2>2, <2>4, OpenReads
<1>6. ASSUME NEW s \in Students, ConvertStudent(r, s) PROVE OpenInv'
  <2>1. PICK l, asked, args, rows, next :
          /\ l = Args(r)[1] /\ asked = Args(r)[3] /\ args = <<l, s, FALSE>> /\ rows = {s, PersonQuery(Person[l])}
          /\ next = [serving[r] EXCEPT !.step = "convert.case", !.args = args]
          /\ Write(r, rows, next) /\ students[s].status = "ABSENT"
          /\ students' = [students EXCEPT ![s] = [status |-> "LIVE", person |-> Person[l], asked |-> asked]]
          /\ UNCHANGED <<cases, owners>>
    BY <1>6 DEF ConvertStudent
  <2>2. Slot(next) /\ next.step = "convert.case"
    <3>1. PICK h : h = serving[r]
      OBVIOUS
    <3>5. next = [h EXCEPT !.step = "convert.case", !.args = args]
      BY <2>1, <3>1
    <3>2. PICK b, c, o, t : b = h.step /\ c = h.args /\ o = h.on /\ t = h.stale
      OBVIOUS
    <3>3. h = [step |-> b, args |-> c, on |-> o, stale |-> t]
      BY <1>0, <3>1, <3>2 DEF Shape, Slot
    <3>4. next = [step |-> "convert.case", args |-> args, on |-> o, stale |-> t]
      BY <3>3, <3>5
    <3> QED BY <3>4 DEF Slot
  <2>3. Follow(r, rows) /\ serving'[r] = next /\ (undisturbed' => undisturbed /\ ~serving[r].stale)
    BY <1>0, <2>1, <2>2, WritesFollow
  <2>4. undisturbed' /\ ~asked => Candidates(Person[l]) = {}
    BY <1>0, <1>6, <2>1, <2>3 DEF OpenHeld, ConvertStudent, At
  <2>5. students \in [Students -> StudentRow]
    BY <1>0 DEF FileRowsOK
  <2>6. OneFile'
    <3>1. \A t : OpenCases(t)' = OpenCases(t)
      BY <2>1 DEF OpenCases
    <3> QED BY <1>0, <2>1, <2>3, <2>4, <2>5, <3>1 DEF OneFile, OneOpenCase, NoSilentTwin, Candidates
  <2>7. Announced(rows)
    <3>1. \A p : Candidates(p)' \subseteq Candidates(p) \/ p = Person[l]
      BY <2>1, <2>5 DEF Candidates
    <3>2. \A t : OpenCases(t)' = OpenCases(t)
      BY <2>1 DEF OpenCases
    <3> QED BY <2>1, <3>1, <3>2 DEF Announced
  <2>8. OpenHeld(r)'
    BY <2>2, <2>3, OpenElsewhere DEF OpenSteps
  <2> QED BY <2>3, <2>6, <2>7, <2>8, OpenRests
<1>7. ASSUME NEW k \in Cases, NEW u \in Users, ConvertOpen(r, k, u) PROVE OpenInv'
  <2>1. PICK s, rows : s = Args(r)[2] /\ OpenCase(r, k, s, u, rows)
    BY <1>7 DEF ConvertOpen
  <2>2. UNCHANGED <<students, owners>> /\ serving[r].step = "convert.open"
    BY <1>7 DEF ConvertOpen, At
  <2>3. ~serving[r].stale => OpenCases(s) = {}
    BY <1>0, <2>1, <2>2 DEF OpenHeld
  <2> QED BY <2>1, <2>2, <2>3, OpenOpens
<1> QED BY <1>1, <1>2, <1>3, <1>4, <1>5, <1>6, <1>7 DEF LeadNext

LEMMA OpenCaseStep ==
  ASSUME OpenInv, FileInv', NEW r \in Slots, CaseNext(r) PROVE OpenInv'
<1>0. Shape /\ FileRowsOK /\ FileHeld(r) /\ OpenHeld(r) /\ OneFile
  BY DEF OpenInv, FileInv
<1>1. ASSUME NEW s \in Students, NEW l \in Leads, CreateStudent(r, s, Person[l]) PROVE OpenInv'
  <2>1. PICK p, rows :
          /\ p = Person[l] /\ rows = {s, PersonQuery(p)} /\ Put(r, rows, Idle) /\ students[s].status = "ABSENT"
          /\ students' = [students EXCEPT ![s] = [status |-> "LIVE", person |-> p, asked |-> TRUE]]
          /\ UNCHANGED <<cases, owners>>
    BY <1>1 DEF CreateStudent
  <2>2. Follow(r, rows) /\ serving'[r] = Idle /\ (undisturbed' => undisturbed)
    BY <1>0, <2>1, IdleSlot, PutsFollow
  <2>3. students \in [Students -> StudentRow] /\ \A t : OpenCases(t)' = OpenCases(t)
    BY <1>0, <2>1 DEF FileRowsOK, OpenCases
  <2>4. OneFile'
    BY <1>0, <2>1, <2>2, <2>3 DEF OneFile, OneOpenCase, NoSilentTwin
  <2>5. \A q : Candidates(q)' \subseteq Candidates(q) \/ q = p
    BY <2>1, <2>3 DEF Candidates
  <2>6. Announced(rows)
    BY <2>1, <2>3, <2>5 DEF Announced
  <2>7. OpenHeld(r)'
    BY <2>2, OpenElsewhere DEF OpenSteps, Idle
  <2> QED BY <2>2, <2>4, <2>6, <2>7, OpenRests
<1>2. ASSUME UNCHANGED owners, \A p : Candidates(p)' \subseteq Candidates(p), \A s : OpenCases(s)' \subseteq OpenCases(s),
             NEW rows, Put(r, rows, Idle),
             \A s \in Students : students'[s].status = "LIVE" => students'[s] = students[s]
      PROVE  OpenInv'
  <2>1. Follow(r, rows) /\ serving'[r] = Idle /\ (undisturbed' => undisturbed)
    BY <1>0, <1>2, IdleSlot, PutsFollow
  <2>2. Announced(rows)
    BY <1>2 DEF Announced
  <2>3. OneFile'
    BY <1>0, <1>2, <2>1, BooksStay
  <2>4. OpenHeld(r)'
    BY <2>1, OpenElsewhere DEF OpenSteps, Idle
  <2> QED BY <2>1, <2>2, <2>3, <2>4, OpenRests
<1>3. CASE \E s \in Students : ArchiveStudent(r, s)
  <2>1. PICK s \in Students : ArchiveStudent(r, s)
    BY <1>3
  <2>2. /\ students' = [students EXCEPT ![s].status = "ARCHIVED"] /\ UNCHANGED <<cases, owners>>
        /\ \E rows : Put(r, rows, Idle)
    BY <2>1 DEF ArchiveStudent
  <2>3. \A t \in Students : students'[t].status = "LIVE" => students'[t] = students[t]
    BY <1>0, <2>2 DEF FileRowsOK, StudentRow
  <2>4. (\A p : Candidates(p)' \subseteq Candidates(p)) /\ \A t : OpenCases(t)' = OpenCases(t)
    BY <2>2, <2>3 DEF Candidates, OpenCases
  <2> QED BY <1>2, <2>2, <2>3, <2>4
<1>4. CASE \E k \in Cases : FinishCase(r, k)
  <2>1. PICK k \in Cases : FinishCase(r, k)
    BY <1>4
  <2>2. /\ cases' = [cases EXCEPT ![k].status = "CLOSED"] /\ UNCHANGED <<students, owners>>
        /\ \E rows : Put(r, rows, Idle)
    BY <2>1 DEF FinishCase
  <2>3. \A s : OpenCases(s)' \subseteq OpenCases(s)
    BY <1>0, <2>2 DEF FileRowsOK, CaseRow, OpenCases
  <2>4. \A p : Candidates(p)' = Candidates(p)
    BY <2>2 DEF Candidates
  <2> QED BY <1>2, <2>2, <2>3, <2>4
<1>5. CASE \E s \in Students, u \in Users : CreateCaseRead(r, s, u)
  <2>1. "case.check" \notin OpenSteps /\ UNCHANGED <<students, cases, owners>>
    BY <1>5 DEF CreateCaseRead, OpenSteps, fileRows
  <2> QED BY <1>5, <2>1, OpenPlain DEF CreateCaseRead
<1>6. CASE CreateCaseCheck(r)
  <2>1. PICK args, s : /\ s = Args(r)[1] /\ args = Args(r) /\ Continue(r, "case.open", args, {CaseQuery(s)})
                       /\ OpenCases(s) = {} /\ UNCHANGED <<students, cases, owners>>
    BY <1>6 DEF CreateCaseCheck, fileRows
  <2>2. /\ Follow(r, {}) /\ (undisturbed' => undisturbed) /\ serving'[r].step = "case.open" /\ serving'[r].args = args
        /\ serving'[r].on = serving[r].on \cup {CaseQuery(s)}
    BY <1>0, <2>1, ReadsFollow, ContinueEffect, ContinueHolds
  <2>3. OpenCases(s)' = OpenCases(s)
    BY <2>1 DEF OpenCases
  <2>4. OpenHeld(r)'
    BY <2>1, <2>2, <2>3 DEF OpenHeld, Args, OpenCases, CaseQuery
  <2> QED BY <2>1, <2>2, <2>4, OpenReads
<1>7. ASSUME NEW k \in Cases, CreateCase(r, k) PROVE OpenInv'
  <2>1. PICK s, u : s = Args(r)[1] /\ OpenCase(r, k, s, u, {})
    BY <1>7 DEF CreateCase
  <2>2. UNCHANGED <<students, owners>> /\ serving[r].step = "case.open"
    BY <1>7 DEF CreateCase, At
  <2>3. ~serving[r].stale => OpenCases(s) = {}
    BY <1>0, <2>1, <2>2 DEF OpenHeld
  <2> QED BY <2>1, <2>2, <2>3, OpenOpens
<1>8. CASE CreateMember(r)
  <2>1. PICK k, args, rows, next :
          /\ k = Args(r)[1] /\ next = [Idle EXCEPT !.step = "generation", !.args = args] /\ rows = {OwnerQuery(k)}
          /\ Put(r, rows, next) /\ owners' = owners \cup {Args(r)} /\ UNCHANGED <<students, cases>>
    BY <1>8 DEF CreateMember
  <2>2. Slot(next) /\ next.step = "generation"
    BY <2>1, SentOff
  <2>3. Follow(r, rows) /\ serving'[r] = next /\ (undisturbed' => undisturbed)
    BY <1>0, <2>1, <2>2, PutsFollow
  <2>4. \A j : j = k \/ \A u : <<j, u>> \in owners' <=> <<j, u>> \in owners
    BY <2>1
  <2>5. (\A p : Candidates(p)' = Candidates(p)) /\ \A s : OpenCases(s)' = OpenCases(s)
    BY <2>1 DEF Candidates, OpenCases
  <2>6. Announced(rows)
    BY <2>1, <2>4, <2>5 DEF Announced
  <2>7. OneFile'
    BY <1>0, <2>1, <2>3, <2>5, BooksStay
  <2>8. OpenHeld(r)'
    BY <2>2, <2>3, OpenElsewhere DEF OpenSteps
  <2> QED BY <2>3, <2>6, <2>7, <2>8, OpenRests
<1>9. CASE \E k \in Cases : UpdateStage(r, k)
  <2>1. PICK args, next : /\ next = [Idle EXCEPT !.step = "generation", !.args = args]
                          /\ Put(r, {}, next) /\ UNCHANGED <<students, cases, owners>>
    BY <1>9 DEF UpdateStage, fileRows
  <2>2. Slot(next) /\ next.step = "generation"
    BY <2>1, SentOff
  <2>3. Follow(r, {}) /\ serving'[r] = next /\ (undisturbed' => undisturbed)
    BY <1>0, <2>1, <2>2, PutsFollow
  <2>4. OpenHeld(r)'
    BY <2>2, <2>3, OpenElsewhere DEF OpenSteps
  <2> QED BY <2>1, <2>3, <2>4, OpenReads
<1>10. CASE (GenerationNext(r) \/ Generate(r)) /\ UNCHANGED fileRows
  <2>1. Return(r) \/ \E step, args, rows : Continue(r, step, args, rows) /\ step \notin OpenSteps
    <3>1. "generation" \notin OpenSteps /\ "generation.create" \notin OpenSteps
      BY DEF OpenSteps
    <3> QED BY <1>10, <3>1 DEF GenerationNext, Generate
  <2> QED BY <1>10, <2>1, OpenPlain DEF fileRows
<1> QED BY <1>1, <1>3, <1>4, <1>5, <1>6, <1>7, <1>8, <1>9, <1>10 DEF CaseNext

LEMMA OpenOwnerStep ==
  ASSUME OpenInv, FileInv', NEW r \in Slots, OwnerNext(r) \/ FileEnds(r) PROVE OpenInv'
<1>0. Shape /\ FileRowsOK /\ FileHeld(r) /\ OpenHeld(r) /\ OneFile
  BY DEF OpenInv, FileInv
<1>1. ASSUME NEW k, NEW rows, rows = {OwnerQuery(k)}, Write(r, rows, Idle) \/ Put(r, rows, Idle), UNCHANGED students,
             \A j : j = k \/ \A u : <<j, u>> \in owners' <=> <<j, u>> \in owners,
             \A s : OpenCases(s)' = OpenCases(s)
      PROVE  OpenInv'
  <2>1. Follow(r, rows) /\ serving'[r] = Idle /\ (undisturbed' => undisturbed)
    BY <1>0, <1>1, IdleSlot, PutsFollow, WritesFollow
  <2>2. \A p : Candidates(p)' = Candidates(p)
    BY <1>1 DEF Candidates
  <2>3. Announced(rows)
    BY <1>1, <2>2 DEF Announced
  <2>4. OneFile'
    BY <1>0, <1>1, <2>1, BooksStay
  <2>5. OpenHeld(r)'
    BY <2>1, OpenElsewhere DEF OpenSteps, Idle
  <2> QED BY <2>1, <2>3, <2>4, <2>5, OpenRests
<1>2. ASSUME NEW k \in Cases, NEW v \in Users, NEW role, AddMember(r, k, v, role) PROVE OpenInv'
  <2>1. \A j : j = k \/ \A u : <<j, u>> \in owners' <=> <<j, u>> \in owners
    BY <1>2 DEF AddMember
  <2>2. UNCHANGED <<students, cases>> /\ Put(r, {OwnerQuery(k)}, Idle)
    BY <1>2 DEF AddMember
  <2> QED BY <1>1, <2>1, <2>2 DEF OpenCases
<1>3. ASSUME NEW k \in Cases, NEW u \in Users, TransferRead(r, k, u) PROVE OpenInv'
  <2>1. PICK args, found : /\ found = owners \cap ({k} \X (Users \ {u})) /\ args = <<k, u, found>>
                           /\ Continue(r, "owner.commit", args, {OwnerQuery(k)})
                           /\ UNCHANGED <<students, cases, owners>>
    BY <1>3 DEF TransferRead, fileRows
  <2>2. /\ Follow(r, {}) /\ (undisturbed' => undisturbed) /\ serving'[r].step = "owner.commit" /\ serving'[r].args = args
        /\ serving'[r].on = serving[r].on \cup {OwnerQuery(k)}
    BY <1>0, <2>1, ReadsFollow, ContinueEffect, ContinueHolds
  <2>3. OpenHeld(r)'
    BY <2>1, <2>2 DEF OpenHeld, Args, OwnerQuery
  <2> QED BY <2>1, <2>2, <2>3, OpenReads
<1>4. CASE TransferCommit(r)
  <2>1. PICK k, u, found :
          /\ k = Args(r)[1] /\ u = Args(r)[2] /\ found = Args(r)[3]
          /\ owners' = (owners \ found) \cup {<<k, u>>} /\ cases' = [cases EXCEPT ![k].owner = u]
          /\ Write(r, {OwnerQuery(k)}, Idle) /\ students' = students
    BY <1>4 DEF TransferCommit
  <2>2. \A s : OpenCases(s)' = OpenCases(s)
    BY <1>0, <2>1 DEF FileRowsOK, CaseRow, OpenCases
  <2>3. found \subseteq {k} \X Users
    BY <1>0, <1>4, <2>1 DEF OpenHeld, TransferCommit, At
  <2>4. \A j : j = k \/ \A v : <<j, v>> \in owners' <=> <<j, v>> \in owners
    BY <2>1, <2>3
  <2> QED BY <1>1, <2>1, <2>2, <2>4
<1>5. CASE FileEnds(r)
  BY <1>5, OpenPlain DEF FileEnds, Dies, fileRows
<1> QED BY <1>2, <1>3, <1>4, <1>5 DEF OwnerNext

LEMMA OpenStep == OpenInv /\ [FileNext]_fileVars => OpenInv'
<1> SUFFICES ASSUME OpenInv, [FileNext]_fileVars PROVE OpenInv'
  OBVIOUS
<1>0. FileInv'
  BY FileStep DEF OpenInv
<1>1. CASE FileNext
  BY <1>0, <1>1, OpenLeadStep, OpenCaseStep, OpenOwnerStep DEF FileNext
<1>2. CASE UNCHANGED fileVars
  <2>1. serving' = serving /\ undisturbed' = undisturbed /\ UNCHANGED <<students, cases, owners>>
    BY <1>2 DEF fileVars, fileRows, handlerVars
  <2>2. OneFile'
    BY <2>1 DEF OpenInv, OneFile, OneOpenCase, NoSilentTwin, OpenCases
  <2>3. ASSUME NEW q \in Slots PROVE OpenHeld(q)'
    <3>1. OpenHeld(q)
      BY DEF OpenInv
    <3> QED BY <2>1, <3>1 DEF OpenHeld, OpenCases, Candidates, Args, OwnerQuery, CaseQuery, PersonQuery
  <2> QED BY <1>0, <2>2, <2>3 DEF OpenInv
<1> QED BY <1>1, <1>2

LEMMA OpenInitInv == FileInit => OpenInv
<1> SUFFICES ASSUME FileInit PROVE OpenInv
  OBVIOUS
<1>1. FileInv /\ \A q \in Slots : serving[q].step = "idle"
  BY FileInitInv, HandlersInitShape DEF FileInit, Idle
<1>2. OneFile
  BY DEF FileInit, OneFile, OneOpenCase, NoSilentTwin, OpenCases, NoStudent, NoCase
<1> QED BY <1>1, <1>2 DEF OpenInv, OpenHeld

LEMMA OpenInvariant == FileSpec => []OpenInv
BY OpenInitInv, OpenStep, PTL DEF FileSpec

\* One person has one file and one open case in it, however many requests work on leads,
\* students and cases, as long as none writes what it decided on rows that are not so any
\* more (leads.service.ts:208-262, cases.service.ts:97-117).
THEOREM PersonsHaveOneFile == FileSpec => []OneFile
<1>1. OpenInv => OneFile
  BY DEF OpenInv
<1> QED BY <1>1, OpenInvariant, PTL

\* The transfer that nobody came in between leaves the case the owner it names and no
\* other (cases.service.ts:191-223).
THEOREM TransferNamesTheOwner == FileSpec => TransferLeavesOneOwner
<1> DEFINE OwnerMoves ==
      \A k \in Cases : undisturbed' /\ cases[k].status # "ABSENT" /\ cases'[k].owner # cases[k].owner =>
                         owners' \cap ({k} \X Users) = {<<k, cases'[k].owner>>}
<1>1. OpenInv /\ [FileNext]_fileVars => OwnerMoves
  <2> SUFFICES ASSUME OpenInv, [FileNext]_fileVars PROVE OwnerMoves
    OBVIOUS
  <2>0. Shape /\ FileRowsOK
    BY DEF OpenInv, FileInv
  <2>1. CASE \E r \in Slots : TransferCommit(r)
    <3>1. PICK r \in Slots : TransferCommit(r)
      BY <2>1
    <3>2. PICK j, u, found :
            /\ j = Args(r)[1] /\ u = Args(r)[2] /\ found = Args(r)[3]
            /\ owners' = (owners \ found) \cup {<<j, u>>} /\ cases' = [cases EXCEPT ![j].owner = u]
            /\ Write(r, {OwnerQuery(j)}, Idle) /\ serving[r].step = "owner.commit"
      BY <3>1 DEF TransferCommit, At
    <3>3. undisturbed' => ~serving[r].stale
      BY <2>0, <3>2, IdleSlot, WritesFollow
    <3>4. u \in Users /\ (undisturbed' => found = owners \cap ({j} \X (Users \ {u})))
      BY <3>2, <3>3 DEF OpenInv, OpenHeld, FileInv, FileHeld
    <3>5. \A k \in Cases : cases'[k].owner # cases[k].owner => k = j /\ cases'[k].owner = u
      BY <2>0, <3>2 DEF FileRowsOK, CaseRow
    <3>6. undisturbed' => owners' \cap ({j} \X Users) = {<<j, u>>}
      BY <3>2, <3>4
    <3> QED BY <3>5, <3>6
  <2>2. CASE \E r \in Slots, k \in Cases : \E s, u, rows : OpenCase(r, k, s, u, rows)
    <3>1. PICK k \in Cases : \E s, u : cases[k].status = "ABSENT"
                              /\ cases' = [cases EXCEPT ![k] = [status |-> "OPEN", student |-> s, owner |-> u]]
      BY <2>2 DEF OpenCase
    <3>2. \A j \in Cases : j = k \/ cases'[j] = cases[j]
      BY <2>0, <3>1 DEF FileRowsOK
    <3> QED BY <3>1, <3>2
  <2>3. CASE \A k \in Cases : cases'[k].owner = cases[k].owner
    BY <2>3
  <2>4. \/ \E r \in Slots : TransferCommit(r)
        \/ \E r \in Slots, k \in Cases : \E s, u, rows : OpenCase(r, k, s, u, rows)
        \/ \A k \in Cases : cases'[k].owner = cases[k].owner
    <3>1. CASE UNCHANGED cases
      BY <3>1
    <3>2. ASSUME NEW r \in Slots, NEW k \in Cases, FinishCase(r, k)
          PROVE  \A j \in Cases : cases'[j].owner = cases[j].owner
      BY <2>0, <3>2 DEF FinishCase, FileRowsOK, CaseRow
    <3>3. CASE \E r \in Slots, k \in Cases : CreateCase(r, k) \/ \E u \in Users : ConvertOpen(r, k, u)
      BY <3>3 DEF CreateCase, ConvertOpen
    <3>4. ASSUME NEW r \in Slots, LeadNext(r)
          PROVE  UNCHANGED cases \/ \E k \in Cases, u \in Users : ConvertOpen(r, k, u)
      BY <3>4 DEF LeadNext, CreateLead, LeadStatusRead, ConvertRead, LeadStatusWrite, ConvertMatch, ConvertCase,
                  ConvertReuse, ConvertStudent, fileRows
    <3>5. ASSUME NEW r \in Slots, CaseNext(r)
          PROVE  UNCHANGED cases \/ \E k \in Cases : CreateCase(r, k) \/ FinishCase(r, k)
      BY <3>5 DEF CaseNext, CreateStudent, ArchiveStudent, CreateCaseRead, CreateCaseCheck, CreateMember, UpdateStage,
                  fileRows
    <3>6. ASSUME NEW r \in Slots, OwnerNext(r) \/ FileEnds(r) PROVE UNCHANGED cases \/ TransferCommit(r)
      BY <3>6 DEF OwnerNext, AddMember, TransferRead, FileEnds, fileRows
    <3>7. CASE UNCHANGED fileVars
      BY <3>7 DEF fileVars, fileRows
    <3> QED BY <3>1, <3>2, <3>3, <3>4, <3>5, <3>6, <3>7 DEF FileNext
  <2> QED BY <2>1, <2>2, <2>3, <2>4
<1> QED BY <1>1, OpenInvariant, PTL DEF TransferLeavesOneOwner, FileSpec

-----------------------------------------------------------------------------
(* What a visa may become                                                   *)

OneActive == undisturbed => \A v, w \in Visas : ActiveVisa(v) /\ ActiveVisa(w) => v = w

\* A visa whose creation came to its end has all its items.
ItemsThere ==
  /\ checklist \in [Visas -> [Items -> {"ABSENT"} \cup ItemStates]]
  /\ \A v \in Visas : visas[v].complete = TRUE => \A t \in Required : checklist[v][t] # "ABSENT"

\* Who is to create or to move a visa knows, unless he is stale, what he has read: no visa was
\* under way, this one was, and no item of it was required and open.
VisaAsked(r) ==
  LET v == Args(r)[1]
  IN  /\ serving[r].step = "visa.create" /\ ~serving[r].stale /\ undisturbed =>
           <<"active">> \in serving[r].on /\ \A w \in Visas : ~ActiveVisa(w)
      /\ serving[r].step \in {"visa.ready", "visa.write"} /\ ~serving[r].stale =>
           v \in serving[r].on /\ ActiveVisa(v)
      /\ serving[r].step = "visa.write" /\ ~serving[r].stale /\ Args(r)[2] = "SUBMITTED" =>
           <<"checklist", v>> \in serving[r].on /\ ChecklistComplete(v)

VisaFileInv == VisaInv /\ OneActive /\ ItemsThere /\ \A r \in Slots : VisaAsked(r)

\* Whatever becomes of a visa and its items is announced to those who have looked at it.
VisaAnnounced(rows) ==
  /\ \A v \in Visas : v \in rows \/ visas'[v].status = visas[v].status
  /\ \A v \in Visas : \/ {v, <<"checklist", v>>} \cap rows # {}
                      \/ checklist'[v] = checklist[v] /\ visas'[v].complete = visas[v].complete
  /\ \/ <<"active">> \in rows
     \/ undisturbed' => undisturbed /\ \A v \in Visas : ActiveVisa(v)' => ActiveVisa(v)

\* What VisaHolds says of a step.
VisaMoves ==
  undisturbed' =>
    \A v \in Visas : visas'[v].status # visas[v].status =>
      /\ visas[v].status \notin VisaClosed
      /\ visas'[v].status = "SUBMITTED" => ChecklistComplete(v)

LEMMA VisaAskedElsewhere ==
  ASSUME NEW r \in Slots, serving'[r].step \notin {"visa.create", "visa.ready", "visa.write"} PROVE VisaAsked(r)'
BY DEF VisaAsked

LEMMA VisaAskedFollows ==
  ASSUME VisaFileInv, NEW r \in Slots, NEW rows, Follow(r, rows), VisaAnnounced(rows), NEW q \in Slots \ {r},
         undisturbed' => undisturbed
  PROVE  VisaAsked(q)'
<1>1. /\ VisaAsked(q) /\ VisaHeld(q) /\ Args(q)' = Args(q) /\ serving'[q].step = serving[q].step
      /\ serving'[q].on = serving[q].on
      /\ ~serving'[q].stale => ~serving[q].stale /\ serving[q].on \cap rows = {}
  BY DEF VisaFileInv, VisaInv, Follow, Keeps, Args
<1>2. CASE serving[q].step = "visa.create"
  <2>1. ~serving'[q].stale /\ undisturbed' =>
          <<"active">> \in serving[q].on /\ <<"active">> \notin rows /\ \A w \in Visas : ~ActiveVisa(w)
    BY <1>1, <1>2 DEF VisaAsked
  <2>2. ~serving'[q].stale /\ undisturbed' => \A w \in Visas : ~ActiveVisa(w)'
    BY <2>1 DEF VisaAnnounced
  <2> QED BY <1>1, <1>2, <2>1, <2>2 DEF VisaAsked
<1>3. CASE serving[q].step \in {"visa.ready", "visa.write"}
  <2>0. Args(q)[1] \in Visas /\ Args(q)[2] \in VisaStatus
    BY <1>1, <1>3 DEF VisaHeld
  <2>1. PICK v \in Visas, s \in VisaStatus : v = Args(q)[1] /\ s = Args(q)[2]
    BY <2>0
  <2>2. ~serving'[q].stale => v \in serving[q].on /\ v \notin rows /\ ActiveVisa(v)
    BY <1>1, <1>3, <2>1 DEF VisaAsked
  <2>3. ~serving'[q].stale => ActiveVisa(v)'
    BY <2>2 DEF VisaAnnounced, ActiveVisa
  <2>4. serving[q].step = "visa.write" /\ ~serving'[q].stale /\ s = "SUBMITTED" =>
          <<"checklist", v>> \in serving[q].on /\ <<"checklist", v>> \notin rows /\ ChecklistComplete(v)
    BY <1>1, <2>1 DEF VisaAsked
  <2>5. serving[q].step = "visa.write" /\ ~serving'[q].stale /\ s = "SUBMITTED" =>
          checklist'[v] = checklist[v] /\ visas'[v].complete = visas[v].complete
    BY <2>2, <2>4 DEF VisaAnnounced
  <2>6. serving[q].step = "visa.write" /\ ~serving'[q].stale /\ s = "SUBMITTED" =>
          <<"checklist", v>> \in serving[q].on /\ ChecklistComplete(v)'
    BY <2>4, <2>5 DEF ChecklistComplete
  <2>7. Args(q)'[1] = v /\ Args(q)'[2] = s
    BY <1>1, <2>1
  <2> QED BY <1>1, <1>3, <2>2, <2>3, <2>6, <2>7 DEF VisaAsked, ActiveVisa
<1> QED BY <1>1, <1>2, <1>3 DEF VisaAsked

\* A step that leaves the visas alone.
LEMMA VisaFileReads ==
  ASSUME VisaFileInv, VisaInv', NEW r \in Slots, NEW rows, Follow(r, rows), undisturbed' => undisturbed,
         UNCHANGED visaRows, VisaAsked(r)'
  PROVE  VisaFileInv' /\ VisaMoves
<1>1. visas' = visas /\ checklist' = checklist
  BY DEF visaRows
<1>2. \A v \in Visas : ActiveVisa(v)' <=> ActiveVisa(v)
  BY <1>1 DEF ActiveVisa
<1>3. VisaAnnounced(rows) /\ VisaMoves
  BY <1>1, <1>2 DEF VisaAnnounced, VisaMoves
<1>4. ItemsThere'
  BY <1>1 DEF VisaFileInv, ItemsThere
<1>5. OneActive'
  BY <1>1, <1>2 DEF VisaFileInv, OneActive, ActiveVisa
<1> QED BY <1>3, <1>4, <1>5, VisaAskedFollows DEF VisaFileInv

LEMMA VisaFileInitInv == VisaInit => VisaFileInv
<1> SUFFICES ASSUME VisaInit PROVE VisaFileInv
  OBVIOUS
<1>1. VisaInv /\ \A q \in Slots : serving[q] = Idle
  BY VisaInitInv, HandlersInitShape DEF VisaInit
<1>2. OneActive /\ ItemsThere
  BY DEF VisaInit, NoVisa, OneActive, ItemsThere, ActiveVisa
<1>3. Idle.step = "idle"
  BY DEF Idle
<1> QED BY <1>1, <1>2, <1>3 DEF VisaFileInv, VisaAsked

\* The requests that read and go on.
LEMMA VisaReadStep ==
  ASSUME VisaFileInv, VisaInv', NEW r \in Slots,
         \/ VisaCreateRead(r)
         \/ \E v \in Visas, status \in VisaStatus : VisaStatusRead(r, v, status)
         \/ \E v \in Visas : VisaSubmitRead(r, v)
         \/ \E v \in Visas, status \in DOMAIN ResultStatuses : VisaResultRead(r, v, status)
         \/ VisaChecklistRead(r)
  PROVE  VisaFileInv' /\ VisaMoves
<1>0. Shape /\ VisaRowsOK /\ VisaHeld(r) /\ VisaAsked(r) /\ ItemsThere
  BY DEF VisaFileInv, VisaInv
<1>1. PICK step, args, rows : Continue(r, step, args, rows)
  BY DEF VisaCreateRead, VisaStatusRead, VisaSubmitRead, VisaResultRead, VisaChecklistRead
<1>2. Follow(r, {}) /\ (undisturbed' => undisturbed) /\ UNCHANGED visaRows
  BY <1>0, <1>1, ReadsFollow
     DEF VisaCreateRead, VisaStatusRead, VisaSubmitRead, VisaResultRead, VisaChecklistRead
<1>3. visas' = visas /\ checklist' = checklist
  BY <1>2 DEF visaRows
<1>4. SUFFICES VisaAsked(r)'
  BY <1>2, VisaFileReads
<1>5. CASE VisaCreateRead(r)
  <2>1. serving'[r].step = "visa.create" /\ <<"active">> \in serving'[r].on /\ \A w \in Visas : ~ActiveVisa(w)
    BY <1>0, <1>5, ContinueEffect, ContinueHolds DEF VisaCreateRead
  <2> QED BY <1>3, <2>1 DEF VisaAsked, ActiveVisa
<1>6. ASSUME NEW v \in Visas, NEW status \in VisaStatus, VisaStatusRead(r, v, status) PROVE VisaAsked(r)'
  <2>1. /\ serving'[r].args = <<v, status>> /\ v \in serving'[r].on
        /\ serving'[r].step \in {"visa.ready", "visa.write"}
        /\ status \in VISA_TRANSITIONS[visas[v].status] /\ visas[v].status \in VisaStatus
    BY <1>0, <1>6, ContinueEffect, ContinueHolds DEF VisaStatusRead, VisaExists, VisaRowsOK, VisaRow
  <2>2. visas[v].status \notin VisaClosed /\ status # "SUBMITTED" /\ visas[v].status # "ABSENT"
    BY <2>1 DEF VISA_TRANSITIONS, VisaClosed, VisaStatus
  <2> QED BY <1>3, <2>1, <2>2 DEF VisaAsked, ActiveVisa, Args
<1>7. ASSUME NEW v \in Visas, VisaSubmitRead(r, v) PROVE VisaAsked(r)'
  <2>1. /\ serving'[r].args = <<v, "SUBMITTED">> /\ v \in serving'[r].on
        /\ serving'[r].step = "visa.ready" /\ visas[v].status = "READY"
    BY <1>0, <1>7, ContinueEffect, ContinueHolds DEF VisaSubmitRead
  <2> QED BY <1>3, <2>1 DEF VisaAsked, ActiveVisa, Args, VisaClosed
<1>8. ASSUME NEW v \in Visas, NEW status \in DOMAIN ResultStatuses, VisaResultRead(r, v, status) PROVE VisaAsked(r)'
  <2>1. /\ serving'[r].args = <<v, status>> /\ v \in serving'[r].on
        /\ serving'[r].step = "visa.write" /\ visas[v].status \in ResultStatuses[status]
    BY <1>0, <1>8, ContinueEffect, ContinueHolds DEF VisaResultRead
  <2>2. status # "SUBMITTED" /\ visas[v].status \in {"SUBMITTED", "APPOINTMENT", "INTERVIEW"}
    BY <2>1 DEF ResultStatuses
  <2> QED BY <1>3, <2>1, <2>2 DEF VisaAsked, ActiveVisa, Args, VisaClosed
<1>9. CASE VisaChecklistRead(r)
  <2>1. /\ serving[r].step = "visa.ready" /\ serving'[r].step = "visa.write"
        /\ serving'[r].args = serving[r].args /\ ChecklistComplete(Args(r)[1])
        /\ serving'[r].on = serving[r].on \cup {<<"checklist", Args(r)[1]>>}
        /\ serving'[r].stale = serving[r].stale
    BY <1>0, <1>9, ContinueEffect, ContinueHolds DEF VisaChecklistRead, At, Args
  <2>2. PICK v \in Visas : v = Args(r)[1]
    BY <1>0, <2>1 DEF VisaHeld
  <2>3. ChecklistComplete(v)'
    BY <1>3, <2>1, <2>2 DEF ChecklistComplete
  <2>4. Args(r)' = Args(r)
    BY <2>1 DEF Args
  <2>5. ~serving'[r].stale => v \in serving'[r].on /\ ActiveVisa(v)
    BY <1>0, <2>1, <2>2 DEF VisaAsked
  <2> QED BY <1>3, <2>1, <2>2, <2>3, <2>4, <2>5 DEF VisaAsked, ActiveVisa
<1> QED BY <1>5, <1>6, <1>7, <1>8, <1>9

\* The requests that write.
LEMMA VisaWriteStep ==
  ASSUME VisaFileInv, VisaInv', NEW r \in Slots,
         \/ \E v \in Visas : VisaCreate(r, v)
         \/ \E v \in Visas, t \in Items, state \in ItemStates : ItemCreate(r, v, t, state) \/ ItemUpdate(r, v, t, state)
         \/ \E t \in Required : VisaItem(r, t)
         \/ VisaWrite(r)
  PROVE  VisaFileInv' /\ VisaMoves
<1>0. Shape /\ VisaRowsOK /\ VisaHeld(r) /\ VisaAsked(r) /\ ItemsThere /\ OneActive
  BY DEF VisaFileInv, VisaInv
<1>00. Idle.step = "idle"
  BY DEF Idle
<1>1. SUFFICES ASSUME NEW rows, Follow(r, rows), VisaAnnounced(rows), undisturbed' => undisturbed,
                      serving'[r].step \notin {"visa.create", "visa.ready", "visa.write"},
                      ItemsThere', OneActive', VisaMoves
               PROVE  VisaFileInv' /\ VisaMoves
  <2>1. ASSUME NEW v \in Visas, VisaCreate(r, v)
        PROVE  \E rows : /\ Follow(r, rows) /\ VisaAnnounced(rows) /\ (undisturbed' => undisturbed)
                         /\ serving'[r].step \notin {"visa.create", "visa.ready", "visa.write"}
                         /\ ItemsThere' /\ OneActive' /\ VisaMoves
    <3>1. PICK next : next = IF Required = {} THEN Idle ELSE [Idle EXCEPT !.step = "visa.items", !.args = <<v>>]
      OBVIOUS
    <3>2. Slot(next) /\ next.step \in {"idle", "visa.items"}
      BY <1>00, <3>1, SentOff, IdleSlot
    <3>3. PICK row : row = [status |-> "NOT_STARTED", submitted |-> FALSE, complete |-> Required = {}]
      OBVIOUS
    <3>4. /\ Write(r, {v} \cup {<<"active">>}, next) /\ visas' = [visas EXCEPT ![v] = row] /\ checklist' = checklist
          /\ visas[v].status = "ABSENT" /\ serving[r].step = "visa.create"
      BY <2>1, <3>1, <3>3 DEF VisaCreate, SetVisa, At, VisaExists
    <3>5. PICK rows : rows = {v, <<"active">>}
      OBVIOUS
    <3>6. Write(r, rows, next)
      BY <3>4, <3>5
    <3>7. Follow(r, rows) /\ serving'[r] = next /\ (undisturbed' => undisturbed /\ ~serving[r].stale)
      BY <1>0, <3>2, <3>6, WritesFollow
    <3>8. visas'[v] = row /\ \A w \in Visas \ {v} : visas'[w] = visas[w]
      BY <1>0, <3>4 DEF VisaRowsOK
    <3>9. undisturbed' => \A w \in Visas : ~ActiveVisa(w)
      BY <1>0, <3>4, <3>7 DEF VisaAsked
    <3>10. OneActive'
      BY <3>8, <3>9 DEF OneActive, ActiveVisa
    <3>11. ItemsThere'
      <4>1. row.complete = TRUE => Required = {}
        BY <3>3, Zenon
      <4>2. visas'[v].complete = TRUE => \A t \in Required : checklist[v][t] # "ABSENT"
        BY <3>8, <4>1
      <4> QED BY <1>0, <3>4, <3>8, <4>2 DEF ItemsThere
    <3>12. VisaMoves
      BY <3>3, <3>4, <3>8 DEF VisaMoves, VisaClosed
    <3>13. VisaAnnounced(rows)
      BY <3>4, <3>5, <3>8 DEF VisaAnnounced
    <3> QED BY <3>2, <3>7, <3>10, <3>11, <3>12, <3>13
  <2>2. ASSUME NEW v \in Visas, NEW item \in ItemStates, NEW t \in Items, NEW done \in BOOLEAN, NEW next,
               Slot(next), next.step \notin {"visa.create", "visa.ready", "visa.write"},
               checklist' = [checklist EXCEPT ![v][t] = item],
               visas' = visas \/ visas' = [visas EXCEPT ![v].complete = done],
               visas' # visas /\ done => \A u \in Required \ {t} : checklist[v][u] # "ABSENT",
               Put(r, {<<"checklist", v>>}, next)
        PROVE  \E rows : /\ Follow(r, rows) /\ VisaAnnounced(rows) /\ (undisturbed' => undisturbed)
                         /\ serving'[r].step \notin {"visa.create", "visa.ready", "visa.write"}
                         /\ ItemsThere' /\ OneActive' /\ VisaMoves
    <3>1. PICK rows : rows = {<<"checklist", v>>}
      OBVIOUS
    <3>2. Follow(r, rows) /\ serving'[r] = next /\ (undisturbed' => undisturbed)
      BY <1>0, <2>2, <3>1, PutsFollow
    <3>3. \A w \in Visas : visas'[w].status = visas[w].status
      BY <1>0, <2>2 DEF VisaRowsOK, VisaRow
    <3>4. \A w \in Visas \ {v} : visas'[w] = visas[w] /\ checklist'[w] = checklist[w]
      BY <1>0, <2>2 DEF VisaRowsOK, VisaRow, ItemsThere
    <3>5. \A w \in Visas : ActiveVisa(w)' <=> ActiveVisa(w)
      BY <3>3 DEF ActiveVisa
    <3>6. VisaAnnounced(rows) /\ VisaMoves
      BY <3>1, <3>2, <3>3, <3>4, <3>5 DEF VisaAnnounced, VisaMoves
    <3>7. OneActive'
      BY <1>0, <3>2, <3>3 DEF OneActive, ActiveVisa
    <3>8. ItemsThere'
      <4>0. item # "ABSENT" /\ Required \subseteq Items
        BY DEF ItemStates, Items
      <4>1. checklist' \in [Visas -> [Items -> {"ABSENT"} \cup ItemStates]]
        BY <1>0, <2>2 DEF ItemsThere
      <4>2. \A w \in Visas, u \in Required : checklist[w][u] # "ABSENT" => checklist'[w][u] # "ABSENT"
        BY <1>0, <2>2, <4>0 DEF ItemsThere
      <4>3. checklist'[v][t] # "ABSENT"
        BY <1>0, <2>2, <4>0 DEF ItemsThere
      <4>4. ASSUME visas'[v].complete = TRUE PROVE \A u \in Required : checklist'[v][u] # "ABSENT"
        <5>1. CASE visas' = visas
          BY <1>0, <4>2, <4>4, <5>1 DEF ItemsThere
        <5>2. CASE visas' # visas
          <6>1. visas'[v].complete = done
            BY <1>0, <2>2, <5>2 DEF VisaRowsOK, VisaRow
          <6> QED BY <2>2, <4>2, <4>3, <4>4, <5>2, <6>1
        <5> QED BY <5>1, <5>2
      <4> QED BY <1>0, <3>4, <4>1, <4>2, <4>4 DEF ItemsThere
    <3> QED BY <2>2, <3>2, <3>6, <3>7, <3>8
  <2>3. ASSUME NEW v \in Visas, NEW t \in Items, NEW state \in ItemStates,
               ItemCreate(r, v, t, state) \/ ItemUpdate(r, v, t, state)
        PROVE  \E rows : /\ Follow(r, rows) /\ VisaAnnounced(rows) /\ (undisturbed' => undisturbed)
                         /\ serving'[r].step \notin {"visa.create", "visa.ready", "visa.write"}
                         /\ ItemsThere' /\ OneActive' /\ VisaMoves
    <3>1. checklist' = [checklist EXCEPT ![v][t] = state]
      BY <2>3 DEF ItemCreate, ItemUpdate, SetItem
    <3>2. visas' = visas /\ Put(r, {<<"checklist", v>>}, Idle)
      BY <2>3 DEF ItemCreate, ItemUpdate, SetItem
    <3>3. TRUE \in BOOLEAN
      OBVIOUS
    <3> QED BY <1>00, <2>2, <3>1, <3>2, <3>3, IdleSlot
  <2>4. ASSUME NEW t \in Required, VisaItem(r, t)
        PROVE  \E rows : /\ Follow(r, rows) /\ VisaAnnounced(rows) /\ (undisturbed' => undisturbed)
                         /\ serving'[r].step \notin {"visa.create", "visa.ready", "visa.write"}
                         /\ ItemsThere' /\ OneActive' /\ VisaMoves
    <3>1. serving[r].step = "visa.items" /\ Args(r)[1] \in Visas
      BY <1>0, <2>4 DEF VisaItem, VisaHeld, At
    <3>2. PICK v \in Visas : v = Args(r)[1]
      BY <3>1
    <3>3. PICK left : left = {u \in Required : checklist[v][u] = "ABSENT"} \ {t}
      OBVIOUS
    <3>4. PICK done \in BOOLEAN : done = (left = {})
      OBVIOUS
    <3>5. PICK next : next = IF left = {} THEN Idle ELSE serving[r]
      OBVIOUS
    <3>6. Slot(next) /\ next.step \in {"idle", "visa.items"}
      BY <1>0, <1>00, <3>1, <3>5, IdleSlot DEF Shape
    <3>7. /\ checklist' = [checklist EXCEPT ![v][t] = "PENDING"]
          /\ visas' = [visas EXCEPT ![v].complete = done]
          /\ Put(r, {<<"checklist", v>>}, next)
      BY <2>4, <3>2, <3>3, <3>4, <3>5 DEF VisaItem
    <3>8. done => \A u \in Required \ {t} : checklist[v][u] # "ABSENT"
      BY <3>3, <3>4
    <3>9. t \in Items /\ "PENDING" \in ItemStates
      BY DEF Items, ItemStates
    <3> QED BY <2>2, <3>6, <3>7, <3>8, <3>9
  <2>5. ASSUME VisaWrite(r)
        PROVE  \E rows : /\ Follow(r, rows) /\ VisaAnnounced(rows) /\ (undisturbed' => undisturbed)
                         /\ serving'[r].step \notin {"visa.create", "visa.ready", "visa.write"}
                         /\ ItemsThere' /\ OneActive' /\ VisaMoves
    <3>1. serving[r].step = "visa.write" /\ Args(r)[1] \in Visas /\ Args(r)[2] \in VisaStatus
      BY <1>0, <2>5 DEF VisaWrite, VisaHeld, At
    <3>2. PICK v \in Visas, status \in VisaStatus : v = Args(r)[1] /\ status = Args(r)[2]
      BY <3>1
    <3>3. PICK next : next = IF status = "GRANTED"
                             THEN [Idle EXCEPT !.step = "generation", !.args = GenerationOf(v, "VISA_GRANTED")]
                             ELSE Idle
      OBVIOUS
    <3>4. Slot(next) /\ next.step \in {"idle", "generation"}
      BY <1>00, <3>3, SentOff, IdleSlot
    <3>5. PICK rows : rows = {v}
      OBVIOUS
    <3>6. /\ visas' = [visas EXCEPT ![v] = [visas[v] EXCEPT !.status = status, !.submitted = @ \/ status = "SUBMITTED"]]
          /\ Write(r, {v} \cup {}, next) /\ checklist' = checklist
      BY <2>5, <3>2, <3>3 DEF VisaWrite, SetVisa
    <3>7. Write(r, rows, next)
      BY <3>5, <3>6
    <3>8. Follow(r, rows) /\ serving'[r] = next /\ (undisturbed' => undisturbed /\ ~serving[r].stale)
      BY <1>0, <3>4, <3>7, WritesFollow
    <3>9. /\ visas'[v].status = status /\ visas'[v].complete = visas[v].complete
          /\ \A w \in Visas \ {v} : visas'[w] = visas[w]
      BY <1>0, <3>6 DEF VisaRowsOK, VisaRow
    <3>10. undisturbed' => undisturbed /\ ActiveVisa(v)
      BY <1>0, <3>1, <3>2, <3>8 DEF VisaAsked
    <3>11. undisturbed' => \A w \in Visas : ActiveVisa(w)' => ActiveVisa(w)
      BY <3>9, <3>10 DEF ActiveVisa
    <3>12. OneActive'
      BY <1>0, <3>9, <3>10 DEF OneActive, ActiveVisa
    <3>13. ItemsThere'
      BY <1>0, <3>6, <3>9 DEF ItemsThere
    <3>14. VisaAnnounced(rows)
      BY <3>5, <3>6, <3>9, <3>10, <3>11 DEF VisaAnnounced
    <3>15. undisturbed' /\ status = "SUBMITTED" => ChecklistComplete(v)
      BY <1>0, <3>1, <3>2, <3>8 DEF VisaAsked
    <3>16. VisaMoves
      BY <3>9, <3>10, <3>15 DEF VisaMoves, ActiveVisa
    <3> QED BY <3>4, <3>8, <3>12, <3>13, <3>14, <3>16
  <2> QED BY <2>1, <2>3, <2>4, <2>5
<1>2. VisaAsked(r)'
  BY <1>1, VisaAskedElsewhere
<1> QED BY <1>1, <1>2, VisaAskedFollows DEF VisaFileInv

LEMMA VisaFileStep == VisaFileInv /\ [VisaNext]_visaVars => VisaFileInv' /\ VisaMoves
<1> SUFFICES ASSUME VisaFileInv, [VisaNext]_visaVars PROVE VisaFileInv' /\ VisaMoves
  OBVIOUS
<1>0. Shape /\ VisaInv /\ VisaInv'
  BY VisaStep DEF VisaFileInv, VisaInv
<1>1. CASE UNCHANGED visaVars
  <2>1. /\ visas' = visas /\ checklist' = checklist /\ serving' = serving /\ undisturbed' = undisturbed
    BY <1>1 DEF visaVars, visaRows, handlerVars
  <2> QED BY <1>0, <2>1
         DEF VisaFileInv, OneActive, ItemsThere, VisaAsked, VisaMoves, ActiveVisa, ChecklistComplete, Args
<1>2. ASSUME NEW r \in Slots, GenerationNext(r) \/ Generate(r), UNCHANGED visaRows PROVE VisaFileInv' /\ VisaMoves
  <2>1. Return(r) \/ \E step, args, rows : Continue(r, step, args, rows)
    BY <1>2 DEF GenerationNext, Generate
  <2>2. Follow(r, {}) /\ (undisturbed' => undisturbed)
    BY <1>0, <2>1, ReadsFollow
  <2>3. VisaAsked(r)'
    BY <1>0, <1>2, GenerationOthers, VisaAskedElsewhere
  <2> QED BY <1>0, <1>2, <2>2, <2>3, VisaFileReads
<1>3. ASSUME NEW r \in Slots, Dies(r), UNCHANGED visaRows PROVE VisaFileInv' /\ VisaMoves
  <2>1. Follow(r, {}) /\ (undisturbed' => undisturbed) /\ serving'[r] = Idle
    BY <1>0, <1>3, ReadsFollow, ReturnEffect DEF Dies
  <2>2. VisaAsked(r)'
    BY <2>1, VisaAskedElsewhere DEF Idle
  <2> QED BY <1>0, <1>3, <2>1, <2>2, VisaFileReads
<1> QED BY <1>0, <1>1, <1>2, <1>3, VisaReadStep, VisaWriteStep DEF VisaNext

\* The case has one visa under way at most, a result stays, and a visa is submitted only while
\* no item of its checklist is required and open, and with an item for each template when its
\* creation came to its end, as long as no request has written what it decided on rows that
\* have changed: for any number of visas, templates, further items and requests.
THEOREM VisasKeepTheirResults == VisaSpec => VisaHolds
<1>1. VisaSpec => []VisaFileInv
  BY VisaFileInitInv, VisaFileStep, PTL DEF VisaSpec
<1>2. VisaFileInv => \A v \in Visas : visas[v].complete = TRUE <=> visas[v].complete
  BY DEF VisaFileInv, VisaInv, VisaRowsOK, VisaRow
<1>3. VisaFileInv' => ResultWasSubmitted' /\ OneActive'
  BY DEF VisaFileInv, VisaInv, VisaRowsOK, ResultWasSubmitted, Results
<1>4. VisaFileInv /\ [VisaNext]_visaVars =>
        [/\ ResultWasSubmitted'
         /\ undisturbed' =>
              /\ \A v, w \in Visas : ActiveVisa(v)' /\ ActiveVisa(w)' => v = w
              /\ \A v \in Visas :
                   visas'[v].status # visas[v].status =>
                     /\ visas[v].status \notin VisaClosed
                     /\ visas'[v].status = "SUBMITTED" =>
                          /\ ChecklistComplete(v)
                          /\ visas[v].complete => \A t \in Required : checklist[v][t] # "ABSENT"]_visaVars
  <2>1. VisaFileInv => \A v \in Visas : visas[v].complete = TRUE => \A t \in Required : checklist[v][t] # "ABSENT"
    BY DEF VisaFileInv, ItemsThere
  <2> QED BY <1>2, <1>3, <2>1, VisaFileStep DEF OneActive, VisaMoves
<1> QED BY <1>1, <1>4, PTL DEF VisaSpec, VisaHolds

-----------------------------------------------------------------------------
(* What a partner is paid                                                   *)

OneLive == undisturbed => \A rule \in Rules : \A t, u \in Live(rule) : t = u

\* Who is to create, to move or to calculate a transaction knows, unless he is stale, what he
\* has read: the link and that nothing is live, the status, the rate and what was paid.
EarnHeld(r) ==
  LET t == Args(r)[1]  fresh == ~serving[r].stale
  IN  /\ serving[r].step \in {"commission.check", "commission.create"} /\ fresh =>
           <<"links", Args(r)[2]>> \in serving[r].on /\ Linked(Args(r)[2])
      /\ serving[r].step = "commission.create" /\ fresh /\ undisturbed =>
           <<"live", t>> \in serving[r].on /\ Live(t) = {}
      /\ serving[r].step = "linkage.write" /\ fresh => t \in serving[r].on /\ transactions[t].status = "PENDING"
      /\ serving[r].step = "commission.write" => Args(r)[2] # "CALCULATED"
      /\ serving[r].step = "commission.write" /\ fresh =>
           t \in serving[r].on /\ transactions[t].status \notin {"PAID", "CANCELLED"}
      /\ serving[r].step \in {"calculate.rule", "calculate.source", "calculate.write"} /\ fresh =>
           t \in serving[r].on /\ transactions[t].status = "ELIGIBLE"
      /\ serving[r].step \in {"calculate.source", "calculate.write"} /\ fresh =>
           transactions[t].rule \in serving[r].on
      /\ serving[r].step = "calculate.source" /\ fresh => Args(r)[2] = rates[transactions[t].rule]
      /\ serving[r].step = "calculate.write" /\ fresh =>
           <<"payment">> \in serving[r].on /\ Args(r)[2] = <<rates[transactions[t].rule], paid>>

EarnSteps == {"commission.check", "commission.create", "linkage.write", "commission.write",
              "calculate.rule", "calculate.source", "calculate.write"}

EarnInv == CommissionInv /\ OneLive /\ \A r \in Slots : EarnHeld(r)

LinksAnnounced(rows) == \A s \in Referred : <<"links", s>> \in rows \/ (Linked(s)' <=> Linked(s))

\* Whatever a transaction rests on is announced to those who have read it.
EarnAnnounced(rows) ==
  /\ \A t \in Transactions : t \in rows \/ transactions'[t] = transactions[t]
  /\ \A rule \in Rules : rule \in rows \/ rates'[rule] = rates[rule]
  /\ <<"payment">> \in rows \/ paid' = paid
  /\ LinksAnnounced(rows)
  /\ \A rule \in Rules :
       <<"live", rule>> \in rows \/ (undisturbed' => undisturbed /\ Live(rule)' \subseteq Live(rule))

\* What CommissionStands says of a step, next to the invariants.
EarnMoves ==
  undisturbed' =>
    \A t \in Transactions :
      /\ transactions[t].status = "ABSENT" /\ transactions'[t].status # "ABSENT" => Linked(transactions'[t].student)
      /\ transactions[t].status # "CALCULATED" /\ transactions'[t].status = "CALCULATED" =>
           transactions'[t].amount = <<rates[transactions[t].rule], paid>>
      /\ transactions[t].status \in Approved => transactions'[t].amount = transactions[t].amount
      /\ transactions[t].status \notin {"ABSENT", "PENDING"} => transactions'[t].student = transactions[t].student
      /\ transactions[t].status \in {"PAID", "CANCELLED"} => transactions'[t].status = transactions[t].status

LEMMA EarnElsewhere ==
  ASSUME NEW r \in Slots, serving'[r].step \notin EarnSteps PROVE EarnHeld(r)'
BY DEF EarnHeld, EarnSteps

LEMMA EarnFollows ==
  ASSUME EarnInv, NEW r \in Slots, NEW rows, Follow(r, rows), EarnAnnounced(rows), NEW q \in Slots \ {r},
         undisturbed' => undisturbed
  PROVE  EarnHeld(q)'
<1>1. /\ EarnHeld(q) /\ CommissionHeld(q) /\ Args(q)' = Args(q) /\ serving'[q].step = serving[q].step
      /\ serving'[q].on = serving[q].on
      /\ ~serving'[q].stale => ~serving[q].stale /\ serving[q].on \cap rows = {}
  BY DEF EarnInv, CommissionInv, Follow, Keeps, Args
<1>2. PICK on, args, t, s : on = serving[q].on /\ args = Args(q) /\ t = args[1] /\ s = args[2]
  OBVIOUS
<1>3. s \in Referred /\ ~serving'[q].stale /\ <<"links", s>> \in on => (Linked(s)' <=> Linked(s))
  BY <1>1, <1>2 DEF EarnAnnounced, LinksAnnounced
<1>4. ~serving'[q].stale /\ <<"payment">> \in on => paid' = paid
  BY <1>1, <1>2 DEF EarnAnnounced
<1>5. \A rule \in Rules : ~serving'[q].stale /\ rule \in on => rates'[rule] = rates[rule]
  BY <1>1, <1>2 DEF EarnAnnounced
<1>6. t \in Transactions /\ ~serving'[q].stale /\ t \in on => transactions'[t] = transactions[t]
  BY <1>1, <1>2 DEF EarnAnnounced
<1>7. CASE serving[q].step \in {"commission.check", "commission.create"}
  <2>1. t \in Rules /\ s \in Referred
    BY <1>1, <1>2, <1>7 DEF CommissionHeld
  <2>2. ~serving'[q].stale => <<"links", s>> \in on /\ Linked(s)'
    BY <1>1, <1>2, <1>3, <1>7, <2>1 DEF EarnHeld
  <2>3. serving[q].step = "commission.create" /\ ~serving'[q].stale /\ undisturbed' =>
          <<"live", t>> \in on /\ Live(t)' = {}
    <3>1. <<"live", t>> \in on /\ ~serving'[q].stale /\ undisturbed' => undisturbed /\ Live(t)' \subseteq Live(t)
      BY <1>1, <1>2, <2>1 DEF EarnAnnounced
    <3>2. serving[q].step = "commission.create" /\ ~serving[q].stale /\ undisturbed => <<"live", t>> \in on /\ Live(t) = {}
      BY <1>1, <1>2 DEF EarnHeld
    <3> QED BY <1>1, <3>1, <3>2
  <2>4. Args(q)'[1] = t /\ Args(q)'[2] = s /\ serving'[q].on = on
    BY <1>1, <1>2
  <2> QED BY <1>1, <1>7, <2>2, <2>3, <2>4 DEF EarnHeld, Live, Linked
<1>8. CASE serving[q].step \in {"linkage.write", "commission.write"}
  <2>1. t \in Transactions
    BY <1>1, <1>2, <1>8 DEF CommissionHeld
  <2> QED BY <1>1, <1>2, <1>6, <1>8, <2>1 DEF EarnHeld
<1>9. CASE serving[q].step \in {"calculate.rule", "calculate.source", "calculate.write"}
  <2>1. t \in Transactions /\ transactions[t].rule \in Rules
    BY <1>1, <1>2, <1>9 DEF CommissionHeld, EarnInv, CommissionInv, CommissionRowsOK
  <2> QED BY <1>1, <1>2, <1>4, <1>5, <1>6, <1>9, <2>1 DEF EarnHeld
<1>10. CASE serving[q].step \notin EarnSteps
  BY <1>1, <1>10 DEF EarnHeld, EarnSteps
<1> QED BY <1>7, <1>8, <1>9, <1>10 DEF EarnSteps

\* A step that leaves the transactions alone.
LEMMA EarnLeaves ==
  ASSUME EarnInv, CommissionInv', NEW r \in Slots, NEW rows, Follow(r, rows), undisturbed' => undisturbed,
         transactions' = transactions, EarnHeld(r)',
         \A rule \in Rules : rule \in rows \/ rates'[rule] = rates[rule],
         <<"payment">> \in rows \/ paid' = paid, LinksAnnounced(rows)
  PROVE  EarnInv' /\ EarnMoves
<1>1. \A rule \in Rules : Live(rule)' = Live(rule)
  BY DEF Live
<1>2. EarnAnnounced(rows) /\ EarnMoves
  BY <1>1 DEF EarnAnnounced, EarnMoves
<1>3. OneLive'
  BY <1>1 DEF EarnInv, OneLive
<1> QED BY <1>2, <1>3, EarnFollows DEF EarnInv

LEMMA EarnInitInv == CommissionInit => EarnInv
<1> SUFFICES ASSUME CommissionInit PROVE EarnInv
  OBVIOUS
<1>1. CommissionInv /\ \A q \in Slots : serving[q] = Idle
  BY CommissionInitInv, HandlersInitShape DEF CommissionInit
<1>2. OneLive
  BY DEF CommissionInit, NoTransaction, OneLive, Live
<1>3. Idle.step = "idle"
  BY DEF Idle
<1> QED BY <1>1, <1>2, <1>3 DEF EarnInv, EarnHeld

\* The requests that read and go on.
LEMMA EarnReadStep ==
  ASSUME EarnInv, CommissionInv', NEW r \in Slots,
         \/ \E rule \in Rules, s \in Referred : CreateLinked(r, rule, s)
         \/ \E t \in Transactions, s \in Referred : LinkageRead(r, t, s)
         \/ \E t \in Transactions : CalculateRead(r, t)
         \/ \E t \in Transactions, status \in DOMAIN COMMISSION_STEPS : CommissionRead(r, t, status)
         \/ CreateCheck(r) \/ CalculateRule(r) \/ CalculateSource(r)
         \/ \E s \in Referred : LinkCreateRead(r, s)
  PROVE  EarnInv' /\ EarnMoves
<1>0. Shape /\ CommissionRowsOK /\ CommissionHeld(r) /\ EarnHeld(r)
  BY DEF EarnInv, CommissionInv
<1>1. \E step, args, rows : Looks(r, step, args, rows)
  BY DEF CreateLinked, LinkageRead, CalculateRead, CommissionRead, CreateCheck, CalculateRule, CalculateSource,
         LinkCreateRead
<1>2. Follow(r, {}) /\ (undisturbed' => undisturbed) /\ UNCHANGED commissionRows
  BY <1>0, <1>1, ReadsFollow DEF Looks
<1>3. UNCHANGED <<transactions, rates, paid, links>>
  BY <1>2 DEF commissionRows
<1>a. LinksAnnounced({})
  BY <1>3 DEF LinksAnnounced, Linked
<1>4. SUFFICES EarnHeld(r)'
  BY <1>2, <1>3, <1>a, EarnLeaves
<1>5. ASSUME NEW step, NEW args, NEW rows, Looks(r, step, args, rows)
      PROVE  /\ serving'[r].step = step /\ Args(r)' = args /\ serving'[r].on = serving[r].on \cup rows
             /\ serving'[r].stale = serving[r].stale /\ undisturbed' = undisturbed
  BY <1>0, <1>5, ContinueEffect, ContinueHolds DEF Looks, Args
<1>6. /\ \A s : Linked(s)' <=> Linked(s)
      /\ \A rule : Live(rule)' = Live(rule)
  BY <1>3 DEF Linked, Live
<1>7. ASSUME NEW rule \in Rules, NEW s \in Referred, CreateLinked(r, rule, s) PROVE EarnHeld(r)'
  <2>1. /\ serving'[r].step = "commission.check" /\ Args(r)' = <<rule, s>>
        /\ <<"links", s>> \in serving'[r].on /\ Linked(s)
    BY <1>5, <1>7 DEF CreateLinked
  <2>2. Args(r)'[2] = s /\ Linked(s)'
    BY <1>6, <2>1
  <2> QED BY <2>1, <2>2 DEF EarnHeld, Linked
<1>8. ASSUME NEW t \in Transactions, CalculateRead(r, t) PROVE EarnHeld(r)'
  <2>1. /\ serving'[r].step = "calculate.rule" /\ Args(r)' = <<t>> /\ t \in serving'[r].on
        /\ "CALCULATED" \in COMMISSION_STEPS[transactions[t].status]
    BY <1>5, <1>8 DEF CalculateRead
  <2>2. transactions[t].status \in CommissionStatus \cup {"ABSENT"}
    BY <1>0 DEF CommissionRowsOK, TransactionRow
  <2>3. transactions[t].status = "ELIGIBLE"
    BY <2>1, <2>2 DEF COMMISSION_STEPS, CommissionStatus
  <2> QED BY <1>3, <2>1, <2>3 DEF EarnHeld
<1>9. ASSUME NEW t \in Transactions, NEW status \in DOMAIN COMMISSION_STEPS, CommissionRead(r, t, status)
      PROVE  EarnHeld(r)'
  <2>1. /\ serving'[r].step = "commission.write" /\ Args(r)' = <<t, status>> /\ t \in serving'[r].on
        /\ status \in COMMISSION_STEPS[transactions[t].status] /\ status # "CALCULATED"
    BY <1>5, <1>9 DEF CommissionRead
  <2>2. transactions[t].status \notin {"PAID", "CANCELLED"}
    BY <2>1 DEF COMMISSION_STEPS
  <2> QED BY <1>3, <2>1, <2>2 DEF EarnHeld
<1>10. CASE CreateCheck(r)
  <2>1. PICK rule, s, args : args = Args(r) /\ rule = args[1] /\ s = args[2]
    OBVIOUS
  <2>2. /\ serving[r].step = "commission.check" /\ serving'[r].step = "commission.create" /\ Args(r)' = args
        /\ serving'[r].on = serving[r].on \cup {<<"live", rule>>} /\ serving'[r].stale = serving[r].stale
        /\ Live(rule) = {}
    BY <1>5, <1>10, <2>1 DEF CreateCheck, At
  <2>3. Live(rule)' = {}
    BY <1>6, <2>2
  <2>4. ~serving'[r].stale => <<"links", s>> \in serving'[r].on /\ Linked(s)'
    BY <1>0, <1>6, <2>1, <2>2 DEF EarnHeld
  <2>5. Args(r)'[1] = rule /\ Args(r)'[2] = s
    BY <2>1, <2>2
  <2> QED BY <2>2, <2>3, <2>4, <2>5 DEF EarnHeld, Live, Linked
<1>11. CASE CalculateRule(r)
  <2>1. PICK t : t = Args(r)[1]
    OBVIOUS
  <2>2. PICK rule : rule = transactions[t].rule
    OBVIOUS
  <2>3. /\ serving[r].step = "calculate.rule" /\ serving'[r].step = "calculate.source" /\ Args(r)' = <<t, rates[rule]>>
        /\ serving'[r].on = serving[r].on \cup {rule} /\ serving'[r].stale = serving[r].stale
    BY <1>5, <1>11, <2>1, <2>2 DEF CalculateRule, At
  <2> QED BY <1>0, <1>3, <2>1, <2>2, <2>3 DEF EarnHeld
<1>12. CASE CalculateSource(r)
  <2>1. PICK t, rate : t = Args(r)[1] /\ rate = Args(r)[2]
    OBVIOUS
  <2>2. /\ serving[r].step = "calculate.source" /\ serving'[r].step = "calculate.write"
        /\ Args(r)' = <<t, <<rate, paid>>>>
        /\ serving'[r].on = serving[r].on \cup {<<"payment">>} /\ serving'[r].stale = serving[r].stale
    BY <1>5, <1>12, <2>1 DEF CalculateSource, At
  <2> QED BY <1>0, <1>3, <2>1, <2>2 DEF EarnHeld
<1>13. ASSUME NEW s \in Referred, LinkCreateRead(r, s) PROVE EarnHeld(r)'
  BY <1>5, <1>13, EarnElsewhere DEF LinkCreateRead, EarnSteps
<1>14. ASSUME NEW t \in Transactions, NEW s \in Referred, LinkageRead(r, t, s) PROVE EarnHeld(r)'
  <2>1. /\ serving'[r].step = "linkage.write" /\ Args(r)' = <<t, s>> /\ t \in serving'[r].on
        /\ transactions[t].status = "PENDING"
    BY <1>5, <1>14 DEF LinkageRead
  <2> QED BY <1>3, <2>1 DEF EarnHeld
<1> QED BY <1>7, <1>8, <1>9, <1>10, <1>11, <1>12, <1>13, <1>14

\* A write of one transaction, live in the end only if it was, or if its rule had none.
LEMMA EarnSets ==
  ASSUME EarnInv, CommissionInv', NEW r \in Slots, NEW t \in Transactions, NEW row \in TransactionRow, NEW rows,
         SetTransaction(r, t, row, rows),
         Recorded(t) => row.rule = transactions[t].rule,
         transactions[t].status \in {"ABSENT", "CANCELLED"} /\ undisturbed /\ ~serving[r].stale =>
           \/ row.status \in {"ABSENT", "CANCELLED"}
           \/ Live(row.rule) = {} /\ <<"live", row.rule>> \in rows,
         undisturbed /\ ~serving[r].stale =>
           /\ transactions[t].status = "ABSENT" /\ row.status # "ABSENT" => Linked(row.student)
           /\ transactions[t].status \notin {"ABSENT", "PENDING"} => row.student = transactions[t].student
           /\ transactions[t].status # "CALCULATED" /\ row.status = "CALCULATED" =>
                row.amount = <<rates[transactions[t].rule], paid>>
           /\ transactions[t].status \in Approved => row.amount = transactions[t].amount
           /\ transactions[t].status \in {"PAID", "CANCELLED"} => row.status = transactions[t].status
  PROVE  EarnInv' /\ EarnMoves
<1>0. Shape /\ CommissionRowsOK /\ OneLive
  BY DEF EarnInv, CommissionInv
<1>1. PICK all : all = {t} \cup rows
  OBVIOUS
<1>2. Write(r, all, Idle) /\ transactions' = [transactions EXCEPT ![t] = row] /\ UNCHANGED <<rates, paid, links>>
  BY <1>1 DEF SetTransaction
<1>3. Follow(r, all) /\ serving'[r] = Idle /\ (undisturbed' => undisturbed /\ ~serving[r].stale)
  BY <1>0, <1>2, IdleSlot, WritesFollow
<1>4. transactions'[t] = row /\ \A u \in Transactions \ {t} : transactions'[u] = transactions[u]
  BY <1>0, <1>2 DEF CommissionRowsOK
<1>5. EarnMoves
  BY <1>3, <1>4 DEF EarnMoves
<1>6. ASSUME undisturbed', NEW rule \in Rules
      PROVE  Live(rule)' \subseteq Live(rule) \/ (Live(rule) = {} /\ Live(rule)' \subseteq {t} /\ <<"live", rule>> \in rows)
  <2>1. \A u \in Live(rule)' : u = t \/ u \in Live(rule)
    BY <1>4 DEF Live
  <2>2. CASE t \in Live(rule)' /\ t \notin Live(rule)
    <3>1. row.rule = rule /\ row.status \notin {"ABSENT", "CANCELLED"}
      BY <1>4, <2>2 DEF Live
    <3>2. transactions[t].rule # rule \/ transactions[t].status \in {"ABSENT", "CANCELLED"}
      BY <2>2 DEF Live
    <3>3. transactions[t].status \in {"ABSENT", "CANCELLED"}
      BY <3>1, <3>2 DEF Recorded
    <3> QED BY <1>3, <1>6, <2>1, <3>1, <3>3
  <2> QED BY <2>1, <2>2
<1>7. OneLive'
  <2>1. SUFFICES ASSUME undisturbed', NEW rule \in Rules PROVE \A u, v \in Live(rule)' : u = v
    BY DEF OneLive, Live
  <2> QED BY <1>0, <1>3, <1>6, <2>1 DEF OneLive
<1>a. LinksAnnounced(all)
  BY <1>2 DEF LinksAnnounced, Linked
<1>8. EarnAnnounced(all)
  BY <1>1, <1>2, <1>3, <1>4, <1>6, <1>a DEF EarnAnnounced
<1>9. EarnHeld(r)'
  BY <1>3, EarnElsewhere DEF Idle, EarnSteps
<1> QED BY <1>3, <1>5, <1>7, <1>8, <1>9, EarnFollows DEF EarnInv

\* The requests that write a transaction.
LEMMA EarnWriteStep ==
  ASSUME EarnInv, CommissionInv', NEW r \in Slots,
         \/ \E t \in Transactions : CommissionCreate(r, t)
         \/ LinkageWrite(r) \/ CommissionWrite(r) \/ CalculateWrite(r)
  PROVE  EarnInv' /\ EarnMoves
<1>0. Shape /\ CommissionRowsOK /\ CommissionHeld(r) /\ EarnHeld(r)
  BY DEF EarnInv, CommissionInv
<1>1. ASSUME NEW t \in Transactions, CommissionCreate(r, t) PROVE EarnInv' /\ EarnMoves
  <2>0. Args(r)[1] \in Rules /\ Args(r)[2] \in Referred /\ serving[r].step = "commission.create"
    BY <1>0, <1>1 DEF CommissionCreate, CommissionHeld, At
  <2>1. PICK rule \in Rules, s \in Referred : rule = Args(r)[1] /\ s = Args(r)[2]
    BY <2>0
  <2>2. PICK row, rows : /\ row = [status |-> "PENDING", rule |-> rule, amount |-> NoAmount, student |-> s]
                         /\ rows = {<<"live", rule>>}
    OBVIOUS
  <2>3. SetTransaction(r, t, row, rows) /\ transactions[t].status = "ABSENT"
    BY <1>1, <2>1, <2>2 DEF CommissionCreate
  <2>4. /\ row \in TransactionRow /\ row.status = "PENDING" /\ row.rule = rule /\ row.student = s
    BY <2>2 DEF TransactionRow, CommissionStatus
  <2>5. undisturbed /\ ~serving[r].stale => Live(rule) = {} /\ <<"live", rule>> \in rows /\ Linked(s)
    BY <1>0, <2>0, <2>1, <2>2 DEF EarnHeld
  <2> QED BY <2>3, <2>4, <2>5, EarnSets DEF Recorded, Approved
<1>2. CASE CommissionWrite(r)
  <2>0. /\ serving[r].step = "commission.write" /\ Args(r)[1] \in Transactions /\ Recorded(Args(r)[1])
        /\ Args(r)[2] \in CommissionStatus
    BY <1>0, <1>2 DEF CommissionWrite, CommissionHeld, At
  <2>1. PICK t \in Transactions, status \in CommissionStatus : t = Args(r)[1] /\ status = Args(r)[2]
    BY <2>0
  <2>2. PICK row, rows : row = [transactions[t] EXCEPT !.status = status] /\ rows = {}
    OBVIOUS
  <2>3. SetTransaction(r, t, row, rows)
    BY <1>2, <2>1, <2>2 DEF CommissionWrite
  <2>4. /\ row \in TransactionRow /\ row.status = status /\ row.rule = transactions[t].rule
        /\ row.amount = transactions[t].amount /\ row.student = transactions[t].student
    BY <1>0, <2>2 DEF CommissionRowsOK, TransactionRow
  <2>5. /\ status # "CALCULATED"
        /\ ~serving[r].stale => transactions[t].status \notin {"PAID", "CANCELLED"}
    BY <1>0, <2>0, <2>1 DEF EarnHeld
  <2>6. transactions[t].status # "ABSENT"
    BY <2>0, <2>1 DEF Recorded
  <2> QED BY <2>3, <2>4, <2>5, <2>6, EarnSets
<1>3. CASE CalculateWrite(r)
  <2>0. /\ serving[r].step = "calculate.write" /\ Args(r)[1] \in Transactions /\ Recorded(Args(r)[1])
        /\ Args(r)[2] \in Rates \X Paid
    BY <1>0, <1>3 DEF CalculateWrite, CommissionHeld, At
  <2>1. PICK t \in Transactions, amount \in Rates \X Paid : t = Args(r)[1] /\ amount = Args(r)[2]
    BY <2>0
  <2>2. PICK row, rows : row = [transactions[t] EXCEPT !.status = "CALCULATED", !.amount = amount] /\ rows = {}
    OBVIOUS
  <2>3. SetTransaction(r, t, row, rows)
    BY <1>3, <2>1, <2>2 DEF CalculateWrite
  <2>4. /\ row \in TransactionRow /\ row.status = "CALCULATED" /\ row.rule = transactions[t].rule
        /\ row.amount = amount /\ row.student = transactions[t].student
    BY <1>0, <2>2 DEF CommissionRowsOK, TransactionRow, CommissionStatus
  <2>5. ~serving[r].stale =>
          transactions[t].status = "ELIGIBLE" /\ amount = <<rates[transactions[t].rule], paid>>
    BY <1>0, <2>0, <2>1 DEF EarnHeld
  <2>6. transactions[t].status # "ABSENT"
    BY <2>0, <2>1 DEF Recorded
  <2> QED BY <2>3, <2>4, <2>5, <2>6, EarnSets DEF Approved
<1>4. CASE LinkageWrite(r)
  <2>0. /\ serving[r].step = "linkage.write" /\ Args(r)[1] \in Transactions /\ Recorded(Args(r)[1])
        /\ Args(r)[2] \in Referred
    BY <1>0, <1>4 DEF LinkageWrite, CommissionHeld, At
  <2>1. PICK t \in Transactions, s \in Referred : t = Args(r)[1] /\ s = Args(r)[2]
    BY <2>0
  <2>2. PICK row, rows : row = [transactions[t] EXCEPT !.student = s] /\ rows = {}
    OBVIOUS
  <2>3. SetTransaction(r, t, row, rows)
    BY <1>4, <2>1, <2>2 DEF LinkageWrite
  <2>4. /\ row \in TransactionRow /\ row.status = transactions[t].status /\ row.rule = transactions[t].rule
        /\ row.amount = transactions[t].amount
    BY <1>0, <2>2 DEF CommissionRowsOK, TransactionRow
  <2>5. ~serving[r].stale => transactions[t].status = "PENDING"
    BY <1>0, <2>0, <2>1 DEF EarnHeld
  <2>6. transactions[t].status # "ABSENT"
    BY <2>0, <2>1 DEF Recorded
  <2> QED BY <2>3, <2>4, <2>5, <2>6, EarnSets
<1> QED BY <1>1, <1>2, <1>3, <1>4

LEMMA EarnStep == EarnInv /\ [CommissionNext]_commissionVars => EarnInv' /\ EarnMoves
<1> SUFFICES ASSUME EarnInv, [CommissionNext]_commissionVars PROVE EarnInv' /\ EarnMoves
  OBVIOUS
<1>0. Shape /\ CommissionRowsOK /\ CommissionInv'
  BY CommissionStep DEF EarnInv, CommissionInv
<1>1. CASE UNCHANGED commissionVars
  <2>1. UNCHANGED <<transactions, rates, paid, links>> /\ serving' = serving /\ undisturbed' = undisturbed
    BY <1>1 DEF commissionVars, commissionRows, handlerVars
  <2> QED BY <1>0, <2>1 DEF EarnInv, OneLive, Live, Linked, EarnHeld, EarnMoves, Args
<1>2. ASSUME NEW r \in Slots, NEW rows, Write(r, rows, Idle) \/ Put(r, rows, Idle), transactions' = transactions,
             \A rule \in Rules : rule \in rows \/ rates'[rule] = rates[rule],
             <<"payment">> \in rows \/ paid' = paid, LinksAnnounced(rows)
      PROVE  EarnInv' /\ EarnMoves
  <2>1. Follow(r, rows) /\ serving'[r] = Idle /\ (undisturbed' => undisturbed)
    BY <1>0, <1>2, IdleSlot, WritesFollow, PutsFollow
  <2>2. EarnHeld(r)'
    BY <2>1, EarnElsewhere DEF Idle, EarnSteps
  <2> QED BY <1>0, <1>2, <2>1, <2>2, EarnLeaves
<1>3. ASSUME NEW r \in Slots, NEW rule \in Rules, NEW rate \in Rates, RuleUpdate(r, rule, rate)
      PROVE  EarnInv' /\ EarnMoves
  <2>1. PICK rows : rows = {rule}
    OBVIOUS
  <2>2. Put(r, rows, Idle) /\ \A other \in Rules : other \in rows \/ rates'[other] = rates[other]
    BY <1>0, <1>3, <2>1 DEF RuleUpdate, CommissionRowsOK
  <2>3. links' = links
    BY <1>3 DEF RuleUpdate
  <2> QED BY <1>2, <1>3, <2>2, <2>3 DEF RuleUpdate, LinksAnnounced, Linked
<1>4. ASSUME NEW r \in Slots, NEW amount \in Paid, PaidChanges(r, amount) PROVE EarnInv' /\ EarnMoves
  <2>1. PICK rows : rows = {<<"payment">>}
    OBVIOUS
  <2>2. links' = links
    BY <1>4 DEF PaidChanges
  <2> QED BY <1>2, <1>4, <2>1, <2>2 DEF PaidChanges, LinksAnnounced, Linked
<1>5. ASSUME NEW r \in Slots, NEW k \in Links, LinkCreate(r, k) \/ LinkArchive(r, k) PROVE EarnInv' /\ EarnMoves
  <2>1. PICK s : \/ s = Args(r)[1] /\ LinkCreate(r, k)
                 \/ s = links[k].student /\ LinkArchive(r, k)
    BY <1>5
  <2>2. PICK rows : rows = {<<"links", s>>}
    OBVIOUS
  <2>3. /\ Write(r, rows, Idle) \/ Put(r, rows, Idle)
        /\ UNCHANGED <<transactions, rates, paid>>
    BY <2>1, <2>2 DEF LinkCreate, LinkArchive
  <2>4. links \in [Links -> LinkRow]
    BY <1>0 DEF CommissionRowsOK
  <2>5. \A j \in Links : links'[j] = links[j] \/ (links'[j].student = s /\ links[j].status = "ABSENT")
                                             \/ (links'[j].student = s /\ links[j].student = s)
    BY <2>1, <2>4 DEF LinkCreate, LinkArchive, LinkRow
  <2>6. LinksAnnounced(rows)
    BY <2>2, <2>5 DEF LinksAnnounced, Linked
  <2> QED BY <1>2, <2>3, <2>6
<1>6. ASSUME NEW r \in Slots, Dies(r), UNCHANGED commissionRows PROVE EarnInv' /\ EarnMoves
  <2>1. Follow(r, {}) /\ (undisturbed' => undisturbed) /\ serving'[r] = Idle
    BY <1>0, <1>6, ReadsFollow, ReturnEffect DEF Dies
  <2>2. EarnHeld(r)'
    BY <2>1, EarnElsewhere DEF Idle, EarnSteps
  <2> QED BY <1>0, <1>6, <2>1, <2>2, EarnLeaves DEF commissionRows, LinksAnnounced, Linked
<1> QED BY <1>0, <1>1, <1>3, <1>4, <1>5, <1>6, EarnReadStep, EarnWriteStep DEF CommissionNext

\* Unless a request has written what it decided on rows that had changed: a payment earns once
\* by a rule; what is calculated follows rule and payment of that moment; from the approval on
\* the amount stands, and what is paid or cancelled stays; and a transaction is created for a
\* student the partner is linked to, and has another only by a correction while PENDING.  For
\* any number of transactions, rules, links, students and requests.
THEOREM PaymentsEarnOnce == CommissionSpec => CommissionStands
<1>1. CommissionSpec => []EarnInv
  BY EarnInitInv, EarnStep, PTL DEF CommissionSpec
<1>2. EarnInv' => PaidWasCalculated'
  BY DEF EarnInv, CommissionInv, CommissionRowsOK, PaidWasCalculated, Calculated, HasAmount
<1>3. EarnInv /\ [CommissionNext]_commissionVars =>
        [/\ PaidWasCalculated'
         /\ undisturbed' =>
           /\ \A rule \in Rules : \A t, u \in Live(rule)' : t = u
           /\ \A t \in Transactions :
                /\ transactions[t].status = "ABSENT" /\ transactions'[t].status # "ABSENT" =>
                     Linked(transactions'[t].student)
                /\ transactions[t].status # "CALCULATED" /\ transactions'[t].status = "CALCULATED" =>
                     transactions'[t].amount = <<rates[transactions[t].rule], paid>>
                /\ transactions[t].status \in Approved => transactions'[t].amount = transactions[t].amount
                /\ transactions[t].status \notin {"ABSENT", "PENDING"} =>
                     transactions'[t].student = transactions[t].student
                /\ transactions[t].status \in {"PAID", "CANCELLED"} =>
                     transactions'[t].status = transactions[t].status]_commissionVars
  BY <1>2, EarnStep DEF EarnInv, OneLive, EarnMoves
<1> QED BY <1>1, <1>3, PTL DEF CommissionSpec, CommissionStands
=============================================================================
