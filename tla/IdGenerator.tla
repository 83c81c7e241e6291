---------------------------- MODULE IdGenerator ----------------------------
(***************************************************************************)
(* IdGeneratorService: the numbers behind every business code (HS-2026-    *)
(* 00001, PT-VN-00001, ...).  A sequence s is one (prefix, bucket) row of  *)
(* business_id_sequences.  A caller w draws a number in a transaction of   *)
(* its own and only later stores a record with the code; the caller may    *)
(* fail in between, and the server may die at any point.                   *)
(*                                                                         *)
(* MaxNumber bounds the numbers drawn from a sequence.                     *)
(***************************************************************************)
EXTENDS Integers

CONSTANTS Workers, Sequences, MaxNumber, Nobody

ASSUME IdAssumption == MaxNumber \in Nat /\ Nobody \notin Workers

VARIABLES
  lastValue,   \* committed last_value of each row, NoRow before its insertion
  locked,      \* the transaction that holds the lock of the row
  stored,      \* numbers whose code is on a business record
  draw         \* what each caller is doing

idVars == <<lastValue, locked, stored, draw>>

NoRow == -1

\* A caller's progress; number is what it drew, committed or not.
Draw == [step : {"idle", "select", "update", "commit", "store"},
         seq : Sequences \cup {Nobody}, number : Nat]

Resting == [step |-> "idle", seq |-> Nobody, number |-> 0]

\* last_value is a non-negative integer once the row exists, and every caller is
\* at a step of nextSequenceValue() or of the record creation that follows it.
IdTypeOK ==
  /\ lastValue \in [Sequences -> Nat \cup {NoRow}]
  /\ locked \in [Sequences -> Workers \cup {Nobody}]
  /\ stored \in [Sequences -> SUBSET Nat]
  /\ draw \in [Workers -> Draw]

Init ==
  /\ lastValue = [s \in Sequences |-> NoRow]
  /\ locked = [s \in Sequences |-> Nobody]
  /\ stored = [s \in Sequences |-> {}]
  /\ draw = [w \in Workers |-> Resting]

-----------------------------------------------------------------------------
\* INSERT ... ON CONFLICT DO NOTHING.  The first transaction inserts the row
\* and keeps it locked; another waits here until that one ends.
Insert(w, s) ==
  /\ draw[w].step = "idle"
  /\ lastValue[s] < MaxNumber
  /\ draw' = [draw EXCEPT ![w] = [step |-> "select", seq |-> s, number |-> 0]]
  /\ \/ lastValue[s] # NoRow /\ UNCHANGED locked
     \/ /\ lastValue[s] = NoRow /\ locked[s] = Nobody
        /\ locked' = [locked EXCEPT ![s] = w]
  /\ UNCHANGED <<lastValue, stored>>

\* Faulty: a plain SELECT, which waits for nobody.
SelectUnlocked(w) ==
  LET s == draw[w].seq
  IN  /\ draw[w].step = "select"
      /\ draw' = [draw EXCEPT ![w].step = "update",
                    ![w].number = IF lastValue[s] = NoRow THEN 1 ELSE lastValue[s] + 1]
      /\ UNCHANGED <<lastValue, locked, stored>>

\* SELECT ... FOR UPDATE waits for the lock and then reads the latest committed
\* row, or the transaction's own row with last_value 0.
SelectForUpdate(w) ==
  LET s == draw[w].seq
  IN  /\ draw[w].step = "select"
      /\ locked[s] \in {w, Nobody}
      /\ locked' = [locked EXCEPT ![s] = w]
      /\ draw' = [draw EXCEPT ![w].step = "update",
                    ![w].number = IF lastValue[s] = NoRow THEN 1 ELSE lastValue[s] + 1]
      /\ UNCHANGED <<lastValue, stored>>

\* UPDATE ... SET last_value = next, seen by nobody else before the commit.
Update(w) ==
  /\ draw[w].step = "update"
  /\ draw' = [draw EXCEPT ![w].step = "commit"]
  /\ UNCHANGED <<lastValue, locked, stored>>

\* The transaction commits and nextSequenceValue() returns the number.
Commit(w) ==
  LET s == draw[w].seq
  IN  /\ draw[w].step = "commit"
      /\ lastValue' = [lastValue EXCEPT ![s] = draw[w].number]
      /\ locked' = [locked EXCEPT ![s] = Nobody]
      /\ draw' = [draw EXCEPT ![w].step = "store"]
      /\ UNCHANGED stored

\* The caller creates the record with its code; the code column is unique.
Store(w) ==
  LET s == draw[w].seq
  IN  /\ draw[w].step = "store"
      /\ stored' = [stored EXCEPT ![s] = @ \cup {draw[w].number}]
      /\ draw' = [draw EXCEPT ![w] = Resting]
      /\ UNCHANGED <<lastValue, locked>>

Release(W) == [s \in Sequences |-> IF locked[s] \in W THEN Nobody ELSE locked[s]]

\* A query fails, the transaction times out, or the caller throws before it
\* stores the record: the transaction is rolled back, a drawn number is lost.
Abandon(w) ==
  /\ draw[w].step # "idle"
  /\ locked' = Release({w})
  /\ draw' = [draw EXCEPT ![w] = Resting]
  /\ UNCHANGED <<lastValue, stored>>

\* The server dies with all the transactions it has open.
ServerDies ==
  /\ \E w \in Workers : draw[w].step # "idle"
  /\ locked' = Release(Workers)
  /\ draw' = [w \in Workers |-> Resting]
  /\ UNCHANGED <<lastValue, stored>>

Next ==
  \/ \E w \in Workers : \/ \E s \in Sequences : Insert(w, s)
                        \/ SelectForUpdate(w) \/ Update(w) \/ Commit(w)
                        \/ Store(w) \/ Abandon(w)
  \/ ServerDies

IdSpec == Init /\ [][Next]_idVars

-----------------------------------------------------------------------------
\* Numbers drawn from s that some caller holds and has not stored yet.
Held(w, s) == draw[w].seq = s /\ draw[w].step = "store"

\* A drawn number belongs to one record: no other caller holds it and no record
\* carries it, so the unique constraint on the code columns never rejects a
\* record (id-generator.service.ts:45-71).
CodesAreUnique ==
  \A s \in Sequences, w \in Workers :
    Held(w, s) =>
      /\ draw[w].number \notin stored[s]
      /\ \A v \in Workers \ {w} : Held(v, s) => draw[v].number # draw[w].number

\* A number handed to a caller is greater than every number that a caller or a
\* record of the sequence ever had, also of those lost with a failed caller:
\* "this service only ever increments, never reclaims a freed number"
\* (id-generator.service.ts:8-10).
NumbersAreNeverReclaimed ==
  [][\A s \in Sequences :
       /\ lastValue'[s] >= lastValue[s]
       /\ \A w \in Workers : Held(w, s)' /\ ~Held(w, s) => draw'[w].number > lastValue[s]]_idVars
=============================================================================
