------------------------------ MODULE Handlers ------------------------------
(***************************************************************************)
(* The requests that the API works on at the same time.  A handler reads   *)
(* rows, decides and writes, each in a statement of its own: PostgreSQL    *)
(* makes one statement (or one $transaction) atomic, and between two of    *)
(* them any other request may run.                                         *)
(*                                                                         *)
(* Slots   the requests that can be under way at one time                  *)
(***************************************************************************)
CONSTANT Slots

VARIABLES
  serving,      \* what each slot is doing: the statement that comes next, the
                \*   values the handler holds, the rows they were read from, and
                \*   whether one of these rows has been written since
  undisturbed   \* no handler has yet written what it decided on such rows

handlerVars == <<serving, undisturbed>>

Idle == [step |-> "idle", args |-> <<>>, on |-> {}, stale |-> FALSE]

HandlersInit ==
  /\ serving = [r \in Slots |-> Idle]
  /\ undisturbed = TRUE

IsIdle(r)   == serving[r].step = "idle"
At(r, step) == serving[r].step = step
Args(r)     == serving[r].args

\* r holds args, read from rows, and goes on to another statement.
Continue(r, step, args, rows) ==
  /\ serving' = [serving EXCEPT ![r] = [step |-> step, args |-> args,
                                        on |-> @.on \cup rows, stale |-> @.stale]]
  /\ UNCHANGED undisturbed

\* r answers, with an error or after a last read.
Return(r) ==
  /\ serving' = [serving EXCEPT ![r] = Idle]
  /\ UNCHANGED undisturbed

\* r writes rows, deciding on what it has read, and is left as next: whoever else
\* has read one of them holds an old value from here on.
Write(r, rows, next) ==
  /\ serving' = [q \in Slots |-> IF q = r THEN next
                                 ELSE [serving[q] EXCEPT !.stale = @ \/ serving[q].on \cap rows # {}]]
  /\ undisturbed' = (undisturbed /\ ~serving[r].stale)

\* The same of a write that depends on nothing the handler has read before.
Put(r, rows, next) ==
  /\ serving' = [q \in Slots |-> IF q = r THEN next
                                 ELSE [serving[q] EXCEPT !.stale = @ \/ serving[q].on \cap rows # {}]]
  /\ UNCHANGED undisturbed

\* A request ends where it stands: the process dies, the database is lost.
Dies(r) == ~IsIdle(r) /\ Return(r)
=============================================================================
