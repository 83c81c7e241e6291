---------------------------- MODULE Idempotency ----------------------------
(***************************************************************************)
(* IdempotencyInterceptor, in front of the routes marked @Idempotent():    *)
(* requests that carry a key.  Bodies stands for what the request hash     *)
(* tells apart.  Nothing deletes a key, expired or not.                    *)
(*                                                                         *)
(* MaxExecutions   how many times handlers run in the model                *)
(***************************************************************************)
EXTENDS Handlers, Naturals

CONSTANTS Keys, Bodies, MaxExecutions, NoAnswer

ASSUME NoAnswerAssumption == NoAnswer \notin [body : Bodies, answer : Nat]

VARIABLES
  answers,      \* idempotency_keys: [key -> body and answer], the key is unique
  executions,   \* how many times the routes' own handlers have run
  received      \* the answers that were sent with success: key, body, answer

idempotencyRows == <<answers, executions, received>>
idempotencyVars == <<handlerVars, idempotencyRows>>

IdempotencyInit ==
  /\ HandlersInit
  /\ answers = [k \in Keys |-> NoAnswer]
  /\ executions = 0
  /\ received = {}

\* Faulty: a key answers whatever body comes with it.
ReplayAny(r, k, b) ==
  /\ IsIdle(r) /\ answers[k] # NoAnswer
  /\ received' = received \cup {[key |-> k, body |-> b, answer |-> answers[k].answer]}
  /\ UNCHANGED <<handlerVars, answers, executions>>

\* The key is known, and with this body (with another one: 409).
Replay(r, k, b) ==
  /\ IsIdle(r) /\ answers[k] # NoAnswer /\ answers[k].body = b
  /\ received' = received \cup {[key |-> k, body |-> b, answer |-> answers[k].answer]}
  /\ UNCHANGED <<handlerVars, answers, executions>>

Miss(r, k, b) ==
  /\ IsIdle(r) /\ answers[k] = NoAnswer
  /\ Continue(r, "handle", <<k, b>>, {k})
  /\ UNCHANGED idempotencyRows

\* The route's handler commits what it does: its answer is a new one.
Handle(r) ==
  /\ At(r, "handle") /\ executions < MaxExecutions
  /\ executions' = executions + 1
  /\ Continue(r, "store", <<Args(r)[1], Args(r)[2], executions + 1>>, {})
  /\ UNCHANGED <<answers, received>>

\* The answer is sent once it is stored; P2002 for a key that is taken ends in an error.
StoreAnswer(r) ==
  LET k == Args(r)[1]  b == Args(r)[2]  answer == Args(r)[3]
  IN  /\ At(r, "store")
      /\ IF answers[k] = NoAnswer
         THEN /\ answers' = [answers EXCEPT ![k] = [body |-> b, answer |-> answer]]
              /\ received' = received \cup {[key |-> k, body |-> b, answer |-> answer]}
              /\ Write(r, {k}, Idle)
         ELSE Return(r) /\ UNCHANGED <<answers, received>>
      /\ UNCHANGED executions

IdempotencyNext ==
  \E r \in Slots :
    \/ \E k \in Keys, b \in Bodies : Replay(r, k, b) \/ Miss(r, k, b)
    \/ Handle(r) \/ StoreAnswer(r)
    \/ Dies(r) /\ UNCHANGED idempotencyRows

IdempotencySpec == IdempotencyInit /\ [][IdempotencyNext]_idempotencyVars

-----------------------------------------------------------------------------
\* However requests with one key overlap, fail and are sent again, all that succeed
\* get the same answer, and had the same body.  (That the handler runs once is another
\* matter: two first requests that overlap both run it, and one of them gets an error.)
OneAnswerPerKey ==
  \A x, y \in received : x.key = y.key => x = y
=============================================================================
