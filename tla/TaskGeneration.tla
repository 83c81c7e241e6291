--------------------------- MODULE TaskGeneration ---------------------------
(***************************************************************************)
(* TaskGenerationService.generateForEvent(): an event of a source record   *)
(* calls for one task per active template of its trigger.  The handlers of *)
(* other modules end in it: they continue with GenerationOf(source, event).*)
(*                                                                         *)
(* Templates   [event -> set of templates], no template in two sets        *)
(***************************************************************************)
EXTENDS Handlers

CONSTANTS Sources, Templates

VARIABLES
  generated,   \* the tasks: <<template, source>>, unique in the table
  answered     \* calls that came to their end: <<event, source>>

generationRows == <<generated, answered>>

GenerationInit ==
  /\ generated = {}
  /\ answered = {}

\* What a handler holds when it calls generateForEvent().
GenerationOf(source, event) == <<source, event, Templates[event]>>

\* Faulty: a task that another call has created meanwhile ends the loop.
GenerateUntilConflict(r) ==
  LET source == Args(r)[1]  event == Args(r)[2]
  IN  /\ At(r, "generation.create")
      /\ IF <<Args(r)[4], source>> \in generated
         THEN Return(r) /\ answered' = answered \cup {<<event, source>>} /\ UNCHANGED generated
         ELSE /\ generated' = generated \cup {<<Args(r)[4], source>>}
              /\ Continue(r, "generation", <<source, event, Args(r)[3]>>, {})
              /\ UNCHANGED answered

\* The look-up of the next template's task: a task that exists is passed over.
GenerationNext(r) ==
  LET source == Args(r)[1]  event == Args(r)[2]  left == Args(r)[3]
  IN  /\ At(r, "generation")
      /\ \/ /\ left = {}
            /\ Return(r)
            /\ answered' = answered \cup {<<event, source>>}
         \/ \E t \in left :
              /\ Continue(r, IF <<t, source>> \in generated THEN "generation" ELSE "generation.create",
                          <<source, event, left \ {t}, t>>, {})
              /\ UNCHANGED answered
      /\ UNCHANGED generated

\* The insert: P2002 tells that another call was faster, which is as good.
Generate(r) ==
  /\ At(r, "generation.create")
  /\ generated' = generated \cup {<<Args(r)[4], Args(r)[1]>>}
  /\ Continue(r, "generation", <<Args(r)[1], Args(r)[2], Args(r)[3]>>, {})
  /\ UNCHANGED answered

\* A call that came to its end has left a task for every template of its event,
\* also when calls for the same event overlapped and each lost some of the inserts
\* to the other.
GenerationIsComplete ==
  \A call \in answered : \A t \in Templates[call[1]] : <<t, call[2]>> \in generated
=============================================================================
