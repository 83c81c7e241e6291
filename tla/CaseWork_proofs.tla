-------------------------- MODULE CaseWork_proofs --------------------------
(***************************************************************************)
(* For any number of tasks, milestones, texts, assessments, roadmaps and   *)
(* requests at a time.  Some facts hold however requests overlap: a task   *)
(* that is done has its output, a final text stays as it is.  The others   *)
(* hold unless a handler writes on rows that have changed since it read    *)
(* them: what is done rests on what it waited for, nothing waits for       *)
(* itself, an approval rests on its baseline.  Their invariants say what a *)
(* handler knows as long as nobody has written the rows it has read.       *)
(***************************************************************************)
EXTENDS TaskBoard, Milestones, Writing, Counselling, Handlers_proofs

TaskRow == [status : TaskStatus \cup {"ABSENT"}, output : BOOLEAN]

\* What a change of status holds: a task, a status, and an output if it is DONE.
StatusHeld(r) ==
  serving[r].step \in {"task.prerequisites", "task.write"} =>
    /\ Args(r)[1] \in Tasks
    /\ Args(r)[2] \in TaskStatus
    /\ Args(r)[3] \in BOOLEAN
    /\ Args(r)[2] = "DONE" => Args(r)[3] = TRUE

\* What a walk holds: the dependency it is to add, and tasks it has met.
WalkHeld(r) ==
  serving[r].step \in {"task.walk", "task.link"} =>
    /\ Args(r)[1] \in Tasks
    /\ Args(r)[2] \in Tasks
    /\ Args(r)[3] \in SUBSET Tasks
    /\ Args(r)[4] \in SUBSET (Args(r)[3] \cup {Args(r)[2]})
    /\ serving[r].step = "task.link" => Args(r)[4] = {}

TaskTypeOK ==
  /\ Shape
  /\ tasks \in [Tasks -> TaskRow]
  /\ requires \in SUBSET (Tasks \X Tasks)
  /\ \A r \in Slots : StatusHeld(r) /\ WalkHeld(r)

OutputInv == TaskTypeOK /\ DoneHasOutput

\* The initial rows satisfy the invariant.
LEMMA OutputInit == TaskInit => OutputInv
BY HandlersInitShape DEF TaskInit, OutputInv, TaskTypeOK, DoneHasOutput, TaskRow, NoTask, StatusHeld, WalkHeld, Idle, TaskStatus

\* What other slots hold is not touched by the steps of one.
LEMMA OthersHold ==
  ASSUME NEW q \in Slots, StatusHeld(q), WalkHeld(q), Keeps(q)
  PROVE  StatusHeld(q)' /\ WalkHeld(q)'
BY DEF StatusHeld, WalkHeld, Keeps, Args

\* Neither does a slot that is left alone change what it holds.
LEMMA SameHold ==
  ASSUME NEW q \in Slots, StatusHeld(q), WalkHeld(q), serving'[q] = serving[q]
  PROVE  StatusHeld(q)' /\ WalkHeld(q)'
BY DEF StatusHeld, WalkHeld, Args

\* An idle slot holds nothing.
LEMMA IdleHolds ==
  ASSUME NEW q \in Slots, serving'[q] = Idle PROVE StatusHeld(q)' /\ WalkHeld(q)'
BY DEF StatusHeld, WalkHeld, Idle

\* Every step keeps the types and the outputs.
LEMMA OutputStep == OutputInv /\ [TaskNext]_taskVars => OutputInv'
<1> SUFFICES ASSUME OutputInv, [TaskNext]_taskVars PROVE OutputInv'
  OBVIOUS
<1> USE DEF OutputInv, TaskTypeOK
<1>1. ASSUME NEW r \in Slots, NEW t \in Tasks, CreateTask(r, t) PROVE OutputInv'
  <2>1. Put(r, {t}, Idle) /\ Slot(Idle)
    BY <1>1 DEF CreateTask, Slot, Idle
  <2>2. Shape' /\ serving'[r] = Idle /\ \A q \in Slots \ {r} : Keeps(q)
    BY <2>1, PutEffect
  <2>3. \A q \in Slots : (StatusHeld(q) /\ WalkHeld(q))'
    BY <2>2, IdleHolds, OthersHold
  <2>4. /\ tasks' \in [Tasks -> TaskRow]
        /\ requires' = requires
        /\ DoneHasOutput'
    BY <1>1 DEF CreateTask, TaskRow, TaskStatus, DoneHasOutput
  <2> QED BY <2>2, <2>3, <2>4
<1>2. ASSUME NEW r \in Slots, NEW t \in Tasks, PortalSubmitOutput(r, t) PROVE OutputInv'
  <2>1. Put(r, {t}, Idle) /\ Slot(Idle)
    BY <1>2 DEF PortalSubmitOutput, Slot, Idle
  <2>2. Shape' /\ serving'[r] = Idle /\ \A q \in Slots \ {r} : Keeps(q)
    BY <2>1, PutEffect
  <2>3. \A q \in Slots : (StatusHeld(q) /\ WalkHeld(q))'
    BY <2>2, IdleHolds, OthersHold
  <2>4. /\ tasks' \in [Tasks -> TaskRow]
        /\ requires' = requires
        /\ DoneHasOutput'
    BY <1>2 DEF PortalSubmitOutput, TaskRow, TaskStatus, DoneHasOutput
  <2> QED BY <2>2, <2>3, <2>4
<1>3. ASSUME NEW r \in Slots, NEW t \in Tasks, NEW status \in TaskStatus, NEW sent \in BOOLEAN,
             StatusRead(r, t, status, sent)
      PROVE  OutputInv'
  <2> DEFINE step == IF status = "DONE" THEN "task.prerequisites" ELSE "task.write"
             output == sent \/ tasks[t].output
             args == <<t, status, output>>
  <2>1. Continue(r, step, args, {t}) /\ UNCHANGED taskRows
    BY <1>3 DEF StatusRead
  <2>2. /\ Shape' /\ serving'[r].step = step /\ serving'[r].args = args
        /\ \A q \in Slots \ {r} : serving'[q] = serving[q]
    BY <2>1 DEF Continue, Shape, Slot
  <2>3. StatusHeld(r)' /\ WalkHeld(r)'
    <3>1. output \in BOOLEAN /\ (status = "DONE" => output = TRUE)
      BY <1>3 DEF StatusRead
    <3> HIDE DEF output
    <3> QED BY <2>2, <3>1 DEF StatusHeld, WalkHeld, Args
  <2>4. \A q \in Slots : (StatusHeld(q) /\ WalkHeld(q))'
    BY <2>2, <2>3, SameHold
  <2> QED BY <2>1, <2>2, <2>4 DEF taskRows, DoneHasOutput
<1>4. ASSUME NEW r \in Slots, PrerequisitesRead(r) PROVE OutputInv'
  <2>1. /\ Continue(r, "task.write", Args(r), Prerequisites(Args(r)[1]) \cup Queried({Args(r)[1]}))
        /\ At(r, "task.prerequisites") /\ UNCHANGED taskRows
    BY <1>4 DEF PrerequisitesRead
  <2>2. /\ Shape' /\ serving'[r].step = "task.write" /\ serving'[r].args = serving[r].args
        /\ \A q \in Slots \ {r} : serving'[q] = serving[q]
    BY <2>1 DEF Continue, Shape, Slot, Args
  <2>3. StatusHeld(r)' /\ WalkHeld(r)'
    BY <2>1, <2>2 DEF StatusHeld, WalkHeld, Args, At
  <2>4. \A q \in Slots : (StatusHeld(q) /\ WalkHeld(q))'
    BY <2>2, <2>3, SameHold
  <2> QED BY <2>1, <2>2, <2>4 DEF taskRows, DoneHasOutput
<1>5. ASSUME NEW r \in Slots, StatusWrite(r) PROVE OutputInv'
  <2>1. Write(r, {Args(r)[1]}, Idle) /\ Slot(Idle) /\ At(r, "task.write")
    BY <1>5 DEF StatusWrite, Slot, Idle
  <2>2. Shape' /\ serving'[r] = Idle /\ \A q \in Slots \ {r} : Keeps(q)
    BY <2>1, WriteEffect
  <2>3. \A q \in Slots : (StatusHeld(q) /\ WalkHeld(q))'
    BY <2>2, IdleHolds, OthersHold
  <2>4. /\ tasks' \in [Tasks -> TaskRow]
        /\ requires' = requires
        /\ DoneHasOutput'
    BY <1>5, <2>1 DEF StatusWrite, StatusHeld, At, TaskRow, DoneHasOutput
  <2> QED BY <2>2, <2>3, <2>4
<1>6. ASSUME NEW r \in Slots, NEW t \in Tasks, NEW u \in Tasks, DependencyBegin(r, t, u) PROVE OutputInv'
  <2>1. Continue(r, "task.walk", <<t, u, {}, {u}>>, {}) /\ UNCHANGED taskRows
    BY <1>6 DEF DependencyBegin
  <2>2. /\ Shape' /\ serving'[r].step = "task.walk" /\ serving'[r].args = <<t, u, {}, {u}>>
        /\ \A q \in Slots \ {r} : serving'[q] = serving[q]
    BY <2>1 DEF Continue, Shape, Slot
  <2>3. StatusHeld(r)' /\ WalkHeld(r)'
    BY <2>2 DEF StatusHeld, WalkHeld, Args
  <2>4. \A q \in Slots : (StatusHeld(q) /\ WalkHeld(q))'
    BY <2>2, <2>3, SameHold
  <2> QED BY <2>1, <2>2, <2>4 DEF taskRows, DoneHasOutput
<1>7. ASSUME NEW r \in Slots, NEW t \in Tasks, NEW u \in Tasks, Unlink(r, t, u) PROVE OutputInv'
  <2>1. Put(r, {}, Idle) /\ Slot(Idle)
    BY <1>7 DEF Unlink, Slot, Idle
  <2>2. Shape' /\ serving'[r] = Idle /\ \A q \in Slots \ {r} : Keeps(q)
    BY <2>1, PutEffect
  <2>3. \A q \in Slots : (StatusHeld(q) /\ WalkHeld(q))'
    BY <2>2, IdleHolds, OthersHold
  <2> QED BY <1>7, <2>2, <2>3 DEF Unlink, DoneHasOutput
<1>8. ASSUME NEW r \in Slots, Walk(r) PROVE OutputInv'
  <2> DEFINE found == UNION {Prerequisites(v) : v \in Args(r)[4]}
             step == IF found \subseteq Args(r)[3] THEN "task.link" ELSE "task.walk"
             args == <<Args(r)[1], Args(r)[2], Args(r)[3] \cup found, found \ Args(r)[3]>>
  <2>1. Continue(r, step, args, Queried(Args(r)[4])) /\ UNCHANGED taskRows /\ At(r, "task.walk")
    BY <1>8 DEF Walk
  <2>2. /\ Shape' /\ serving'[r].step = step /\ serving'[r].args = args
        /\ \A q \in Slots \ {r} : serving'[q] = serving[q]
    BY <2>1 DEF Continue, Shape, Slot
  <2>3. found \in SUBSET Tasks
    BY DEF Prerequisites
  <2>4. WalkHeld(r)'
    BY <2>1, <2>2, <2>3 DEF WalkHeld, At, Args
  <2>5. StatusHeld(r)'
    BY <2>2 DEF StatusHeld
  <2>6. \A q \in Slots : (StatusHeld(q) /\ WalkHeld(q))'
    BY <2>2, <2>4, <2>5, SameHold
  <2> QED BY <2>1, <2>2, <2>6 DEF taskRows, DoneHasOutput
<1>9. ASSUME NEW r \in Slots, Link(r) PROVE OutputInv'
  <2>1. Write(r, Queried({Args(r)[1]}), Idle) /\ Slot(Idle) /\ At(r, "task.link")
    BY <1>9 DEF Link, Slot, Idle
  <2>2. Shape' /\ serving'[r] = Idle /\ \A q \in Slots \ {r} : Keeps(q)
    BY <2>1, WriteEffect
  <2>3. \A q \in Slots : (StatusHeld(q) /\ WalkHeld(q))'
    BY <2>2, IdleHolds, OthersHold
  <2>4. tasks' = tasks /\ requires' \in SUBSET (Tasks \X Tasks)
    BY <1>9, <2>1 DEF Link, WalkHeld, At
  <2> QED BY <2>2, <2>3, <2>4 DEF DoneHasOutput
<1>10. ASSUME NEW r \in Slots, TaskEnds(r) PROVE OutputInv'
  <2>1. Return(r) /\ UNCHANGED taskRows
    BY <1>10 DEF TaskEnds, Dies
  <2>2. Shape' /\ serving'[r] = Idle /\ \A q \in Slots \ {r} : serving'[q] = serving[q]
    BY <2>1, ReturnEffect
  <2>3. \A q \in Slots : (StatusHeld(q) /\ WalkHeld(q))'
    BY <2>2, IdleHolds, SameHold
  <2> QED BY <2>1, <2>2, <2>3 DEF taskRows, DoneHasOutput
<1>11. CASE UNCHANGED taskVars
  BY <1>11 DEF taskVars, taskRows, handlerVars, Shape, Slot, StatusHeld, WalkHeld, Args, DoneHasOutput
<1> QED BY <1>1, <1>2, <1>3, <1>4, <1>5, <1>6, <1>7, <1>8, <1>9, <1>10, <1>11 DEF TaskNext

\* A task that is done has its output, whatever requests overlap and wherever they
\* end: for any number of tasks and of requests.
THEOREM TaskOutputs == TaskSpec => []DoneHasOutput
<1>1. TaskSpec => []OutputInv
  BY OutputInit, OutputStep, PTL DEF TaskSpec
<1>2. OutputInv => DoneHasOutput
  BY DEF OutputInv
<1> QED BY <1>1, <1>2, PTL
-----------------------------------------------------------------------------
(***************************************************************************)
(* The dependencies.  A walk that nobody has disturbed knows a part of the *)
(* graph as it is: from the tasks it has asked about, the dependencies     *)
(* lead only to tasks it has met, and its own task is none of these.  When *)
(* nothing is left to ask, what it met is closed and without that task, so *)
(* that a new dependency from the task into it closes no cycle.            *)
(***************************************************************************)
Met(r)   == Args(r)[3] \cup {Args(r)[2]}
Asked(r) == Met(r) \ Args(r)[4]

WalkSound(r) ==
  serving[r].step \in {"task.walk", "task.link"} /\ ~serving[r].stale =>
    /\ Args(r)[1] \notin Met(r)
    /\ \A v \in Asked(r) : /\ Prerequisites(v) \subseteq Args(r)[3]
                           /\ <<"dependencies", v>> \in serving[r].on

GraphInv == OutputInv /\ NoTaskCycle /\ \A r \in Slots : WalkSound(r)

\* A step of r that adds no dependency and leaves r on no walk; the others go on.
Quiet(r) ==
  /\ requires' \subseteq requires
  /\ undisturbed' => undisturbed
  /\ serving'[r].step \notin {"task.walk", "task.link"}
  /\ \A q \in Slots \ {r} : Keeps(q) /\ (serving[q].stale => serving'[q].stale)

\* Taking dependencies away breaks no walk and closes no cycle.
LEMMA WalkGoesOn ==
  ASSUME NEW q \in Slots, WalkSound(q), Keeps(q), serving[q].stale => serving'[q].stale,
         requires' \subseteq requires
  PROVE  WalkSound(q)'
BY DEF WalkSound, Keeps, Args, Met, Asked, Prerequisites

LEMMA StaysAcyclic ==
  ASSUME NoTaskCycle, requires' \subseteq requires, undisturbed' => undisturbed PROVE NoTaskCycle'
BY DEF NoTaskCycle, Prerequisites

LEMMA QuietStep ==
  ASSUME GraphInv, NEW r \in Slots, Quiet(r) PROVE NoTaskCycle' /\ \A q \in Slots : WalkSound(q)'
<1>1. NoTaskCycle'
  BY StaysAcyclic DEF GraphInv, Quiet
<1>2. WalkSound(r)'
  BY DEF Quiet, WalkSound
<1>3. ASSUME NEW q \in Slots \ {r} PROVE WalkSound(q)'
  <2>1. /\ WalkSound(q) /\ Keeps(q) /\ requires' \subseteq requires
        /\ serving[q].stale => serving'[q].stale
    BY DEF GraphInv, Quiet
  <2> QED BY <2>1, WalkGoesOn
<1> QED BY <1>1, <1>2, <1>3

\* Where nothing has been asked yet, or all has, is where a walk begins and ends.
LEMMA GraphInit == TaskInit => GraphInv
<1> SUFFICES ASSUME TaskInit PROVE GraphInv
  OBVIOUS
<1>1. OutputInv
  BY OutputInit
<1>2. NoTaskCycle
  BY DEF TaskInit, NoTaskCycle, Prerequisites
<1>3. \A r \in Slots : WalkSound(r)
  BY DEF TaskInit, HandlersInit, WalkSound, Idle
<1> QED BY <1>1, <1>2, <1>3 DEF GraphInv

\* One round: what the frontier depends on is met, and the frontier is asked.
LEMMA WalkRound ==
  ASSUME GraphInv, NEW r \in Slots, Walk(r) PROVE NoTaskCycle' /\ \A q \in Slots : WalkSound(q)'
<1> DEFINE found == UNION {Prerequisites(v) : v \in Args(r)[4]}
           args == <<Args(r)[1], Args(r)[2], Args(r)[3] \cup found, found \ Args(r)[3]>>
<1>1. /\ At(r, "task.walk") /\ Args(r)[1] \notin found /\ UNCHANGED taskRows
      /\ Continue(r, IF found \subseteq Args(r)[3] THEN "task.link" ELSE "task.walk",
                  args, Queried(Args(r)[4]))
  BY DEF Walk
<1>2. /\ serving'[r].args = args
      /\ serving'[r].on = serving[r].on \cup Queried(Args(r)[4])
      /\ serving'[r].stale = serving[r].stale
      /\ \A q \in Slots \ {r} : serving'[q] = serving[q]
      /\ undisturbed' = undisturbed
  BY <1>1 DEF Continue, Shape, Slot, GraphInv, OutputInv, TaskTypeOK
<1>3. NoTaskCycle'
  BY <1>1, <1>2, StaysAcyclic DEF GraphInv, taskRows
<1>4. ASSUME NEW q \in Slots \ {r} PROVE WalkSound(q)'
  BY <1>1, <1>2 DEF GraphInv, WalkSound, Args, Met, Asked, Prerequisites, taskRows
<1>5. WalkSound(r)'
  <2> SUFFICES ASSUME ~serving[r].stale PROVE WalkSound(r)'
    BY <1>2 DEF WalkSound
  <2>1. /\ Args(r)[1] \notin Met(r)
        /\ \A v \in Asked(r) : /\ Prerequisites(v) \subseteq Args(r)[3]
                               /\ <<"dependencies", v>> \in serving[r].on
    BY <1>1 DEF GraphInv, WalkSound, At
  <2>2. /\ Args(r)'[1] = Args(r)[1] /\ Args(r)'[2] = Args(r)[2]
        /\ Args(r)'[3] = Args(r)[3] \cup found /\ Args(r)'[4] = found \ Args(r)[3]
    BY <1>2 DEF Args
  <2>3. \A v \in Tasks : Prerequisites(v)' = Prerequisites(v)
    BY <1>1 DEF Prerequisites, taskRows
  <2>4. Args(r)[1] \notin Met(r)'
    BY <1>1, <2>1, <2>2 DEF Met
  <2>5. ASSUME NEW v \in Asked(r)'
        PROVE  Prerequisites(v) \subseteq Args(r)[3] \cup found /\ <<"dependencies", v>> \in serving'[r].on
    <3>1. v \in Met(r)
      BY <2>2, <2>5 DEF Met, Asked
    <3>2. CASE v \in Args(r)[4]
      BY <1>2, <3>2 DEF Queried
    <3>3. CASE v \notin Args(r)[4]
      BY <1>2, <2>1, <3>1, <3>3 DEF Asked
    <3> QED BY <3>2, <3>3
  <2>6. ASSUME NEW v \in Asked(r)' PROVE Prerequisites(v)' = Prerequisites(v)
    BY <1>1 DEF Prerequisites, taskRows
  <2> QED BY <2>2, <2>4, <2>5, <2>6 DEF WalkSound
<1> QED BY <1>3, <1>4, <1>5

\* In a circle every node has an edge to another one of it; a closed set is one that no edge leaves.
Acyclic(N, E)   == \A S \in SUBSET N : S # {} => \E w \in S : \A x \in S : <<w, x>> \notin E
Closed(N, E, V) == \A v \in V, x \in N : <<v, x>> \in E => x \in V

\* A new edge from t into a closed set without t closes no circle.
LEMMA NewEdge ==
  ASSUME NEW N, NEW E, NEW V, NEW t, NEW u, t \notin V, u \in V, Closed(N, E, V), Acyclic(N, E)
  PROVE  Acyclic(N, E \cup {<<t, u>>})
<1> SUFFICES ASSUME NEW S \in SUBSET N, S # {}
             PROVE  \E w \in S : \A x \in S : <<w, x>> \notin E \cup {<<t, u>>}
  BY DEF Acyclic
<1> USE DEF Acyclic, Closed
<1>1. CASE S \cap V # {}
  <2>1. PICK w \in S \cap V : \A x \in S \cap V : <<w, x>> \notin E
    BY <1>1
  <2>2. \A x \in S : <<w, x>> \notin E \cup {<<t, u>>}
    BY <2>1
  <2> QED BY <2>1, <2>2
<1>2. CASE S \cap V = {}
  <2>1. PICK w \in S : \A x \in S : <<w, x>> \notin E
    OBVIOUS
  <2>2. \A x \in S : <<w, x>> \notin E \cup {<<t, u>>}
    BY <1>2, <2>1
  <2> QED BY <2>1, <2>2
<1> QED BY <1>1, <1>2

\* The new dependency closes no cycle, unless the walk was disturbed.
LEMMA LinkKeepsAcyclic ==
  ASSUME GraphInv, NEW r \in Slots, Link(r) PROVE NoTaskCycle'
<1> DEFINE t == Args(r)[1]
           u == Args(r)[2]
           V == Met(r)
<1>1. /\ At(r, "task.link") /\ requires' = requires \cup {<<t, u>>}
      /\ undisturbed' = (undisturbed /\ ~serving[r].stale)
  BY DEF Link, Write
<1> SUFFICES ASSUME undisturbed, ~serving[r].stale PROVE Acyclic(Tasks, requires')
  BY <1>1 DEF NoTaskCycle, Prerequisites, Acyclic
<1>2. t \in Tasks /\ u \in Tasks /\ Args(r)[4] = {}
  BY <1>1 DEF GraphInv, OutputInv, TaskTypeOK, WalkHeld, At
<1>3. t \notin V /\ u \in V /\ Closed(Tasks, requires, V)
  BY <1>1, <1>2 DEF GraphInv, WalkSound, At, Asked, Met, Prerequisites, Closed
<1>4. Acyclic(Tasks, requires)
  BY DEF GraphInv, NoTaskCycle, Prerequisites, Acyclic
<1> HIDE DEF t, u, V
<1>5. Acyclic(Tasks, requires \cup {<<t, u>>})
  BY <1>3, <1>4, NewEdge
<1> QED BY <1>1, <1>5

\* A walk that has asked about the task of the new dependency is disturbed by it; one
\* that has not knows nothing that changes.
LEMMA LinkDisturbs ==
  ASSUME GraphInv, NEW r \in Slots, Link(r), NEW q \in Slots \ {r} PROVE WalkSound(q)'
<1> DEFINE t == Args(r)[1]
<1>1. /\ requires' = requires \cup {<<t, Args(r)[2]>>}
      /\ Write(r, Queried({t}), Idle) /\ Slot(Idle) /\ Shape
  BY DEF Link, Slot, Idle, GraphInv, OutputInv, TaskTypeOK
<1>2. /\ serving'[q].step = serving[q].step /\ serving'[q].args = serving[q].args
      /\ serving'[q].on = serving[q].on
      /\ serving'[q].stale = (serving[q].stale \/ serving[q].on \cap Queried({t}) # {})
  BY <1>1, WriteEffect DEF Keeps
<1> SUFFICES ASSUME serving[q].step \in {"task.walk", "task.link"}, ~serving'[q].stale
             PROVE  WalkSound(q)'
  BY <1>2 DEF WalkSound
<1>3. ~serving[q].stale /\ <<"dependencies", t>> \notin serving[q].on
  BY <1>2 DEF Queried
<1>4. /\ Args(q)[1] \notin Met(q)
      /\ \A v \in Asked(q) : /\ Prerequisites(v) \subseteq Args(q)[3]
                             /\ <<"dependencies", v>> \in serving[q].on
  BY <1>3 DEF GraphInv, WalkSound
<1>5. \A v \in Asked(q) : v # t
  BY <1>3, <1>4
<1>6. \A v \in Asked(q) : Prerequisites(v)' = Prerequisites(v)
  BY <1>1, <1>5 DEF Prerequisites
<1>7. Args(q)' = Args(q)
  BY <1>2 DEF Args
<1> QED BY <1>2, <1>4, <1>6, <1>7 DEF WalkSound, Met, Asked

\* Every step keeps the invariant of the graph.
LEMMA GraphStep == GraphInv /\ [TaskNext]_taskVars => GraphInv'
<1> SUFFICES ASSUME GraphInv, [TaskNext]_taskVars PROVE NoTaskCycle' /\ \A q \in Slots : WalkSound(q)'
  BY OutputStep DEF GraphInv
<1>0. Shape
  BY DEF GraphInv, OutputInv, TaskTypeOK
<1>1. ASSUME NEW r \in Slots, NEW t \in Tasks, CreateTask(r, t) \/ PortalSubmitOutput(r, t) PROVE Quiet(r)
  <2>1. Put(r, {t}, Idle) /\ Slot(Idle) /\ requires' = requires
    BY <1>1 DEF CreateTask, PortalSubmitOutput, Slot, Idle
  <2>2. /\ serving'[r] = Idle
        /\ \A q \in Slots \ {r} : Keeps(q) /\ (serving[q].stale => serving'[q].stale)
        /\ undisturbed' => undisturbed
    BY <1>0, <2>1, PutEffect
  <2> QED BY <2>1, <2>2 DEF Quiet, Idle
<1>2. ASSUME NEW r \in Slots, NEW t \in Tasks, NEW status \in TaskStatus, NEW sent \in BOOLEAN,
             StatusRead(r, t, status, sent)
      PROVE  Quiet(r)
  BY <1>0, <1>2 DEF StatusRead, Continue, Quiet, Keeps, Shape, Slot, taskRows
<1>3. ASSUME NEW r \in Slots, PrerequisitesRead(r) PROVE Quiet(r)
  BY <1>0, <1>3 DEF PrerequisitesRead, Continue, Quiet, Keeps, Shape, Slot, taskRows
<1>4. ASSUME NEW r \in Slots, StatusWrite(r) PROVE Quiet(r)
  <2>1. PICK rows : Write(r, rows, Idle) /\ Slot(Idle) /\ requires' = requires
    BY <1>4 DEF StatusWrite, Slot, Idle
  <2>2. /\ serving'[r] = Idle
        /\ \A q \in Slots \ {r} : Keeps(q) /\ (serving[q].stale => serving'[q].stale)
    BY <1>0, <2>1, WriteEffect
  <2>3. undisturbed' => undisturbed
    BY <2>1 DEF Write
  <2> QED BY <2>1, <2>2, <2>3 DEF Quiet, Idle
<1>5. ASSUME NEW r \in Slots, NEW t \in Tasks, NEW u \in Tasks, Unlink(r, t, u) PROVE Quiet(r)
  <2>1. Put(r, {}, Idle) /\ Slot(Idle) /\ requires' \subseteq requires
    BY <1>5 DEF Unlink, Slot, Idle
  <2>2. /\ serving'[r] = Idle
        /\ \A q \in Slots \ {r} : Keeps(q) /\ (serving[q].stale => serving'[q].stale)
        /\ undisturbed' => undisturbed
    BY <1>0, <2>1, PutEffect
  <2> QED BY <2>1, <2>2 DEF Quiet, Idle
<1>6. ASSUME NEW r \in Slots, TaskEnds(r) PROVE Quiet(r)
  BY <1>0, <1>6 DEF TaskEnds, Dies, Return, Quiet, Keeps, Shape, Slot, Idle, taskRows
<1>7. ASSUME NEW r \in Slots, NEW t \in Tasks, NEW u \in Tasks, DependencyBegin(r, t, u)
      PROVE  NoTaskCycle' /\ \A q \in Slots : WalkSound(q)'
  <2>1. /\ requires' = requires /\ undisturbed' = undisturbed /\ t # u
        /\ serving'[r].args = <<t, u, {}, {u}>>
        /\ \A q \in Slots \ {r} : serving'[q] = serving[q]
    BY <1>0, <1>7 DEF DependencyBegin, Continue, Shape, Slot, taskRows
  <2>2. NoTaskCycle'
    BY <2>1, StaysAcyclic DEF GraphInv
  <2>3. WalkSound(r)'
    BY <2>1 DEF WalkSound, Args, Met, Asked
  <2>4. ASSUME NEW q \in Slots \ {r} PROVE WalkSound(q)'
    BY <2>1 DEF GraphInv, WalkSound, Args, Met, Asked, Prerequisites
  <2> QED BY <2>2, <2>3, <2>4
<1>8. ASSUME NEW r \in Slots, Link(r) PROVE NoTaskCycle' /\ \A q \in Slots : WalkSound(q)'
  <2>1. WalkSound(r)'
    BY <1>8 DEF Link, Write, WalkSound, Idle
  <2> QED BY <1>8, <2>1, LinkKeepsAcyclic, LinkDisturbs
<1>9. CASE UNCHANGED taskVars
  BY <1>9 DEF taskVars, taskRows, handlerVars, GraphInv, NoTaskCycle, Prerequisites, WalkSound, Args, Met, Asked
<1> QED BY <1>1, <1>2, <1>3, <1>4, <1>5, <1>6, <1>7, <1>8, <1>9, QuietStep, WalkRound DEF TaskNext

\* However many requests add and remove dependencies at the same time, the graph of
\* the tasks has no cycle that a walk through it could have seen.
THEOREM TasksWithoutCycle == TaskSpec => []NoTaskCycle
<1>1. TaskSpec => []GraphInv
  BY GraphInit, GraphStep, PTL DEF TaskSpec
<1>2. GraphInv => NoTaskCycle
  BY DEF GraphInv
<1> QED BY <1>1, <1>2, PTL
-----------------------------------------------------------------------------
(* Changes of status                                                        *)

\* A change of status that is under way holds the task it has found not finished and, once
\* it is past the check for DONE, the list of its prerequisites and each of them, found finished.
ChangeHeld(r) ==
  /\ serving[r].step \in {"task.prerequisites", "task.write"} /\ ~serving[r].stale =>
       Args(r)[1] \in serving[r].on /\ tasks[Args(r)[1]].status \notin TERMINAL_STATUSES
  /\ serving[r].step = "task.write" /\ ~serving[r].stale /\ Args(r)[2] = "DONE" =>
       /\ <<"dependencies", Args(r)[1]>> \in serving[r].on
       /\ \A u \in Prerequisites(Args(r)[1]) : u \in serving[r].on /\ tasks[u].status \in TERMINAL_STATUSES

ChangeInv == OutputInv /\ \A r \in Slots : ChangeHeld(r)

LEMMA ChangeElsewhere ==
  ASSUME NEW r \in Slots, serving'[r].step \notin {"task.prerequisites", "task.write"} PROVE ChangeHeld(r)'
BY DEF ChangeHeld

\* Of the rows that are not written the statuses stay, and no prerequisite is added.
LEMMA ChangeFollows ==
  ASSUME ChangeInv, OutputInv', NEW r \in Slots, NEW rows, Follow(r, rows), ChangeHeld(r)',
         \A t \in Tasks : t \in rows \/ tasks'[t].status = tasks[t].status,
         \A t \in Tasks : <<"dependencies", t>> \in rows \/ Prerequisites(t)' \subseteq Prerequisites(t)
  PROVE  ChangeInv'
<1>1. ASSUME NEW q \in Slots \ {r} PROVE ChangeHeld(q)'
  <2>1. /\ ChangeHeld(q) /\ StatusHeld(q) /\ Args(q)' = Args(q)
        /\ serving'[q].step = serving[q].step /\ serving'[q].on = serving[q].on
        /\ ~serving'[q].stale => ~serving[q].stale /\ serving[q].on \cap rows = {}
    BY DEF ChangeInv, OutputInv, TaskTypeOK, Follow, Keeps, Args
  <2>2. CASE serving[q].step \in {"task.prerequisites", "task.write"} /\ ~serving'[q].stale
    <3>1. PICK t \in Tasks : t = Args(q)[1]
      BY <2>1, <2>2 DEF StatusHeld
    <3>2. t \in serving'[q].on /\ tasks'[t].status \notin TERMINAL_STATUSES
      BY <2>1, <2>2, <3>1 DEF ChangeHeld
    <3>3. ASSUME serving[q].step = "task.write", Args(q)[2] = "DONE"
          PROVE  /\ <<"dependencies", t>> \in serving'[q].on
                 /\ \A u \in Prerequisites(t)' : u \in serving'[q].on /\ tasks'[u].status \in TERMINAL_STATUSES
      <4>1. /\ <<"dependencies", t>> \in serving[q].on
            /\ \A u \in Prerequisites(t) : u \in serving[q].on /\ tasks[u].status \in TERMINAL_STATUSES
        BY <2>1, <2>2, <3>1, <3>3 DEF ChangeHeld
      <4>2. Prerequisites(t)' \subseteq Prerequisites(t) /\ Prerequisites(t)' \subseteq Tasks
        BY <2>1, <2>2, <4>1 DEF Prerequisites
      <4> QED BY <2>1, <2>2, <4>1, <4>2
    <3> QED BY <2>1, <3>1, <3>2, <3>3 DEF ChangeHeld, Prerequisites
  <2>3. CASE serving[q].step \notin {"task.prerequisites", "task.write"} \/ serving'[q].stale
    BY <2>1, <2>3 DEF ChangeHeld
  <2> QED BY <2>2, <2>3
<1> QED BY <1>1 DEF ChangeInv

\* A step that changes no status and adds no prerequisite.
LEMMA ChangePlain ==
  ASSUME ChangeInv, OutputInv', NEW r \in Slots, UNCHANGED taskRows,
         Return(r) \/ \E step, args, rows : Continue(r, step, args, rows)
                                            /\ step \notin {"task.prerequisites", "task.write"}
  PROVE  ChangeInv'
<1>1. Shape
  BY DEF ChangeInv, OutputInv, TaskTypeOK
<1>2. Follow(r, {})
  BY <1>1, ReadsFollow
<1>3. ChangeHeld(r)'
  BY <1>1, ReturnEffect, ContinueEffect, ChangeElsewhere DEF Idle
<1> QED BY <1>2, <1>3, ChangeFollows DEF taskRows, Prerequisites

\* A request that writes rows and is done.
LEMMA ChangeEnds ==
  ASSUME ChangeInv, OutputInv', NEW r \in Slots, NEW rows, Write(r, rows, Idle) \/ Put(r, rows, Idle),
         \A t \in Tasks : t \in rows \/ tasks'[t].status = tasks[t].status,
         \A t \in Tasks : <<"dependencies", t>> \in rows \/ Prerequisites(t)' \subseteq Prerequisites(t)
  PROVE  ChangeInv'
<1>1. Shape
  BY DEF ChangeInv, OutputInv, TaskTypeOK
<1>2. Follow(r, rows) /\ serving'[r] = Idle
  BY <1>1, IdleSlot, WritesFollow, PutsFollow
<1>3. ChangeHeld(r)'
  BY <1>2, ChangeElsewhere DEF Idle
<1> QED BY <1>2, <1>3, ChangeFollows

LEMMA ChangeStep == ChangeInv /\ [TaskNext]_taskVars => ChangeInv'
<1> SUFFICES ASSUME ChangeInv, [TaskNext]_taskVars PROVE ChangeInv'
  OBVIOUS
<1>0. OutputInv /\ OutputInv' /\ Shape
  BY OutputStep DEF ChangeInv, OutputInv, TaskTypeOK
<1>a. tasks \in [Tasks -> TaskRow] /\ requires \subseteq Tasks \X Tasks
  BY <1>0 DEF OutputInv, TaskTypeOK
<1>1. ASSUME NEW r \in Slots, NEW t \in Tasks, CreateTask(r, t) \/ PortalSubmitOutput(r, t) PROVE ChangeInv'
  <2>1. /\ Put(r, {t}, Idle) /\ requires' = requires
        /\ \A u \in Tasks : u \in {t} \/ tasks'[u] = tasks[u]
    BY <1>1, <1>a DEF CreateTask, PortalSubmitOutput
  <2> QED BY <1>0, <2>1, ChangeEnds DEF Prerequisites
<1>2. ASSUME NEW r \in Slots, NEW t \in Tasks, NEW status \in TaskStatus, NEW sent \in BOOLEAN,
             StatusRead(r, t, status, sent)
      PROVE  ChangeInv'
  <2>1. PICK step, args : /\ step \in {"task.prerequisites", "task.write"}
                          /\ args[1] = t /\ args[2] = status
                          /\ step = "task.write" => args[2] # "DONE"
                          /\ Continue(r, step, args, {t})
    BY <1>2 DEF StatusRead
  <2>2. UNCHANGED taskRows /\ tasks[t].status \notin TERMINAL_STATUSES
    BY <1>2, <1>a DEF StatusRead, TASK_TRANSITIONS, TERMINAL_STATUSES, TaskStatus, TaskRow, TaskExists
  <2>3. /\ Follow(r, {}) /\ serving'[r].step = step /\ serving'[r].args = args
        /\ serving'[r].on = serving[r].on \cup {t}
    BY <1>0, <2>1, ReadsFollow, ContinueEffect, ContinueHolds
  <2>4. ChangeHeld(r)'
    BY <2>1, <2>2, <2>3 DEF ChangeHeld, Args, taskRows
  <2> QED BY <1>0, <2>2, <2>3, <2>4, ChangeFollows DEF taskRows, Prerequisites
<1>3. ASSUME NEW r \in Slots, PrerequisitesRead(r) PROVE ChangeInv'
  <2>1. ChangeHeld(r) /\ StatusHeld(r) /\ serving[r].step = "task.prerequisites"
    BY <1>0, <1>3 DEF PrerequisitesRead, At, ChangeInv, OutputInv, TaskTypeOK
  <2>2. PICK t \in Tasks : t = Args(r)[1]
    BY <2>1 DEF StatusHeld
  <2>3. PICK args, rows : /\ args = Args(r) /\ rows = Prerequisites(t) \cup Queried({t})
                          /\ Continue(r, "task.write", args, rows)
                          /\ UNCHANGED taskRows /\ \A u \in Prerequisites(t) : tasks[u].status \in TERMINAL_STATUSES
    BY <1>3, <2>2 DEF PrerequisitesRead
  <2>4. /\ Follow(r, {}) /\ serving'[r].step = "task.write" /\ serving'[r].args = args
        /\ serving'[r].on = serving[r].on \cup rows /\ serving'[r].stale = serving[r].stale
    BY <1>0, <2>3, ReadsFollow, ContinueEffect, ContinueHolds
  <2>5. <<"dependencies", t>> \in rows
    BY <2>3 DEF Queried
  <2>6. Prerequisites(t)' = Prerequisites(t) /\ tasks' = tasks
    BY <2>3 DEF Prerequisites, taskRows
  <2>7. ~serving'[r].stale => t \in serving'[r].on /\ tasks'[t].status \notin TERMINAL_STATUSES
    BY <2>1, <2>2, <2>4, <2>6 DEF ChangeHeld
  <2>8. /\ <<"dependencies", t>> \in serving'[r].on
        /\ \A u \in Prerequisites(t)' : u \in serving'[r].on /\ tasks'[u].status \in TERMINAL_STATUSES
    BY <2>3, <2>4, <2>5, <2>6
  <2>9. ChangeHeld(r)'
    BY <2>2, <2>3, <2>4, <2>7, <2>8 DEF ChangeHeld, Args, Prerequisites
  <2> QED BY <1>0, <2>3, <2>4, <2>9, ChangeFollows DEF taskRows, Prerequisites
<1>4. ASSUME NEW r \in Slots, StatusWrite(r) PROVE ChangeInv'
  <2>1. PICK t, row : /\ tasks' = [tasks EXCEPT ![t] = row] /\ Write(r, {t}, Idle) /\ requires' = requires
    BY <1>4 DEF StatusWrite
  <2>2. \A u \in Tasks : u \in {t} \/ tasks'[u] = tasks[u]
    BY <2>1, <1>a
  <2> QED BY <1>0, <2>1, <2>2, ChangeEnds DEF Prerequisites
<1>5. ASSUME NEW r \in Slots, NEW t \in Tasks, NEW u \in Tasks, DependencyBegin(r, t, u) PROVE ChangeInv'
  BY <1>0, <1>5, ChangePlain DEF DependencyBegin
<1>6. ASSUME NEW r \in Slots, NEW t \in Tasks, NEW u \in Tasks, Unlink(r, t, u) PROVE ChangeInv'
  <2>1. Put(r, {}, Idle) /\ tasks' = tasks /\ requires' \subseteq requires
    BY <1>6 DEF Unlink
  <2> QED BY <1>0, <2>1, ChangeEnds DEF Prerequisites
<1>7. ASSUME NEW r \in Slots, Walk(r) PROVE ChangeInv'
  <2>1. UNCHANGED taskRows /\ \E step, args, rows : Continue(r, step, args, rows)
                                            /\ step \notin {"task.prerequisites", "task.write"}
    BY <1>7 DEF Walk
  <2> QED BY <1>0, <2>1, ChangePlain
<1>8. ASSUME NEW r \in Slots, Link(r) PROVE ChangeInv'
  <2>1. PICK t, u, rows : /\ requires' = requires \cup {<<t, u>>} /\ rows = Queried({t}) /\ Write(r, rows, Idle)
                          /\ tasks' = tasks
    BY <1>8 DEF Link
  <2>2. \A v \in Tasks : <<"dependencies", v>> \in rows \/ Prerequisites(v)' \subseteq Prerequisites(v)
    BY <2>1 DEF Queried, Prerequisites
  <2> QED BY <1>0, <2>1, <2>2, ChangeEnds
<1>9. ASSUME NEW r \in Slots, TaskEnds(r) PROVE ChangeInv'
  BY <1>0, <1>9, ChangePlain DEF TaskEnds, Dies
<1>10. CASE UNCHANGED taskVars
  <2>1. serving' = serving /\ tasks' = tasks /\ requires' = requires
    BY <1>10 DEF taskVars, taskRows, handlerVars
  <2>2. ASSUME NEW q \in Slots PROVE ChangeHeld(q)'
    BY <2>1 DEF ChangeInv, ChangeHeld, Args, Prerequisites
  <2> QED BY <1>0, <2>2 DEF ChangeInv
<1> QED BY <1>1, <1>2, <1>3, <1>4, <1>5, <1>6, <1>7, <1>8, <1>9, <1>10 DEF TaskNext

LEMMA ChangeInitInv == TaskInit => ChangeInv
<1> SUFFICES ASSUME TaskInit PROVE ChangeInv
  OBVIOUS
<1>1. \A q \in Slots : serving[q].step = "idle"
  <2>1. \A q \in Slots : serving[q] = Idle
    BY HandlersInitShape DEF TaskInit
  <2>2. Idle.step = "idle"
    BY DEF Idle
  <2> QED BY <2>1, <2>2
<1> QED BY <1>1, OutputInit DEF ChangeInv, ChangeHeld

\* A task is done only when all that it depends on is finished, and what is finished stays
\* so, unless somebody wrote what he decided on a task, a prerequisite or a list of them
\* that had changed since (tasks.service.ts:251-290).
THEOREM DoneRests == TaskSpec => DoneRestsOnDone
<1> DEFINE Rests ==
      /\ DoneHasOutput'
      /\ undisturbed' =>
          \A t \in Tasks : tasks'[t].status # tasks[t].status =>
            /\ tasks[t].status \notin TERMINAL_STATUSES
            /\ tasks'[t].status = "DONE" =>
                 \A u \in Prerequisites(t) : tasks[u].status \in TERMINAL_STATUSES
<1>1. ChangeInv /\ ChangeInv' /\ [TaskNext]_taskVars => Rests
  <2> SUFFICES ASSUME ChangeInv, ChangeInv', [TaskNext]_taskVars PROVE Rests
    OBVIOUS
  <2>0. Shape /\ OutputInv /\ DoneHasOutput' /\ tasks \in [Tasks -> TaskRow]
    BY DEF ChangeInv, OutputInv, TaskTypeOK
  <2>1. CASE \E r \in Slots : StatusWrite(r)
    <3>1. PICK r \in Slots : StatusWrite(r)
      BY <2>1
    <3>2. /\ serving[r].step = "task.write" /\ ChangeHeld(r) /\ StatusHeld(r)
      BY <2>0, <3>1 DEF StatusWrite, At, ChangeInv, OutputInv, TaskTypeOK
    <3>3. PICK t \in Tasks : t = Args(r)[1]
      BY <3>2 DEF StatusHeld
    <3>4. /\ tasks' = [tasks EXCEPT ![t] = [status |-> Args(r)[2], output |-> Args(r)[3]]]
          /\ Write(r, {t}, Idle)
      BY <3>1, <3>3 DEF StatusWrite
    <3>5. undisturbed' => ~serving[r].stale
      BY <2>0, <3>4, IdleSlot, WritesFollow
    <3>6. undisturbed' => /\ tasks[t].status \notin TERMINAL_STATUSES
                          /\ Args(r)[2] = "DONE" =>
                               \A u \in Prerequisites(t) : tasks[u].status \in TERMINAL_STATUSES
      BY <3>2, <3>3, <3>5 DEF ChangeHeld
    <3>7. \A u \in Tasks : u # t => tasks'[u] = tasks[u]
      BY <2>0, <3>4
    <3>8. tasks'[t].status = Args(r)[2]
      BY <2>0, <3>4
    <3> QED BY <2>0, <3>6, <3>7, <3>8
  <2>2. ASSUME NEW r \in Slots, NEW t \in Tasks, CreateTask(r, t) \/ PortalSubmitOutput(r, t)
        PROVE  \A u \in Tasks : tasks'[u].status = tasks[u].status
                                \/ (tasks[u].status = "ABSENT" /\ tasks'[u].status = "NOT_STARTED")
    BY <2>0, <2>2 DEF CreateTask, PortalSubmitOutput, TaskExists, TaskRow
  <2>3. ASSUME UNCHANGED tasks PROVE Rests
    BY <2>0, <2>3
  <2>4. CASE \E r \in Slots, t \in Tasks : CreateTask(r, t) \/ PortalSubmitOutput(r, t)
    BY <2>0, <2>2, <2>4 DEF TERMINAL_STATUSES
  <2>5. \/ \E r \in Slots : StatusWrite(r)
        \/ \E r \in Slots, t \in Tasks : CreateTask(r, t) \/ PortalSubmitOutput(r, t)
        \/ UNCHANGED tasks
    BY DEF TaskNext, StatusRead, PrerequisitesRead, DependencyBegin, Walk, Link, Unlink, TaskEnds, taskRows, taskVars
  <2> QED BY <2>1, <2>3, <2>4, <2>5
<1>2. TaskSpec => []ChangeInv
  BY ChangeInitInv, ChangeStep, PTL DEF TaskSpec
<1> QED BY <1>1, <1>2, PTL DEF DoneRestsOnDone, TaskSpec

-----------------------------------------------------------------------------
(* Writing                                                                  *)

TextSteps == {"writing.status", "version.latest", "version.write"}

\* Who is to change a text has it in his hands and, unless he is stale, it is as he found
\* it, and was not submitted.
TextHeld(r) ==
  /\ serving[r].step \in TextSteps => Args(r)[1] \in Artifacts
  /\ serving[r].step \in TextSteps /\ ~serving[r].stale =>
       Args(r)[1] \in serving[r].on /\ artifacts[Args(r)[1]] # "SUBMITTED"
  /\ serving[r].step \in {"version.latest", "version.write"} /\ ~serving[r].stale =>
       artifacts[Args(r)[1]] = Args(r)[3]

TextInv ==
  /\ Shape
  /\ artifacts = [w \in Artifacts |-> artifacts[w]]
  /\ versions = [w \in Artifacts |-> versions[w]]
  /\ \A r \in Slots : TextHeld(r)

TextRows(rows) ==
  /\ artifacts' = [w \in Artifacts |-> artifacts'[w]]
  /\ versions' = [w \in Artifacts |-> versions'[w]]
  /\ \A w \in Artifacts : w \in rows \/ artifacts'[w] = artifacts[w]

LEMMA TextFollows ==
  ASSUME TextInv, NEW r \in Slots, NEW rows, Follow(r, rows), Shape', TextHeld(r)', TextRows(rows)
  PROVE  TextInv'
<1>1. ASSUME NEW q \in Slots \ {r} PROVE TextHeld(q)'
  <2>1. /\ TextHeld(q) /\ Args(q)' = Args(q)
        /\ serving'[q].step = serving[q].step /\ serving'[q].on = serving[q].on
        /\ ~serving'[q].stale => ~serving[q].stale /\ serving[q].on \cap rows = {}
    BY DEF TextInv, Follow, Keeps, Args
  <2>2. serving[q].step \in TextSteps /\ ~serving'[q].stale =>
          Args(q)[1] \in serving[q].on /\ artifacts'[Args(q)[1]] = artifacts[Args(q)[1]]
    BY <2>1 DEF TextHeld, TextRows
  <2> QED BY <2>1, <2>2 DEF TextHeld, TextSteps
<1> QED BY <1>1 DEF TextInv, TextRows

LEMMA TextStep == TextInv /\ [WritingNext]_writingVars => TextInv'
<1> SUFFICES ASSUME TextInv, [WritingNext]_writingVars PROVE TextInv'
  OBVIOUS
<1>0. /\ Shape /\ artifacts = [w \in Artifacts |-> artifacts[w]] /\ versions = [w \in Artifacts |-> versions[w]]
      /\ \A q \in Slots : TextHeld(q)
  BY DEF TextInv
<1>1. ASSUME NEW r \in Slots, NEW w \in Artifacts, ArtifactCreate(r, w) PROVE TextInv'
  <2>1. PICK a, o, next :
          /\ a = <<w, 0, "DRAFT">> /\ o = {w}
          /\ next = [Idle EXCEPT !.step = "version.write", !.args = a, !.on = o] /\ Write(r, {w}, next)
          /\ artifacts' = [artifacts EXCEPT ![w] = "DRAFT"] /\ versions' = versions
    BY <1>1 DEF ArtifactCreate
  <2>2. next = [step |-> "version.write", args |-> a, on |-> o, stale |-> FALSE]
    BY <2>1 DEF Idle
  <2>3. Slot(next) /\ next.step = "version.write" /\ next.args = a /\ next.on = o
    BY <2>2 DEF Slot
  <2>4. Follow(r, {w}) /\ Shape' /\ serving'[r] = next
    BY <1>0, <2>1, <2>3, WritesFollow
  <2>5. TextRows({w}) /\ artifacts'[w] = "DRAFT"
    BY <1>0, <2>1 DEF TextRows
  <2>6. TextHeld(r)'
    BY <2>1, <2>3, <2>4, <2>5 DEF TextHeld, Args, TextSteps
  <2> QED BY <2>4, <2>5, <2>6, TextFollows
<1>2. ASSUME NEW r \in Slots, NEW step, NEW args, NEW rows, Continue(r, step, args, rows),
             UNCHANGED writingRows, args[1] \in Artifacts,
             args[1] \in serving[r].on \cup rows \/ serving[r].stale,
             ~serving[r].stale => artifacts[args[1]] # "SUBMITTED"
                                  /\ (step \in {"version.latest", "version.write"} => artifacts[args[1]] = args[3])
      PROVE  TextInv'
  <2>1. /\ Follow(r, {}) /\ Shape' /\ serving'[r].step = step /\ serving'[r].args = args
        /\ serving'[r].on = serving[r].on \cup rows /\ serving'[r].stale = serving[r].stale
    BY <1>0, <1>2, ReadsFollow, ContinueEffect, ContinueHolds
  <2>2. TextRows({})
    BY <1>0, <1>2 DEF TextRows, writingRows
  <2>3. TextHeld(r)'
    BY <1>2, <2>1 DEF TextHeld, Args, writingRows
  <2> QED BY <2>1, <2>2, <2>3, TextFollows
<1>3. ASSUME NEW r \in Slots, NEW w \in Artifacts, NEW status, WritingStatusRead(r, w, status) PROVE TextInv'
  <2>1. PICK args : args = <<w, status>> /\ Continue(r, "writing.status", args, {w})
    BY <1>3 DEF WritingStatusRead
  <2>2. UNCHANGED writingRows /\ status \in WRITING_TRANSITIONS[artifacts[w]]
    BY <1>3 DEF WritingStatusRead
  <2>3. artifacts[w] # "SUBMITTED"
    BY <2>2 DEF WRITING_TRANSITIONS
  <2> QED BY <1>2, <2>1, <2>2, <2>3
<1>4. ASSUME NEW r \in Slots, NEW w \in Artifacts, VersionRead(r, w) PROVE TextInv'
  <2>1. PICK args : args = <<w, 0, artifacts[w]>> /\ Continue(r, "version.latest", args, {w})
    BY <1>4 DEF VersionRead
  <2>2. UNCHANGED writingRows /\ artifacts[w] # "SUBMITTED"
    BY <1>4 DEF VersionRead
  <2> QED BY <1>2, <2>1, <2>2
<1>5. ASSUME NEW r \in Slots, VersionLatest(r) PROVE TextInv'
  <2>1. PICK args, rows : args = <<Args(r)[1], versions[Args(r)[1]], Args(r)[3]>>
                          /\ Continue(r, "version.write", args, rows) /\ UNCHANGED writingRows
    BY <1>5 DEF VersionLatest
  <2>2. TextHeld(r) /\ serving[r].step = "version.latest"
    BY <1>0, <1>5 DEF VersionLatest, At
  <2> QED BY <1>2, <2>1, <2>2 DEF TextHeld, TextSteps
<1>6. ASSUME NEW r \in Slots, WritingStatusWrite(r) \/ VersionWrite(r) PROVE TextInv'
  <2>1. PICK w \in Artifacts : w = Args(r)[1]
    BY <1>0, <1>6 DEF TextHeld, TextSteps, WritingStatusWrite, VersionWrite, At
  <2>2. PICK rows : /\ Write(r, rows, Idle)
                    /\ versions' = versions \/ versions' = [versions EXCEPT ![w] = @ + 1]
                    /\ \/ artifacts' = artifacts
                       \/ w \in rows /\ \E status : artifacts' = [artifacts EXCEPT ![w] = status]
    <3>1. CASE WritingStatusWrite(r)
      BY <2>1, <3>1 DEF WritingStatusWrite
    <3>2. CASE VersionWrite(r)
      BY <2>1, <3>2 DEF VersionWrite
    <3> QED BY <1>6, <3>1, <3>2
  <2>3. Follow(r, rows) /\ Shape' /\ serving'[r] = Idle
    BY <1>0, <2>2, IdleSlot, WritesFollow
  <2>4. TextRows(rows)
    BY <1>0, <2>2 DEF TextRows
  <2>5. TextHeld(r)'
    BY <2>3 DEF TextHeld, TextSteps, Idle
  <2> QED BY <2>3, <2>4, <2>5, TextFollows
<1>7. ASSUME NEW r \in Slots, Dies(r), UNCHANGED writingRows PROVE TextInv'
  <2>1. Follow(r, {}) /\ Shape' /\ serving'[r] = Idle
    BY <1>0, <1>7, ReadsFollow, ReturnEffect DEF Dies
  <2>2. TextHeld(r)' /\ TextRows({})
    BY <1>0, <1>7, <2>1 DEF TextHeld, TextSteps, Idle, TextRows, writingRows
  <2> QED BY <2>1, <2>2, TextFollows
<1>8. CASE UNCHANGED writingVars
  BY <1>0, <1>8 DEF TextInv, writingVars, writingRows, handlerVars, Shape, Slot, TextHeld, Args
<1> QED BY <1>1, <1>3, <1>4, <1>5, <1>6, <1>7, <1>8 DEF WritingNext

LEMMA TextInit == WritingInit => TextInv
<1> SUFFICES ASSUME WritingInit PROVE TextInv
  OBVIOUS
<1>1. Shape /\ \A q \in Slots : serving[q] = Idle
  BY HandlersInitShape DEF WritingInit
<1>2. Idle.step \notin TextSteps
  BY DEF Idle, TextSteps
<1>3. \A q \in Slots : serving[q].step \notin TextSteps
  BY <1>1, <1>2
<1> QED BY <1>1, <1>3 DEF TextInv, TextHeld, TextSteps, WritingInit

\* What was declared final is what is handed in, and what is submitted stays so, for any
\* number of texts and versions, unless the text changed under the handler that adds a
\* version or changes the status (writing-artifacts.service.ts:81-130).
THEOREM FinalTextsStand == WritingSpec => FinalStands
<1> DEFINE Stands ==
      undisturbed' =>
       \A w \in Artifacts :
         /\ artifacts[w] \in {"FINAL", "SUBMITTED"} /\ artifacts'[w] \in {"FINAL", "SUBMITTED"} =>
              versions'[w] = versions[w]
         /\ artifacts[w] = "SUBMITTED" => artifacts'[w] = "SUBMITTED"
<1>1. TextInv /\ [WritingNext]_writingVars => Stands
  <2> SUFFICES ASSUME TextInv, [WritingNext]_writingVars, undisturbed', NEW w \in Artifacts
               PROVE  /\ artifacts[w] \in {"FINAL", "SUBMITTED"} /\ artifacts'[w] \in {"FINAL", "SUBMITTED"} =>
                           versions'[w] = versions[w]
                      /\ artifacts[w] = "SUBMITTED" => artifacts'[w] = "SUBMITTED"
    OBVIOUS
  <2>0. /\ Shape /\ artifacts = [v \in Artifacts |-> artifacts[v]] /\ versions = [v \in Artifacts |-> versions[v]]
        /\ \A q \in Slots : TextHeld(q)
    BY DEF TextInv
  <2>1. ASSUME NEW r \in Slots, WritingStatusWrite(r)
        PROVE  versions' = versions /\ (artifacts[w] = "SUBMITTED" => artifacts'[w] = "SUBMITTED")
    <3>1. PICK v \in Artifacts : v = Args(r)[1]
      BY <2>0, <2>1 DEF TextHeld, TextSteps, WritingStatusWrite, At
    <3>2. /\ Write(r, {v}, Idle) /\ artifacts' = [artifacts EXCEPT ![v] = Args(r)[2]] /\ versions' = versions
          /\ serving[r].step \in TextSteps
      BY <2>1, <3>1 DEF WritingStatusWrite, At, TextSteps
    <3>3. ~serving[r].stale
      BY <2>0, <3>2, IdleSlot, WritesFollow
    <3>4. artifacts[v] # "SUBMITTED"
      BY <2>0, <3>1, <3>2, <3>3 DEF TextHeld
    <3> QED BY <2>0, <3>2, <3>4
  <2>2. ASSUME NEW r \in Slots, VersionWrite(r)
        PROVE  /\ artifacts[w] \in {"FINAL", "SUBMITTED"} /\ artifacts'[w] \in {"FINAL", "SUBMITTED"} =>
                    versions'[w] = versions[w]
               /\ artifacts[w] = "SUBMITTED" => artifacts'[w] = "SUBMITTED"
    <3>1. PICK v \in Artifacts : v = Args(r)[1]
      BY <2>0, <2>2 DEF TextHeld, TextSteps, VersionWrite, At
    <3>2. /\ \E rows : Write(r, rows, Idle)
          /\ artifacts' = IF Args(r)[3] = "FINAL" THEN [artifacts EXCEPT ![v] = "REVISION"] ELSE artifacts
          /\ versions' = [versions EXCEPT ![v] = @ + 1] /\ serving[r].step = "version.write"
      BY <2>2, <3>1 DEF VersionWrite, At
    <3>3. ~serving[r].stale
      BY <2>0, <3>2, IdleSlot, WritesFollow
    <3>4. artifacts[v] # "SUBMITTED" /\ artifacts[v] = Args(r)[3]
      BY <2>0, <3>1, <3>2, <3>3 DEF TextHeld, TextSteps
    <3> QED BY <2>0, <3>2, <3>4
  <2>3. ASSUME NEW r \in Slots, NEW v \in Artifacts, ArtifactCreate(r, v)
        PROVE  versions' = versions /\ (artifacts[w] = "SUBMITTED" => artifacts'[w] = "SUBMITTED")
    BY <2>0, <2>3 DEF ArtifactCreate
  <2>4. \/ UNCHANGED writingRows
        \/ \E r \in Slots : WritingStatusWrite(r) \/ VersionWrite(r) \/ \E v \in Artifacts : ArtifactCreate(r, v)
    BY DEF WritingNext, VersionRead, WritingStatusRead, VersionLatest, writingVars
  <2> QED BY <2>1, <2>2, <2>3, <2>4 DEF writingRows
<1>2. WritingSpec => []TextInv
  BY TextInit, TextStep, PTL DEF WritingSpec
<1> QED BY <1>1, <1>2, PTL DEF FinalStands, WritingSpec

-----------------------------------------------------------------------------
(* Assessments and roadmaps                                                 *)

AssessmentStatus == {"DRAFT", "REVIEW", "APPROVED", "SUPERSEDED"}
RoadmapStatus    == DOMAIN ROADMAP_TRANSITIONS
Based(baseline)  == baseline \in {NoBaseline} \cup DOMAIN assessments

CounsellingRowsOK ==
  /\ assessments \in Seq(AssessmentStatus)
  /\ roadmaps \in Seq([status : RoadmapStatus, baseline : Nat])
  /\ \A v \in DOMAIN roadmaps : Based(roadmaps[v].baseline)
  /\ SettledWasApproved

\* One assessment counts, the last one.
LastCounts ==
  undisturbed => \A v \in DOMAIN assessments : v < Len(assessments) => assessments[v] = "SUPERSEDED"

\* What a request may rest on: what it holds of versions and approvals stays true, the status it
\* has read as long as it is not stale.
CounselHeld(r) ==
  LET v == Args(r)[1]  fresh == ~serving[r].stale
  IN  /\ serving[r].step = "assessment.create" =>
           /\ v \in Nat /\ Based(v)
           /\ Args(r)[2] => v \in DOMAIN assessments /\ <<"assessment", v>> \in approvals
           /\ fresh /\ ~Args(r)[2] /\ v # 0 => <<"assessment", v>> \in serving[r].on /\ assessments[v] = "SUPERSEDED"
      /\ serving[r].step \in {"assessment.profile", "assessment.write"} =>
           /\ v \in DOMAIN assessments /\ Args(r)[2] \in {"DRAFT", "REVIEW", "APPROVED"}
           /\ fresh => <<"assessment", v>> \in serving[r].on /\ assessments[v] # "SUPERSEDED"
      /\ serving[r].step = "assessment.write" /\ Args(r)[2] = "APPROVED" /\ fresh =>
           <<"profile">> \in serving[r].on /\ profile
      /\ serving[r].step = "criterion.write" /\ fresh =>
           /\ v \in DOMAIN assessments
           /\ <<"assessment", v>> \in serving[r].on /\ assessments[v] = "DRAFT"
      /\ serving[r].step = "roadmap.create" => Args(r)[2] \in Nat /\ Based(Args(r)[2])
      /\ serving[r].step \in {"roadmap.baseline", "roadmap.write"} =>
           /\ v \in DOMAIN roadmaps /\ Args(r)[2] \in RoadmapStatus
           /\ Args(r)[3] = roadmaps[v].baseline
           /\ Args(r)[2] \in {"ACTIVE", "COMPLETED", "ARCHIVED"} => <<"roadmap", v>> \in approvals
           /\ Args(r)[2] = "APPROVED" => Args(r)[3] \in DOMAIN assessments
      /\ serving[r].step = "roadmap.write" /\ Args(r)[2] = "APPROVED" /\ fresh =>
           <<"assessment", Args(r)[3]>> \in serving[r].on /\ assessments[Args(r)[3]] = "APPROVED"

CounselSteps == {"assessment.create", "assessment.profile", "assessment.write", "criterion.write",
                 "roadmap.create", "roadmap.baseline", "roadmap.write"}

CounselInv == Shape /\ CounsellingRowsOK /\ LastCounts /\ \A r \in Slots : CounselHeld(r)

\* Versions and approvals are there to stay, and a new status is announced to those who have
\* read the old one.
CounselGrows(rows) ==
  /\ DOMAIN assessments \subseteq DOMAIN assessments' /\ approvals \subseteq approvals'
  /\ \A v \in DOMAIN roadmaps : v \in DOMAIN roadmaps' /\ roadmaps'[v].baseline = roadmaps[v].baseline
  /\ \A v \in DOMAIN assessments : <<"assessment", v>> \in rows \/ assessments'[v] = assessments[v]
  /\ <<"profile">> \in rows \/ profile' = profile

\* What BaselinesHold says of a step, next to the invariants.
CounselMoves ==
  undisturbed' =>
    /\ \A v \in DOMAIN assessments :
         /\ assessments[v] # "DRAFT" => (v \in criteria <=> v \in criteria')
         /\ assessments[v] # "APPROVED" /\ assessments'[v] = "APPROVED" => profile
    /\ \A v \in DOMAIN roadmaps :
         roadmaps[v].status # "APPROVED" /\ roadmaps'[v].status = "APPROVED" =>
           assessments[roadmaps[v].baseline] = "APPROVED"

LEMMA CounselElsewhere ==
  ASSUME NEW r \in Slots, serving'[r].step \notin CounselSteps PROVE CounselHeld(r)'
BY DEF CounselHeld, CounselSteps

LEMMA CounselFollows ==
  ASSUME CounselInv, NEW r \in Slots, NEW rows, Follow(r, rows), CounselGrows(rows), NEW q \in Slots \ {r}
  PROVE  CounselHeld(q)'
<1>1. /\ CounselHeld(q) /\ Args(q)' = Args(q) /\ serving'[q].step = serving[q].step
      /\ serving'[q].on = serving[q].on
      /\ ~serving'[q].stale => ~serving[q].stale /\ serving[q].on \cap rows = {}
  BY DEF CounselInv, Follow, Keeps, Args
<1>2. PICK v, b : v = Args(q)[1] /\ b = Args(q)[3]
  OBVIOUS
<1>3. PICK now, held : now = serving[q].on /\ held = Args(q)
  OBVIOUS
<1>4. \A w \in DOMAIN assessments :
        ~serving'[q].stale /\ <<"assessment", w>> \in now => assessments'[w] = assessments[w]
  BY <1>1, <1>3 DEF CounselGrows
<1>5. ~serving'[q].stale /\ <<"profile">> \in now => profile' = profile
  BY <1>1, <1>3 DEF CounselGrows
<1>6. /\ \A w \in DOMAIN assessments : w \in DOMAIN assessments'
      /\ \A p \in approvals : p \in approvals'
      /\ \A w \in DOMAIN roadmaps : w \in DOMAIN roadmaps' /\ roadmaps'[w].baseline = roadmaps[w].baseline
  BY DEF CounselGrows
<1>7. CASE serving[q].step = "assessment.create"
  BY <1>1, <1>3, <1>4, <1>6, <1>7 DEF CounselHeld, Based, NoBaseline
<1>8. CASE serving[q].step \in {"assessment.profile", "assessment.write"}
  BY <1>1, <1>3, <1>4, <1>5, <1>6, <1>8 DEF CounselHeld
<1>9. CASE serving[q].step = "criterion.write"
  BY <1>1, <1>3, <1>4, <1>6, <1>9 DEF CounselHeld
<1>10. CASE serving[q].step = "roadmap.create"
  BY <1>1, <1>3, <1>6, <1>10 DEF CounselHeld, Based
<1>11. CASE serving[q].step \in {"roadmap.baseline", "roadmap.write"}
  BY <1>1, <1>3, <1>4, <1>6, <1>11 DEF CounselHeld
<1>12. CASE serving[q].step \notin CounselSteps
  BY <1>1, <1>12 DEF CounselHeld, CounselSteps
<1> QED BY <1>7, <1>8, <1>9, <1>10, <1>11, <1>12 DEF CounselSteps

\* A step that leaves the assessments, the roadmaps and the profile alone.
LEMMA CounselReads ==
  ASSUME CounselInv, NEW r \in Slots, NEW rows, Follow(r, rows), Shape', undisturbed' => undisturbed,
         UNCHANGED counsellingRows, CounselHeld(r)'
  PROVE  CounselInv' /\ CounselMoves
<1>1. UNCHANGED <<assessments, criteria, roadmaps, approvals, profile>>
  BY DEF counsellingRows
<1>2. CounselGrows(rows) /\ CounselMoves
  BY <1>1 DEF CounselGrows, CounselMoves
<1>3. CounsellingRowsOK' /\ LastCounts'
  BY <1>1 DEF CounselInv, CounsellingRowsOK, Based, SettledWasApproved, LastCounts
<1> QED BY <1>2, <1>3, CounselFollows DEF CounselInv

\* What the rows of the versions are.
LEMMA CounselRows ==
  ASSUME CounsellingRowsOK
  PROVE  /\ Len(assessments) \in Nat /\ DOMAIN assessments = 1 .. Len(assessments)
         /\ Len(roadmaps) \in Nat /\ DOMAIN roadmaps = 1 .. Len(roadmaps)
         /\ \A v \in DOMAIN assessments : assessments[v] \in AssessmentStatus
         /\ \A v \in DOMAIN roadmaps : roadmaps[v] \in [status : RoadmapStatus, baseline : Nat]
<1>1. ASSUME NEW S, NEW s \in Seq(S)
      PROVE  Len(s) \in Nat /\ DOMAIN s = 1 .. Len(s) /\ \A v \in DOMAIN s : s[v] \in S
  BY <1>1
<1> QED BY <1>1 DEF CounsellingRowsOK

LEMMA CounselInitInv == CounsellingInit => CounselInv
<1> SUFFICES ASSUME CounsellingInit PROVE CounselInv
  OBVIOUS
<1>1. Shape /\ \A q \in Slots : serving[q] = Idle
  BY HandlersInitShape DEF CounsellingInit
<1>2. CounsellingRowsOK /\ LastCounts
  BY DEF CounsellingInit, CounsellingRowsOK, LastCounts, SettledWasApproved
<1>3. Idle.step = "idle"
  BY DEF Idle
<1> QED BY <1>1, <1>2, <1>3 DEF CounselInv, CounselHeld

\* The requests that read and go on.
LEMMA CounselReadStep ==
  ASSUME CounselInv, NEW r \in Slots,
         \/ AssessmentCreateRead(r) \/ ProfileRead(r) \/ BaselineRead(r)
         \/ \E v \in DOMAIN assessments, status \in {"DRAFT", "REVIEW", "APPROVED"} : AssessmentRead(r, v, status)
         \/ \E v \in DOMAIN assessments : CriterionRead(r, v)
         \/ \E baseline \in {NoBaseline} \cup DOMAIN assessments : RoadmapCreateRead(r, baseline)
         \/ \E v \in DOMAIN roadmaps, status \in DOMAIN ROADMAP_TRANSITIONS : RoadmapRead(r, v, status)
  PROVE  CounselInv' /\ CounselMoves
<1>0. Shape /\ CounsellingRowsOK /\ CounselHeld(r)
  BY DEF CounselInv
<1>1. \E step, args, rows : Holds(r, step, args, rows)
  BY DEF AssessmentCreateRead, ProfileRead, BaselineRead, AssessmentRead, CriterionRead, RoadmapCreateRead, RoadmapRead
<1>2. Follow(r, {}) /\ Shape' /\ (undisturbed' => undisturbed) /\ UNCHANGED counsellingRows
  BY <1>0, <1>1, ReadsFollow DEF Holds
<1>3. UNCHANGED <<assessments, criteria, roadmaps, approvals, profile>>
  BY <1>2 DEF counsellingRows
<1>4. SUFFICES CounselHeld(r)'
  BY <1>2, CounselReads
<1>5. ASSUME NEW step, NEW args, NEW rows, Holds(r, step, args, rows)
      PROVE  /\ serving'[r].step = step /\ Args(r)' = args /\ serving'[r].on = serving[r].on \cup rows
             /\ serving'[r].stale = serving[r].stale
  BY <1>0, <1>5, ContinueEffect, ContinueHolds DEF Holds, Args
<1>6. CASE AssessmentCreateRead(r)
  <2>1. PICK n \in Nat, again \in BOOLEAN :
          n = Len(assessments) /\ (again <=> n > 0 /\ assessments[n] = "APPROVED")
    BY <1>0, CounselRows
  <2>2. /\ serving'[r].step = "assessment.create" /\ Args(r)' = <<n, again>>
        /\ <<"assessment", n>> \in serving'[r].on
        /\ n > 0 => assessments[n] \notin {"DRAFT", "REVIEW"}
    BY <1>5, <1>6, <2>1 DEF AssessmentCreateRead
  <2>3. n \in Nat /\ Based(n) /\ (n # 0 => n \in DOMAIN assessments /\ assessments[n] \in AssessmentStatus)
    BY <1>0, <2>1, CounselRows DEF Based, NoBaseline
  <2>4. again => n \in DOMAIN assessments /\ <<"assessment", n>> \in approvals
    <3>1. \A v \in DOMAIN assessments : assessments[v] = "APPROVED" => <<"assessment", v>> \in approvals
      BY <1>0 DEF CounsellingRowsOK, SettledWasApproved
    <3> QED BY <2>1, <2>3, <3>1
  <2>5. ~again /\ n # 0 => assessments[n] = "SUPERSEDED"
    BY <2>1, <2>2, <2>3 DEF AssessmentStatus
  <2> QED BY <1>3, <2>2, <2>3, <2>4, <2>5 DEF CounselHeld, Based
<1>7. ASSUME NEW v \in DOMAIN assessments, NEW status \in {"DRAFT", "REVIEW", "APPROVED"}, AssessmentRead(r, v, status)
      PROVE  CounselHeld(r)'
  <2>1. /\ serving'[r].step \in {"assessment.profile", "assessment.write"} /\ Args(r)' = <<v, status>>
        /\ <<"assessment", v>> \in serving'[r].on
        /\ status = "APPROVED" => serving'[r].step = "assessment.profile"
        /\ status \in ASSESSMENT_TRANSITIONS[assessments[v]]
    BY <1>5, <1>7 DEF AssessmentRead
  <2>2. assessments[v] # "SUPERSEDED"
    BY <2>1 DEF ASSESSMENT_TRANSITIONS
  <2> QED BY <1>3, <2>1, <2>2 DEF CounselHeld
<1>8. CASE ProfileRead(r)
  <2>1. /\ serving[r].step = "assessment.profile" /\ serving'[r].step = "assessment.write" /\ Args(r)' = Args(r)
        /\ serving'[r].on = serving[r].on \cup {<<"profile">>} /\ serving'[r].stale = serving[r].stale /\ profile
    BY <1>5, <1>8 DEF ProfileRead, At
  <2> QED BY <1>0, <1>3, <2>1 DEF CounselHeld
<1>9. ASSUME NEW v \in DOMAIN assessments, CriterionRead(r, v) PROVE CounselHeld(r)'
  <2>1. /\ serving'[r].step = "criterion.write" /\ Args(r)' = <<v>> /\ <<"assessment", v>> \in serving'[r].on
        /\ assessments[v] = "DRAFT"
    BY <1>5, <1>9 DEF CriterionRead
  <2> QED BY <1>3, <2>1 DEF CounselHeld
<1>10. ASSUME NEW baseline \in {NoBaseline} \cup DOMAIN assessments, RoadmapCreateRead(r, baseline) PROVE CounselHeld(r)'
  <2>1. serving'[r].step = "roadmap.create" /\ Args(r)' = <<Len(roadmaps), baseline>>
    BY <1>5, <1>10 DEF RoadmapCreateRead
  <2>2. baseline \in Nat
    BY <1>0 DEF CounsellingRowsOK, NoBaseline
  <2> QED BY <1>3, <2>1, <2>2 DEF CounselHeld, Based
<1>11. ASSUME NEW v \in DOMAIN roadmaps, NEW status \in DOMAIN ROADMAP_TRANSITIONS, RoadmapRead(r, v, status)
       PROVE  CounselHeld(r)'
  <2>1. /\ serving'[r].step \in {"roadmap.baseline", "roadmap.write"}
        /\ Args(r)' = <<v, status, roadmaps[v].baseline>>
        /\ status = "APPROVED" => serving'[r].step = "roadmap.baseline" /\ roadmaps[v].baseline # NoBaseline
        /\ status \in ROADMAP_TRANSITIONS[roadmaps[v].status]
    BY <1>5, <1>11 DEF RoadmapRead
  <2>2. roadmaps[v].status \in RoadmapStatus /\ Based(roadmaps[v].baseline)
    BY <1>0, CounselRows DEF CounsellingRowsOK
  <2>3. status \in {"ACTIVE", "COMPLETED", "ARCHIVED"} => <<"roadmap", v>> \in approvals
    <3>1. status \in {"ACTIVE", "COMPLETED", "ARCHIVED"} => roadmaps[v].status \notin {"DRAFT", "REVIEW"}
      BY <2>1 DEF ROADMAP_TRANSITIONS
    <3> QED BY <1>0, <3>1 DEF CounsellingRowsOK, SettledWasApproved
  <2>4. status = "APPROVED" => roadmaps[v].baseline \in DOMAIN assessments
    BY <2>1, <2>2 DEF Based
  <2> QED BY <1>3, <2>1, <2>3, <2>4 DEF CounselHeld, RoadmapStatus
<1>12. CASE BaselineRead(r)
  <2>1. /\ serving[r].step = "roadmap.baseline" /\ serving'[r].step = "roadmap.write" /\ Args(r)' = Args(r)
        /\ <<"assessment", Args(r)[3]>> \in serving'[r].on /\ assessments[Args(r)[3]] = "APPROVED"
    BY <1>5, <1>12 DEF BaselineRead, At
  <2> QED BY <1>0, <1>3, <2>1 DEF CounselHeld
<1> QED BY <1>6, <1>7, <1>8, <1>9, <1>10, <1>11, <1>12

\* The requests that write.
LEMMA CounselWriteStep ==
  ASSUME CounselInv, NEW r \in Slots,
         \/ AssessmentCreate(r) \/ AssessmentWrite(r) \/ CriterionWrite(r) \/ ProfileUpdate(r)
         \/ RoadmapCreate(r) \/ RoadmapWrite(r)
  PROVE  CounselInv' /\ CounselMoves
<1>0. Shape /\ CounsellingRowsOK /\ CounselHeld(r) /\ LastCounts
  BY DEF CounselInv
<1>00. Idle.step = "idle"
  BY DEF Idle
<1>1. ASSUME NEW rows, NEW next, Slot(next), next.step \notin CounselSteps,
             Write(r, rows, next) \/ Put(r, rows, next),
             CounselGrows(rows), CounsellingRowsOK', LastCounts', CounselMoves
      PROVE  CounselInv' /\ CounselMoves
  <2>1. Follow(r, rows) /\ Shape' /\ serving'[r] = next
    BY <1>0, <1>1, WritesFollow, PutsFollow
  <2> QED BY <1>1, <2>1, CounselFollows, CounselElsewhere DEF CounselInv
<1>2. ASSUME NEW rows, NEW next, Slot(next), Write(r, rows, next)
      PROVE  undisturbed' => undisturbed /\ ~serving[r].stale
  BY <1>0, <1>2, WritesFollow
<1>3. CASE AssessmentCreate(r)
  <2>1. PICK n \in Nat : n = Args(r)[1]
    BY <1>0, <1>3 DEF CounselHeld, AssessmentCreate, At
  <2> DEFINE again == Args(r)[2]
  <2>2. PICK rows : rows = {<<"assessment", n>>, <<"assessment", n + 1>>}
    OBVIOUS
  <2>3. PICK before : before = IF again THEN [assessments EXCEPT ![n] = "SUPERSEDED"] ELSE assessments
    OBVIOUS
  <2>4. /\ Len(assessments) = n /\ assessments' = Append(before, "DRAFT") /\ Write(r, rows, Idle)
        /\ UNCHANGED <<criteria, roadmaps, approvals, profile>> /\ serving[r].step = "assessment.create"
    BY <1>3, <2>1, <2>2, <2>3 DEF AssessmentCreate, At, again
  <2>5. undisturbed' => undisturbed /\ ~serving[r].stale
    BY <1>2, <2>4, IdleSlot
  <2> HIDE DEF again
  <2>6. /\ before \in Seq(AssessmentStatus) /\ Len(before) = n
        /\ \A v \in 1 .. n : /\ again /\ v = n => before[v] = "SUPERSEDED"
                             /\ ~again \/ v # n => before[v] = assessments[v]
    <3>1. CASE again
      <4>1. before = [assessments EXCEPT ![n] = "SUPERSEDED"]
        BY <2>3, <3>1
      <4>2. n \in DOMAIN assessments
        BY <1>0, <2>1, <2>4, <3>1 DEF CounselHeld, again
      <4> QED BY <1>0, <2>4, <3>1, <4>1, <4>2, CounselRows DEF CounsellingRowsOK, AssessmentStatus
    <3>2. CASE ~again
      BY <1>0, <2>3, <2>4, <3>2, CounselRows DEF CounsellingRowsOK
    <3> QED BY <3>1, <3>2
  <2>7. /\ assessments' \in Seq(AssessmentStatus) /\ Len(assessments') = n + 1 /\ assessments'[n + 1] = "DRAFT"
        /\ \A v \in 1 .. n : assessments'[v] = before[v]
        /\ DOMAIN assessments = 1 .. n /\ DOMAIN assessments' = 1 .. n + 1
    BY <1>0, <2>4, <2>6 DEF CounsellingRowsOK, AssessmentStatus
  <2>8. CounselGrows(rows)
    BY <2>2, <2>4, <2>6, <2>7 DEF CounselGrows
  <2>9. again => <<"assessment", n>> \in approvals
    BY <1>0, <2>1, <2>4 DEF CounselHeld, again
  <2>10. CounsellingRowsOK'
    <3>1. \A v \in DOMAIN assessments : assessments[v] \in {"APPROVED", "SUPERSEDED"} => <<"assessment", v>> \in approvals
      BY <1>0 DEF CounsellingRowsOK, SettledWasApproved
    <3>2. \A v \in DOMAIN assessments' :
            assessments'[v] \in {"APPROVED", "SUPERSEDED"} => <<"assessment", v>> \in approvals
      <4> SUFFICES ASSUME NEW v \in 1 .. n + 1, assessments'[v] \in {"APPROVED", "SUPERSEDED"}
                   PROVE  <<"assessment", v>> \in approvals
        BY <2>7
      <4>1. v \in 1 .. n
        BY <2>7
      <4>2. assessments'[v] = before[v]
        BY <2>7, <4>1
      <4>3. CASE again /\ v = n
        BY <2>9, <4>3
      <4>4. CASE ~(again /\ v = n)
        BY <2>6, <2>7, <3>1, <4>1, <4>2, <4>4
      <4> QED BY <4>3, <4>4
    <3>3. SettledWasApproved'
      BY <1>0, <2>4, <3>2 DEF CounsellingRowsOK, SettledWasApproved
    <3> QED BY <1>0, <2>4, <2>7, <3>3 DEF CounsellingRowsOK, Based, NoBaseline
  <2>11. undisturbed' /\ ~again /\ n # 0 => assessments[n] = "SUPERSEDED"
    BY <1>0, <2>1, <2>4, <2>5 DEF CounselHeld, again
  <2>12. LastCounts'
    BY <1>0, <2>4, <2>5, <2>6, <2>7, <2>11 DEF LastCounts
  <2>13. CounselMoves
    BY <2>4, <2>6, <2>7 DEF CounselMoves
  <2> QED BY <1>00, <1>1, <2>4, <2>8, <2>10, <2>12, <2>13, IdleSlot DEF CounselSteps
<1>4. CASE AssessmentWrite(r)
  <2>0. Args(r)[1] \in DOMAIN assessments /\ Args(r)[2] \in {"DRAFT", "REVIEW", "APPROVED"}
    BY <1>0, <1>4 DEF CounselHeld, AssessmentWrite, At
  <2>1. PICK v \in DOMAIN assessments, status \in {"DRAFT", "REVIEW", "APPROVED"} : v = Args(r)[1] /\ status = Args(r)[2]
    BY <2>0
  <2>2. PICK rows : rows = {<<"assessment", v>>}
    OBVIOUS
  <2>3. /\ assessments' = [assessments EXCEPT ![v] = status] /\ Write(r, rows, Idle)
        /\ approvals' = approvals \cup Decision("assessment", v, status)
        /\ UNCHANGED <<criteria, roadmaps, profile>> /\ serving[r].step = "assessment.write"
    BY <1>4, <2>1, <2>2 DEF AssessmentWrite, At
  <2>4. undisturbed' => undisturbed /\ ~serving[r].stale
    BY <1>2, <2>3, IdleSlot
  <2>5. /\ assessments' \in Seq(AssessmentStatus) /\ Len(assessments') = Len(assessments)
        /\ DOMAIN assessments' = DOMAIN assessments /\ DOMAIN assessments = 1 .. Len(assessments)
        /\ assessments'[v] = status /\ \A w \in DOMAIN assessments \ {v} : assessments'[w] = assessments[w]
    BY <1>0, <2>3 DEF CounsellingRowsOK, AssessmentStatus
  <2>6. CounselGrows(rows)
    BY <2>2, <2>3, <2>5 DEF CounselGrows
  <2>7. status = "APPROVED" => <<"assessment", v>> \in approvals'
    BY <2>3 DEF Decision
  <2>8. CounsellingRowsOK'
    <3>1. SettledWasApproved'
      BY <1>0, <2>3, <2>5, <2>7 DEF CounsellingRowsOK, SettledWasApproved
    <3> QED BY <1>0, <2>3, <2>5, <3>1 DEF CounsellingRowsOK, Based
  <2>9. undisturbed' => assessments[v] # "SUPERSEDED" /\ (status = "APPROVED" => profile)
    BY <1>0, <2>1, <2>3, <2>4 DEF CounselHeld
  <2>10. LastCounts'
    BY <1>0, <2>4, <2>5, <2>9 DEF LastCounts
  <2>11. CounselMoves
    BY <2>3, <2>5, <2>9 DEF CounselMoves
  <2> QED BY <1>00, <1>1, <2>3, <2>6, <2>8, <2>10, <2>11, IdleSlot DEF CounselSteps
<1>5. CASE CriterionWrite(r)
  <2>1. PICK v : v = Args(r)[1]
    OBVIOUS
  <2>2. PICK rows : rows = {}
    OBVIOUS
  <2>3. /\ criteria' = (criteria \cup {v}) \ (criteria \cap {v}) /\ Write(r, rows, Idle)
        /\ UNCHANGED <<assessments, roadmaps, approvals, profile>> /\ serving[r].step = "criterion.write"
    BY <1>5, <2>1, <2>2 DEF CriterionWrite, At
  <2>4. undisturbed' => undisturbed /\ assessments[v] = "DRAFT"
    BY <1>0, <1>2, <2>1, <2>3, IdleSlot DEF CounselHeld
  <2>5. CounselGrows(rows) /\ CounselMoves
    BY <2>3, <2>4 DEF CounselGrows, CounselMoves
  <2>6. CounsellingRowsOK' /\ LastCounts'
    BY <1>0, <2>3, <2>4 DEF CounsellingRowsOK, LastCounts, Based, SettledWasApproved
  <2> QED BY <1>00, <1>1, <2>3, <2>5, <2>6, IdleSlot DEF CounselSteps
<1>6. CASE ProfileUpdate(r)
  <2>1. PICK rows : rows = {<<"profile">>}
    OBVIOUS
  <2>2. Put(r, rows, Idle) /\ UNCHANGED <<assessments, criteria, roadmaps, approvals, undisturbed>>
    BY <1>6, <2>1 DEF ProfileUpdate, Put
  <2>3. CounselGrows(rows) /\ CounselMoves
    BY <2>1, <2>2 DEF CounselGrows, CounselMoves
  <2>4. CounsellingRowsOK' /\ LastCounts'
    BY <1>0, <2>2 DEF CounsellingRowsOK, LastCounts, Based, SettledWasApproved
  <2> QED BY <1>00, <1>1, <2>2, <2>3, <2>4, IdleSlot DEF CounselSteps
<1>7. CASE RoadmapCreate(r)
  <2>1. PICK baseline \in Nat : baseline = Args(r)[2] /\ Based(baseline)
    BY <1>0, <1>7 DEF CounselHeld, RoadmapCreate, At
  <2>2. PICK rows, row : rows = {<<"roadmap", Args(r)[1] + 1>>} /\ row = [status |-> "DRAFT", baseline |-> baseline]
    OBVIOUS
  <2>3. /\ roadmaps' = Append(roadmaps, row) /\ Write(r, rows, Idle)
        /\ UNCHANGED <<assessments, criteria, approvals, profile>>
    BY <1>7, <2>1, <2>2 DEF RoadmapCreate
  <2>4. undisturbed' => undisturbed
    BY <1>2, <2>3, IdleSlot
  <2>5. row \in [status : RoadmapStatus, baseline : Nat] /\ row.status = "DRAFT" /\ row.baseline = baseline
    BY <2>2 DEF RoadmapStatus, ROADMAP_TRANSITIONS
  <2>6. PICK n \in Nat : n = Len(roadmaps) /\ DOMAIN roadmaps = 1 .. n
    BY <1>0 DEF CounsellingRowsOK
  <2>7. /\ roadmaps' \in Seq([status : RoadmapStatus, baseline : Nat]) /\ DOMAIN roadmaps' = 1 .. n + 1
        /\ roadmaps'[n + 1] = row /\ \A w \in 1 .. n : roadmaps'[w] = roadmaps[w]
    BY <1>0, <2>3, <2>5, <2>6 DEF CounsellingRowsOK
  <2>8. CounselGrows(rows) /\ CounselMoves
    BY <2>3, <2>6, <2>7 DEF CounselGrows, CounselMoves
  <2>9. CounsellingRowsOK'
    BY <1>0, <2>1, <2>3, <2>5, <2>6, <2>7 DEF CounsellingRowsOK, Based, SettledWasApproved
  <2>10. LastCounts'
    BY <1>0, <2>3, <2>4 DEF LastCounts
  <2> QED BY <1>00, <1>1, <2>3, <2>8, <2>9, <2>10, IdleSlot DEF CounselSteps
<1>8. CASE RoadmapWrite(r)
  <2>0. /\ Args(r)[1] \in DOMAIN roadmaps /\ Args(r)[2] \in RoadmapStatus /\ serving[r].step = "roadmap.write"
        /\ Args(r)[3] = roadmaps[Args(r)[1]].baseline
        /\ Args(r)[2] \in {"ACTIVE", "COMPLETED", "ARCHIVED"} => <<"roadmap", Args(r)[1]>> \in approvals
    BY <1>0, <1>8 DEF CounselHeld, RoadmapWrite, At
  <2>1. PICK v \in DOMAIN roadmaps, status \in RoadmapStatus : v = Args(r)[1] /\ status = Args(r)[2]
    BY <2>0
  <2>2. PICK rows, next :
          /\ rows = {<<"roadmap", v>>}
          /\ next = IF status = "APPROVED"
                    THEN [Idle EXCEPT !.step = "generation", !.args = GenerationOf(<<"roadmap", v>>, "ROADMAP_APPROVED")]
                    ELSE Idle
    OBVIOUS
  <2>3. /\ roadmaps' = [roadmaps EXCEPT ![v].status = status] /\ Write(r, rows, next)
        /\ approvals' = approvals \cup Decision("roadmap", v, status)
        /\ UNCHANGED <<assessments, criteria, profile>>
    BY <1>8, <2>1, <2>2 DEF RoadmapWrite
  <2>4. Slot(next) /\ next.step \in {"idle", "generation"}
    BY <1>00, <2>2, IdleSlot, SentOff
  <2>5. undisturbed' => undisturbed /\ ~serving[r].stale
    BY <1>2, <2>3, <2>4
  <2>6. PICK row : row = [roadmaps[v] EXCEPT !.status = status]
    OBVIOUS
  <2>7. roadmaps[v] \in [status : RoadmapStatus, baseline : Nat]
    BY <1>0, CounselRows
  <2>8. /\ row \in [status : RoadmapStatus, baseline : Nat] /\ row.status = status
        /\ row.baseline = roadmaps[v].baseline
    BY <2>6, <2>7
  <2>9. roadmaps' = [roadmaps EXCEPT ![v] = row]
    BY <2>3, <2>6
  <2>10. /\ roadmaps' \in Seq([status : RoadmapStatus, baseline : Nat]) /\ DOMAIN roadmaps' = DOMAIN roadmaps
         /\ roadmaps'[v] = row /\ \A w \in DOMAIN roadmaps \ {v} : roadmaps'[w] = roadmaps[w]
    BY <1>0, <2>8, <2>9 DEF CounsellingRowsOK
  <2>11. status \notin {"DRAFT", "REVIEW"} => <<"roadmap", v>> \in approvals'
    BY <2>0, <2>1, <2>3 DEF Decision, RoadmapStatus, ROADMAP_TRANSITIONS
  <2>12. SettledWasApproved'
    BY <1>0, <2>3, <2>8, <2>10, <2>11 DEF CounsellingRowsOK, SettledWasApproved
  <2>13. CounsellingRowsOK'
    BY <1>0, <2>3, <2>8, <2>10, <2>12 DEF CounsellingRowsOK, Based
  <2>14. CounselGrows(rows)
    BY <2>3, <2>8, <2>10 DEF CounselGrows
  <2>15. undisturbed' /\ status = "APPROVED" => assessments[roadmaps[v].baseline] = "APPROVED"
    BY <1>0, <2>0, <2>1, <2>5 DEF CounselHeld
  <2>16. CounselMoves
    BY <2>3, <2>8, <2>10, <2>15 DEF CounselMoves
  <2>17. LastCounts'
    BY <1>0, <2>3, <2>5 DEF LastCounts
  <2> QED BY <1>1, <2>3, <2>4, <2>13, <2>14, <2>16, <2>17 DEF CounselSteps
<1> QED BY <1>3, <1>4, <1>5, <1>6, <1>7, <1>8

LEMMA CounselStep == CounselInv /\ [CounsellingNext]_counsellingVars => CounselInv' /\ CounselMoves
<1> SUFFICES ASSUME CounselInv, [CounsellingNext]_counsellingVars PROVE CounselInv' /\ CounselMoves
  OBVIOUS
<1>0. Shape
  BY DEF CounselInv
<1>1. CASE UNCHANGED counsellingVars
  <2>1. /\ UNCHANGED <<assessments, criteria, roadmaps, approvals, profile>>
        /\ serving' = serving /\ undisturbed' = undisturbed
    BY <1>1 DEF counsellingVars, counsellingRows, handlerVars
  <2> QED BY <2>1 DEF CounselInv, CounsellingRowsOK, LastCounts, Based, SettledWasApproved, CounselHeld, CounselMoves,
                      Args, Shape, Slot
<1>2. ASSUME NEW r \in Slots, GenerationNext(r) \/ Generate(r) \/ Dies(r), UNCHANGED counsellingRows
      PROVE  CounselInv' /\ CounselMoves
  <2>1. \/ Return(r)
        \/ \E step, args, rows : Continue(r, step, args, rows) /\ step \in {"generation", "generation.create"}
    BY <1>2 DEF GenerationNext, Generate, Dies
  <2>2. Follow(r, {}) /\ Shape' /\ (undisturbed' => undisturbed)
    BY <1>0, <2>1, ReadsFollow
  <2>3. serving'[r].step \in {"idle", "generation", "generation.create"}
    BY <1>0, <2>1, ReturnEffect, ContinueEffect DEF Idle
  <2>4. CounselHeld(r)'
    BY <2>3, CounselElsewhere DEF CounselSteps
  <2> QED BY <1>2, <2>2, <2>4, CounselReads
<1> QED BY <1>1, <1>2, CounselReadStep, CounselWriteStep DEF CounsellingNext

\* What counts was decided; unless a request has written what it decided on rows that had
\* changed: of the assessments of a case the last one counts, criteria stay as they were handed
\* in for review, and what is approved is approved on a complete profile and on an approved
\* baseline.  For any number of versions, templates and requests.
THEOREM ApprovalsRestOnBaselines == CounsellingSpec => BaselinesHold
<1>1. CounsellingSpec => []CounselInv
  BY CounselInitInv, CounselStep, PTL DEF CounsellingSpec
<1>2. CounselInv /\ CounselInv' => DOMAIN assessments = 1 .. Len(assessments) /\ DOMAIN assessments' = 1 .. Len(assessments')
  BY DEF CounselInv, CounsellingRowsOK
<1>3. CounselInv /\ [CounsellingNext]_counsellingVars =>
        [/\ SettledWasApproved'
         /\ undisturbed' =>
           /\ \A v \in DOMAIN assessments : v < Len(assessments') => assessments'[v] = "SUPERSEDED"
           /\ \A v \in DOMAIN assessments :
                /\ assessments[v] # "DRAFT" => (v \in criteria <=> v \in criteria')
                /\ assessments[v] # "APPROVED" /\ assessments'[v] = "APPROVED" => profile
           /\ \A v \in DOMAIN roadmaps :
                roadmaps[v].status # "APPROVED" /\ roadmaps'[v].status = "APPROVED" =>
                  assessments[roadmaps[v].baseline] = "APPROVED"]_counsellingVars
  BY <1>2, CounselStep DEF CounselInv, CounsellingRowsOK, LastCounts, CounselMoves
<1> QED BY <1>1, <1>3, PTL DEF CounsellingSpec, BaselinesHold

-----------------------------------------------------------------------------
(***************************************************************************)
(* Milestones, which wait for each other and for tasks.  What the tasks do *)
(* is the invariant above, which the requests about milestones keep too.   *)
(***************************************************************************)
MilestoneSteps == {"milestone.checks", "milestone.write", "milestone.walk", "milestone.link"}

\* The two answers that let a milestone be done, as long as nobody has written what they are about.
AwaitedDone(r) ==
  LET m == Args(r)[1]
  IN  <<"awaits", m>> \in serving[r].on /\ \A n \in Awaited(m) : n \in serving[r].on /\ Finished(n)
WorkDone(r) ==
  LET m == Args(r)[1]
  IN  <<"work", m>> \in serving[r].on /\ \A t \in Linked(m) : t \in serving[r].on /\ tasks[t].status \in TERMINAL_STATUSES

ProgressHeld(r) ==
  LET m == Args(r)[1]  fresh == ~serving[r].stale
  IN  serving[r].step \in {"milestone.checks", "milestone.write"} =>
        /\ m \in Milestones /\ Args(r)[2] \in TaskStatus
        /\ serving[r].step = "milestone.checks" => Args(r)[2] = "DONE"
        /\ serving[r].step = "milestone.write" /\ Args(r)[2] = "DONE" => Args(r)[3] = {}
        /\ fresh => m \in serving[r].on /\ ~Finished(m)
        /\ fresh /\ Args(r)[2] = "DONE" => /\ "milestones" \in Args(r)[3] \/ AwaitedDone(r)
                                           /\ "tasks" \in Args(r)[3] \/ WorkDone(r)

\* A walk over the milestones knows what one over the tasks knows.
AwaitHeld(r) ==
  serving[r].step \in {"milestone.walk", "milestone.link"} =>
    /\ Args(r)[1] \in Milestones /\ Args(r)[2] \in Milestones /\ Args(r)[3] \in SUBSET Milestones
    /\ Args(r)[4] \in SUBSET Met(r)
    /\ serving[r].step = "milestone.link" => Args(r)[4] = {}
    /\ ~serving[r].stale => /\ Args(r)[1] \notin Met(r)
                            /\ \A v \in Asked(r) : Awaited(v) \subseteq Args(r)[3] /\ <<"awaits", v>> \in serving[r].on

PlanHeld(r) == ProgressHeld(r) /\ AwaitHeld(r)

PlanRowsOK ==
  /\ milestones \in [Milestones -> TaskStatus \cup {"ABSENT"}]
  /\ awaits \in SUBSET (Milestones \X Milestones)
  /\ part \in [Tasks -> Milestones \cup {NoMilestone}]
  /\ \A t \in Tasks : ~TaskExists(t) => part[t] = NoMilestone

NoAwaitCycle == undisturbed => \A S \in SUBSET Milestones : S # {} => \E m \in S : S \cap Awaited(m) = {}

PlanInv == OutputInv /\ PlanRowsOK /\ NoAwaitCycle /\ \A r \in Slots : PlanHeld(r)

\* What a step may do to the status of a milestone, unless it writes on what has changed.
PlanMove ==
  undisturbed' => \A m \in Milestones : milestones'[m] # milestones[m] =>
                    /\ ~Finished(m)
                    /\ milestones'[m] = "DONE" => /\ \A n \in Awaited(m) : Finished(n)
                                                  /\ \A t \in Linked(m) : tasks[t].status \in TERMINAL_STATUSES

\* What changes is announced to those who have looked at it; dependencies may go without.
PlanAnnounced(rows) ==
  /\ \A m \in Milestones : m \in rows \/ milestones'[m] = milestones[m]
  /\ \A m \in Milestones : <<"awaits", m>> \in rows \/ Awaited(m)' \subseteq Awaited(m)
  /\ \A m \in Milestones : <<"work", m>> \in rows \/ Linked(m)' \subseteq Linked(m)
  /\ \A t \in Tasks : t \in rows \/ tasks'[t].status = tasks[t].status

LEMMA PlanElsewhere ==
  ASSUME NEW r \in Slots, serving'[r].step \notin MilestoneSteps PROVE PlanHeld(r)'
BY DEF PlanHeld, ProgressHeld, AwaitHeld, MilestoneSteps

LEMMA ProgressFollows ==
  ASSUME PlanInv, NEW r \in Slots, NEW rows, Follow(r, rows), PlanAnnounced(rows), NEW q \in Slots \ {r}
  PROVE  ProgressHeld(q)'
<1>1. /\ ProgressHeld(q) /\ Args(q)' = Args(q) /\ serving'[q].step = serving[q].step
      /\ serving'[q].on = serving[q].on
      /\ ~serving'[q].stale => ~serving[q].stale /\ serving[q].on \cap rows = {}
  BY DEF PlanInv, PlanHeld, Follow, Keeps, Args
<1>2. CASE serving[q].step \in {"milestone.checks", "milestone.write"} /\ ~serving'[q].stale
  <2>1. PICK m \in Milestones : m = Args(q)[1]
    BY <1>1, <1>2 DEF ProgressHeld
  <2>2. m \in serving[q].on /\ m \notin rows /\ ~Finished(m) /\ ~Finished(m)'
    BY <1>1, <1>2, <2>1 DEF ProgressHeld, PlanAnnounced, Finished
  <2>3. AwaitedDone(q) => AwaitedDone(q)'
    <3>1. SUFFICES ASSUME AwaitedDone(q) PROVE AwaitedDone(q)'
      OBVIOUS
    <3>2. <<"awaits", m>> \in serving[q].on /\ \A n \in Awaited(m) : n \in serving[q].on /\ Finished(n)
      BY <2>1, <3>1 DEF AwaitedDone
    <3>3. Awaited(m)' \subseteq Awaited(m)
      BY <1>1, <1>2, <3>2 DEF PlanAnnounced
    <3>4. \A n \in Awaited(m)' : n \in Milestones /\ n \in serving[q].on /\ n \notin rows /\ Finished(n)
      BY <1>1, <1>2, <3>2, <3>3 DEF Awaited
    <3>5. \A n \in Awaited(m)' : n \in serving'[q].on /\ Finished(n)'
      BY <1>1, <3>4 DEF PlanAnnounced, Finished
    <3> QED BY <1>1, <2>1, <3>2, <3>5 DEF AwaitedDone, Awaited
  <2>4. WorkDone(q) => WorkDone(q)'
    <3>1. SUFFICES ASSUME WorkDone(q) PROVE WorkDone(q)'
      OBVIOUS
    <3>2. <<"work", m>> \in serving[q].on /\ \A t \in Linked(m) : t \in serving[q].on /\ tasks[t].status \in TERMINAL_STATUSES
      BY <2>1, <3>1 DEF WorkDone
    <3>3. Linked(m)' \subseteq Linked(m)
      BY <1>1, <1>2, <3>2 DEF PlanAnnounced
    <3>4. \A t \in Linked(m)' : /\ t \in Tasks /\ t \in serving[q].on /\ t \notin rows
                                /\ tasks[t].status \in TERMINAL_STATUSES
      BY <1>1, <1>2, <3>2, <3>3 DEF Linked
    <3>5. \A t \in Linked(m)' : t \in serving'[q].on /\ tasks'[t].status \in TERMINAL_STATUSES
      BY <1>1, <3>4 DEF PlanAnnounced
    <3> QED BY <1>1, <2>1, <3>2, <3>5 DEF WorkDone, Linked, TaskExists
  <2> QED BY <1>1, <1>2, <2>1, <2>2, <2>3, <2>4 DEF ProgressHeld
<1>3. CASE serving[q].step \notin {"milestone.checks", "milestone.write"} \/ serving'[q].stale
  BY <1>1, <1>3 DEF ProgressHeld
<1> QED BY <1>2, <1>3

LEMMA AwaitFollows ==
  ASSUME PlanInv, NEW r \in Slots, NEW rows, Follow(r, rows), PlanAnnounced(rows), NEW q \in Slots \ {r}
  PROVE  AwaitHeld(q)'
<1>1. /\ AwaitHeld(q) /\ Args(q)' = Args(q) /\ serving'[q].step = serving[q].step
      /\ serving'[q].on = serving[q].on
      /\ ~serving'[q].stale => ~serving[q].stale /\ serving[q].on \cap rows = {}
  BY DEF PlanInv, PlanHeld, Follow, Keeps, Args
<1>2. Met(q)' = Met(q) /\ Asked(q)' = Asked(q)
  BY <1>1 DEF Met, Asked
<1>3. CASE serving[q].step \in {"milestone.walk", "milestone.link"} /\ ~serving'[q].stale
  <2>1. ASSUME NEW v \in Asked(q) PROVE Awaited(v)' \subseteq Args(q)[3] /\ <<"awaits", v>> \in serving'[q].on
    <3>1. Awaited(v) \subseteq Args(q)[3] /\ <<"awaits", v>> \in serving[q].on /\ v \in Milestones
      BY <1>1, <1>3, <2>1 DEF AwaitHeld, Met, Asked
    <3> QED BY <1>1, <1>3, <3>1 DEF PlanAnnounced
  <2>2. \A v \in Asked(q)' : Awaited(v)' \subseteq Args(q)[3] /\ <<"awaits", v>> \in serving'[q].on
    BY <1>2, <2>1
  <2> QED BY <1>1, <1>2, <1>3, <2>2 DEF AwaitHeld, Awaited
<1>4. CASE serving[q].step \notin {"milestone.walk", "milestone.link"} \/ serving'[q].stale
  BY <1>1, <1>2, <1>4 DEF AwaitHeld
<1> QED BY <1>3, <1>4

LEMMA PlanGoesOn ==
  ASSUME PlanInv, OutputInv', PlanRowsOK', NoAwaitCycle', NEW r \in Slots, NEW rows, Follow(r, rows),
         PlanAnnounced(rows), PlanHeld(r)'
  PROVE  PlanInv'
BY ProgressFollows, AwaitFollows DEF PlanInv, PlanHeld

\* Fewer dependencies close no circle.
LEMMA AwaitsThin ==
  ASSUME NoAwaitCycle, awaits' \subseteq awaits, undisturbed' => undisturbed PROVE NoAwaitCycle'
BY DEF NoAwaitCycle, Awaited

\* What a request about tasks tells of what it does.
LEMMA TaskAnnounces ==
  ASSUME OutputInv, NEW r \in Slots,
         \/ \E t \in Tasks : CreateTask(r, t) \/ PortalSubmitOutput(r, t)
         \/ \E t \in Tasks, status \in TaskStatus, sent \in BOOLEAN : StatusRead(r, t, status, sent)
         \/ PrerequisitesRead(r) \/ StatusWrite(r)
         \/ \E t, u \in Tasks : DependencyBegin(r, t, u) \/ Unlink(r, t, u)
         \/ Walk(r) \/ Link(r) \/ TaskEnds(r)
  PROVE  /\ \E rows : Follow(r, rows) /\ \A t \in Tasks : t \in rows \/ tasks'[t].status = tasks[t].status
         /\ \A t \in Tasks : TaskExists(t) => TaskExists(t)'
         /\ undisturbed' => undisturbed
         /\ serving'[r].step \notin MilestoneSteps
<1>0. Shape /\ tasks \in [Tasks -> TaskRow] /\ StatusHeld(r)
  BY DEF OutputInv, TaskTypeOK
<1>1. Idle.step \notin MilestoneSteps /\ Slot(Idle)
  BY IdleSlot DEF Idle, MilestoneSteps
<1>2. CASE (Return(r) \/ \E step, args, rows : Continue(r, step, args, rows) /\ step \notin MilestoneSteps) /\ tasks' = tasks
  <2>1. Follow(r, {}) /\ (undisturbed' => undisturbed)
    BY <1>0, <1>2, ReadsFollow
  <2>2. serving'[r].step \notin MilestoneSteps
    BY <1>0, <1>1, <1>2, ReturnEffect, ContinueEffect
  <2> QED BY <1>2, <2>1, <2>2 DEF TaskExists
<1>3. ASSUME NEW rows, Write(r, rows, Idle) \/ Put(r, rows, Idle),
             \A t \in Tasks : t \in rows \/ tasks'[t].status = tasks[t].status,
             \A t \in Tasks : TaskExists(t) => TaskExists(t)'
      PROVE  /\ \E some : Follow(r, some) /\ \A t \in Tasks : t \in some \/ tasks'[t].status = tasks[t].status
             /\ undisturbed' => undisturbed
             /\ serving'[r].step \notin MilestoneSteps
  <2>1. Follow(r, rows) /\ serving'[r] = Idle /\ (undisturbed' => undisturbed)
    BY <1>0, <1>1, <1>3, WritesFollow, PutsFollow
  <2> QED BY <1>1, <1>3, <2>1
<1>4. ASSUME NEW t \in Tasks, CreateTask(r, t)
      PROVE  /\ Put(r, {t}, Idle) /\ \A u \in Tasks : u \in {t} \/ tasks'[u].status = tasks[u].status
             /\ \A u \in Tasks : TaskExists(u) => TaskExists(u)'
  BY <1>0, <1>4 DEF CreateTask, TaskExists, TaskRow
<1>5. ASSUME NEW t \in Tasks, PortalSubmitOutput(r, t)
      PROVE  /\ Put(r, {t}, Idle) /\ \A u \in Tasks : u \in {t} \/ tasks'[u].status = tasks[u].status
             /\ \A u \in Tasks : TaskExists(u) => TaskExists(u)'
  BY <1>0, <1>5 DEF PortalSubmitOutput, TaskExists, TaskRow
<1>6. ASSUME StatusWrite(r)
      PROVE  /\ Write(r, {Args(r)[1]}, Idle) /\ \A u \in Tasks : u \in {Args(r)[1]} \/ tasks'[u].status = tasks[u].status
             /\ \A u \in Tasks : TaskExists(u) => TaskExists(u)'
  <2>1. Args(r)[1] \in Tasks /\ Args(r)[2] \in TaskStatus
    BY <1>0, <1>6 DEF StatusWrite, StatusHeld, At
  <2> QED BY <1>0, <1>6, <2>1 DEF StatusWrite, TaskExists, TaskRow, TaskStatus
<1>7. ASSUME \/ \E t, u \in Tasks : Unlink(r, t, u)
             \/ Link(r)
      PROVE  (\E rows : Write(r, rows, Idle) \/ Put(r, rows, Idle)) /\ tasks' = tasks
  BY <1>7 DEF Unlink, Link
<1>8. ASSUME \/ \E t \in Tasks, status \in TaskStatus, sent \in BOOLEAN : StatusRead(r, t, status, sent)
             \/ PrerequisitesRead(r) \/ Walk(r) \/ TaskEnds(r)
             \/ \E t, u \in Tasks : DependencyBegin(r, t, u)
      PROVE  (Return(r) \/ \E step, args, rows : Continue(r, step, args, rows) /\ step \notin MilestoneSteps)
             /\ tasks' = tasks
  <2>1. tasks' = tasks
    BY <1>8 DEF StatusRead, PrerequisitesRead, Walk, TaskEnds, DependencyBegin, taskRows
  <2>2. CASE \E t \in Tasks, status \in TaskStatus, sent \in BOOLEAN : StatusRead(r, t, status, sent)
    <3>1. PICK t \in Tasks, status \in TaskStatus, sent \in BOOLEAN : StatusRead(r, t, status, sent)
      BY <2>2
    <3>2. PICK step : step = IF status = "DONE" THEN "task.prerequisites" ELSE "task.write"
      OBVIOUS
    <3>3. \E args : Continue(r, step, args, {t})
      BY <3>1, <3>2 DEF StatusRead
    <3> QED BY <2>1, <3>2, <3>3 DEF MilestoneSteps
  <2>3. CASE Walk(r)
    <3>1. PICK step \in {"task.link", "task.walk"} : \E args, rows : Continue(r, step, args, rows)
      BY <2>3 DEF Walk
    <3> QED BY <2>1, <3>1 DEF MilestoneSteps
  <2>4. CASE PrerequisitesRead(r) \/ \E t, u \in Tasks : DependencyBegin(r, t, u)
    <3>1. PICK step \in {"task.write", "task.walk"} : \E args, rows : Continue(r, step, args, rows)
      BY <2>4 DEF PrerequisitesRead, DependencyBegin
    <3> QED BY <2>1, <3>1 DEF MilestoneSteps
  <2>5. CASE TaskEnds(r)
    BY <2>1, <2>5 DEF TaskEnds, Dies
  <2> QED BY <1>8, <2>2, <2>3, <2>4, <2>5
<1>9. CASE \E t \in Tasks : CreateTask(r, t) \/ PortalSubmitOutput(r, t)
  BY <1>3, <1>4, <1>5, <1>9
<1>10. CASE StatusWrite(r)
  BY <1>3, <1>6, <1>10
<1>11. CASE Link(r) \/ \E t, u \in Tasks : Unlink(r, t, u)
  BY <1>3, <1>7, <1>11 DEF TaskExists
<1> QED BY <1>2, <1>8, <1>9, <1>10, <1>11

LEMMA PlanTaskStep ==
  ASSUME PlanInv, TaskNext, UNCHANGED milestoneRows PROVE PlanInv' /\ PlanMove
<1>0. OutputInv' /\ OutputInv /\ PlanRowsOK /\ NoAwaitCycle /\ UNCHANGED <<milestones, awaits, part>>
  BY OutputStep DEF PlanInv, milestoneRows
<1>1. PICK r \in Slots : /\ \E rows : Follow(r, rows) /\ \A t \in Tasks : t \in rows \/ tasks'[t].status = tasks[t].status
                         /\ \A t \in Tasks : TaskExists(t) => TaskExists(t)'
                         /\ undisturbed' => undisturbed
                         /\ serving'[r].step \notin MilestoneSteps
  <2>1. PICK r \in Slots :
               \/ \E t \in Tasks : CreateTask(r, t) \/ PortalSubmitOutput(r, t)
               \/ \E t \in Tasks, status \in TaskStatus, sent \in BOOLEAN : StatusRead(r, t, status, sent)
               \/ PrerequisitesRead(r) \/ StatusWrite(r)
               \/ \E t, u \in Tasks : DependencyBegin(r, t, u) \/ Unlink(r, t, u)
               \/ Walk(r) \/ Link(r) \/ TaskEnds(r)
    BY DEF TaskNext
  <2> QED BY <1>0, <2>1, TaskAnnounces
<1>2. PICK rows : Follow(r, rows) /\ \A t \in Tasks : t \in rows \/ tasks'[t].status = tasks[t].status
  BY <1>1
<1>3. PlanRowsOK' /\ NoAwaitCycle'
  BY <1>0, <1>1, AwaitsThin DEF PlanRowsOK
<1>4. \A m \in Milestones : Linked(m)' \subseteq Linked(m) /\ Awaited(m)' = Awaited(m)
  BY <1>0, MilestonesAssumption DEF PlanRowsOK, Linked, Awaited
<1>5. PlanAnnounced(rows)
  BY <1>0, <1>2, <1>4 DEF PlanAnnounced
<1>6. PlanInv'
  BY <1>0, <1>1, <1>2, <1>3, <1>5, PlanGoesOn, PlanElsewhere
<1> QED BY <1>0, <1>6 DEF PlanMove

\* What the requests about milestones do to the tasks: nothing, or one more.
LEMMA PlanOutputs ==
  ASSUME PlanInv, NEW r \in Slots, Shape', \A q \in Slots \ {r} : Keeps(q),
         serving'[r].step \in MilestoneSteps \cup {"idle"},
         requires' = requires, tasks' \in [Tasks -> TaskRow], DoneHasOutput'
  PROVE  OutputInv'
<1>1. \A q \in Slots : StatusHeld(q) /\ WalkHeld(q)
  BY DEF PlanInv, OutputInv, TaskTypeOK
<1>2. \A q \in Slots \ {r} : StatusHeld(q)' /\ WalkHeld(q)'
  BY <1>1, OthersHold
<1>3. StatusHeld(r)' /\ WalkHeld(r)'
  BY DEF StatusHeld, WalkHeld, MilestoneSteps
<1> QED BY <1>2, <1>3 DEF PlanInv, OutputInv, TaskTypeOK

\* A request about milestones that reads on.
LEMMA PlanReads ==
  ASSUME PlanInv, NEW r \in Slots, NEW step \in MilestoneSteps, NEW args, NEW rows, Continue(r, step, args, rows),
         UNCHANGED <<taskRows, milestoneRows>>, PlanHeld(r)'
  PROVE  PlanInv' /\ PlanMove
<1>0. Shape /\ OutputInv /\ NoAwaitCycle /\ PlanRowsOK
  BY DEF PlanInv, OutputInv, TaskTypeOK
<1>1. UNCHANGED <<tasks, requires, milestones, awaits, part>>
  BY DEF taskRows, milestoneRows
<1>2. Follow(r, {}) /\ Shape' /\ (undisturbed' => undisturbed)
  BY <1>0, ReadsFollow
<1>3. serving'[r].step = step /\ \A q \in Slots \ {r} : Keeps(q)
  BY <1>0, <1>2, ContinueEffect DEF Follow
<1>4. OutputInv'
  BY <1>0, <1>1, <1>2, <1>3, PlanOutputs DEF OutputInv, TaskTypeOK, DoneHasOutput
<1>5. PlanRowsOK' /\ NoAwaitCycle' /\ PlanAnnounced({})
  BY <1>0, <1>1, <1>2, AwaitsThin DEF PlanRowsOK, PlanAnnounced, Awaited, Linked, TaskExists
<1> QED BY <1>1, <1>2, <1>4, <1>5, PlanGoesOn DEF PlanMove

\* One that writes, and is done.
LEMMA PlanWrites ==
  ASSUME PlanInv, NEW r \in Slots, NEW rows, Write(r, rows, Idle) \/ Put(r, rows, Idle), requires' = requires,
         tasks' \in [Tasks -> TaskRow], DoneHasOutput', PlanRowsOK', NoAwaitCycle', PlanAnnounced(rows)
  PROVE  PlanInv'
<1>0. Shape /\ Slot(Idle)
  BY IdleSlot DEF PlanInv, OutputInv, TaskTypeOK
<1>1. Follow(r, rows) /\ Shape' /\ serving'[r] = Idle
  BY <1>0, WritesFollow, PutsFollow
<1>2. PlanHeld(r)'
  BY <1>1, PlanElsewhere DEF Idle, MilestoneSteps
<1>3. OutputInv'
  BY <1>1, PlanOutputs DEF Follow, Idle
<1> QED BY <1>1, <1>2, <1>3, PlanGoesOn

\* A request that reads the status, and the two checks, side by side.
LEMMA ProgressStep ==
  ASSUME PlanInv, NEW r \in Slots,
         \/ \E m \in Milestones, status \in TaskStatus : MilestoneStatusRead(r, m, status)
         \/ MilestonesChecked(r) \/ TasksChecked(r)
  PROVE  PlanInv' /\ PlanMove
<1>0. Shape /\ PlanHeld(r) /\ PlanRowsOK
  BY DEF PlanInv, OutputInv, TaskTypeOK
<1>1. CASE \E m \in Milestones, status \in TaskStatus : MilestoneStatusRead(r, m, status)
  <2>1. PICK m \in Milestones, status \in TaskStatus : MilestoneStatusRead(r, m, status)
    BY <1>1
  <2>2. PICK step, args : /\ step = (IF status = "DONE" THEN "milestone.checks" ELSE "milestone.write")
                          /\ args = <<m, status, {"milestones", "tasks"}>>
    OBVIOUS
  <2>3. Continue(r, step, args, {m}) /\ UNCHANGED <<taskRows, milestoneRows>>
    BY <2>1, <2>2 DEF MilestoneStatusRead
  <2>4. ~Finished(m) /\ milestones' = milestones
    BY <1>0, <2>1, <2>3 DEF MilestoneStatusRead, MILESTONE_TRANSITIONS, TASK_TRANSITIONS, Finished, TERMINAL_STATUSES,
                            TaskStatus, PlanRowsOK, milestoneRows
  <2>5. serving'[r].step = step /\ serving'[r].args = args /\ m \in serving'[r].on
    BY <1>0, <2>3, ContinueEffect, ContinueHolds
  <2>6. PlanHeld(r)'
    BY <2>2, <2>4, <2>5 DEF PlanHeld, ProgressHeld, AwaitHeld, Args, Finished
  <2> QED BY <2>2, <2>3, <2>6, PlanReads DEF MilestoneSteps
<1>2. ASSUME At(r, "milestone.checks"), NEW what \in {"milestones", "tasks"}, what \in Args(r)[3], NEW rows,
             Continue(r, Checks(r, what).step, Checks(r, what).args, rows),
             UNCHANGED <<taskRows, milestoneRows>>,
             what = "milestones" /\ ~serving[r].stale => AwaitedDone(r)',
             what = "tasks" /\ ~serving[r].stale => WorkDone(r)'
      PROVE  PlanInv' /\ PlanMove
  <2>0. PICK m \in Milestones : m = Args(r)[1]
    BY <1>0, <1>2 DEF PlanHeld, ProgressHeld, At
  <2>00. PICK left : left = Args(r)[3]
    OBVIOUS
  <2>1. m = Args(r)[1] /\ left = Args(r)[3]
    BY <2>0, <2>00
  <2>2. PICK step, args : step = Checks(r, what).step /\ args = Checks(r, what).args
    OBVIOUS
  <2>3. /\ args = <<m, "DONE", left \ {what}>> /\ step \in {"milestone.checks", "milestone.write"}
        /\ step = "milestone.write" => left = {what}
    BY <1>0, <1>2, <2>1, <2>2 DEF Checks, PlanHeld, ProgressHeld, At
  <2>4. /\ serving'[r].step = step /\ serving'[r].args = args /\ serving[r].on \subseteq serving'[r].on
        /\ serving'[r].stale = serving[r].stale
    BY <1>0, <1>2, <2>2, ContinueEffect, ContinueHolds
  <2>5. UNCHANGED <<tasks, milestones, awaits, part>>
    BY <1>2 DEF taskRows, milestoneRows
  <2>6. /\ Args(r)'[1] = m /\ Args(r)'[2] = "DONE" /\ Args(r)'[3] = left \ {what}
    BY <2>3, <2>4 DEF Args
  <2>7. (AwaitedDone(r) => AwaitedDone(r)') /\ (WorkDone(r) => WorkDone(r)')
    BY <2>1, <2>4, <2>5, <2>6 DEF AwaitedDone, WorkDone, Awaited, Linked, Finished, TaskExists
  <2>8. /\ "DONE" \in TaskStatus
        /\ ~serving[r].stale =>
             /\ m \in serving[r].on /\ ~Finished(m)
             /\ "milestones" \in left \/ AwaitedDone(r)
             /\ "tasks" \in left \/ WorkDone(r)
    BY <1>0, <1>2, <2>1 DEF PlanHeld, ProgressHeld, At, TaskStatus
  <2>9. ~serving[r].stale => /\ m \in serving'[r].on /\ ~Finished(m)'
                             /\ "milestones" \in left \ {what} \/ AwaitedDone(r)'
                             /\ "tasks" \in left \ {what} \/ WorkDone(r)'
    BY <1>2, <2>4, <2>5, <2>7, <2>8 DEF Finished
  <2>10. ProgressHeld(r)'
    BY <2>3, <2>4, <2>6, <2>8, <2>9 DEF ProgressHeld
  <2>11. AwaitHeld(r)'
    BY <2>3, <2>4 DEF AwaitHeld
  <2> QED BY <1>2, <2>2, <2>3, <2>10, <2>11, PlanReads DEF PlanHeld, MilestoneSteps
<1>3. CASE MilestonesChecked(r)
  <2>1. PICK m \in Milestones : m = Args(r)[1]
    BY <1>0, <1>3 DEF MilestonesChecked, PlanHeld, ProgressHeld, At
  <2>2. PICK rows : rows = Awaited(m) \cup Looked({m})
    OBVIOUS
  <2>3. /\ At(r, "milestone.checks") /\ "milestones" \in Args(r)[3] /\ \A n \in Awaited(m) : Finished(n)
        /\ Continue(r, Checks(r, "milestones").step, Checks(r, "milestones").args, rows)
        /\ UNCHANGED <<taskRows, milestoneRows>>
    BY <1>3, <2>1, <2>2 DEF MilestonesChecked
  <2>4. serving'[r].on = serving[r].on \cup rows /\ Args(r)'[1] = m
    <3>1. PICK step, args : step = Checks(r, "milestones").step /\ args = Checks(r, "milestones").args
      OBVIOUS
    <3>2. serving'[r].on = serving[r].on \cup rows /\ serving'[r].args = args
      BY <1>0, <2>3, <3>1, ContinueEffect, ContinueHolds
    <3> QED BY <2>1, <3>1, <3>2 DEF Checks, Args
  <2>5. AwaitedDone(r)'
    BY <2>2, <2>3, <2>4 DEF AwaitedDone, Looked, Awaited, Finished, milestoneRows
  <2> QED BY <1>2, <2>3, <2>5
<1>4. CASE TasksChecked(r)
  <2>1. PICK m \in Milestones : m = Args(r)[1]
    BY <1>0, <1>4 DEF TasksChecked, PlanHeld, ProgressHeld, At
  <2>2. PICK rows : rows = Linked(m) \cup Work(m)
    OBVIOUS
  <2>3. /\ At(r, "milestone.checks") /\ "tasks" \in Args(r)[3] /\ \A t \in Linked(m) : tasks[t].status \in TERMINAL_STATUSES
        /\ Continue(r, Checks(r, "tasks").step, Checks(r, "tasks").args, rows)
        /\ UNCHANGED <<taskRows, milestoneRows>>
    BY <1>4, <2>1, <2>2 DEF TasksChecked
  <2>4. serving'[r].on = serving[r].on \cup rows /\ Args(r)'[1] = m
    <3>1. PICK step, args : step = Checks(r, "tasks").step /\ args = Checks(r, "tasks").args
      OBVIOUS
    <3>2. serving'[r].on = serving[r].on \cup rows /\ serving'[r].args = args
      BY <1>0, <2>3, <3>1, ContinueEffect, ContinueHolds
    <3> QED BY <2>1, <3>1, <3>2 DEF Checks, Args
  <2>5. WorkDone(r)'
    BY <2>2, <2>3, <2>4 DEF WorkDone, Work, Linked, TaskExists, milestoneRows, taskRows
  <2> QED BY <1>2, <2>3, <2>5
<1> QED BY <1>1, <1>3, <1>4

\* A milestone that is new, a task for one, and a status that is written.
LEMMA PlanWriteStep ==
  ASSUME PlanInv, NEW r \in Slots,
         \/ \E m \in Milestones : MilestoneCreate(r, m) \/ \E t \in Tasks : MilestoneTask(r, m, t)
         \/ MilestoneWrite(r)
  PROVE  PlanInv' /\ PlanMove
<1>0. /\ Shape /\ PlanHeld(r) /\ PlanRowsOK /\ NoAwaitCycle /\ Slot(Idle)
      /\ tasks \in [Tasks -> TaskRow] /\ DoneHasOutput
  BY IdleSlot DEF PlanInv, OutputInv, TaskTypeOK
<1>1. CASE \E m \in Milestones : MilestoneCreate(r, m)
  <2>1. PICK m \in Milestones : MilestoneCreate(r, m)
    BY <1>1
  <2>2. /\ Put(r, {m}, Idle) /\ UNCHANGED <<tasks, requires, awaits, part>> /\ ~Planned(m)
        /\ milestones' = [milestones EXCEPT ![m] = "NOT_STARTED"]
    BY <2>1 DEF MilestoneCreate, taskRows
  <2>3. PlanRowsOK' /\ PlanAnnounced({m})
    BY <1>0, <2>2 DEF PlanRowsOK, PlanAnnounced, Awaited, Linked, TaskExists, TaskStatus
  <2>4. undisturbed' => undisturbed
    BY <1>0, <2>2, PutsFollow
  <2>5. PlanMove
    BY <1>0, <2>2 DEF PlanMove, PlanRowsOK, Planned, Finished, TERMINAL_STATUSES
  <2>6. PlanInv'
    BY <1>0, <2>2, <2>3, <2>4, PlanWrites, AwaitsThin DEF DoneHasOutput
  <2> QED BY <2>5, <2>6
<1>2. CASE \E m \in Milestones, t \in Tasks : MilestoneTask(r, m, t)
  <2>1. PICK m \in Milestones, t \in Tasks : MilestoneTask(r, m, t)
    BY <1>2
  <2>2. /\ Put(r, {t} \cup Work(m), Idle) /\ UNCHANGED <<requires, milestones, awaits>> /\ ~TaskExists(t)
        /\ tasks' = [tasks EXCEPT ![t].status = "NOT_STARTED"] /\ part' = [part EXCEPT ![t] = m]
    BY <2>1 DEF MilestoneTask
  <2>3. tasks' \in [Tasks -> TaskRow] /\ DoneHasOutput' /\ \A u \in Tasks \ {t} : tasks'[u] = tasks[u]
    BY <1>0, <2>2 DEF TaskRow, TaskStatus, DoneHasOutput
  <2>4. TaskExists(t)'
    BY <1>0, <2>2 DEF TaskExists, TaskRow
  <2>5. PlanRowsOK'
    BY <1>0, <2>2, <2>3, <2>4 DEF PlanRowsOK, TaskExists
  <2>6. \A k \in Milestones : <<"work", k>> \in Work(m) \/ Linked(k)' \subseteq Linked(k)
    BY <1>0, <2>2, <2>3 DEF PlanRowsOK, Work, Linked, TaskExists
  <2>7. PlanAnnounced({t} \cup Work(m))
    BY <2>2, <2>3, <2>6 DEF PlanAnnounced, Awaited
  <2>8. undisturbed' => undisturbed
    BY <1>0, <2>2, PutsFollow
  <2>9. PlanInv'
    BY <1>0, <2>2, <2>3, <2>5, <2>7, <2>8, PlanWrites, AwaitsThin
  <2> QED BY <2>2, <2>9 DEF PlanMove
<1>3. CASE MilestoneWrite(r)
  <2>1. PICK m \in Milestones, status \in TaskStatus : m = Args(r)[1] /\ status = Args(r)[2]
    BY <1>0, <1>3 DEF MilestoneWrite, PlanHeld, ProgressHeld, At
  <2>2. /\ Write(r, {m}, Idle) /\ UNCHANGED <<tasks, requires, awaits, part>>
        /\ milestones' = [milestones EXCEPT ![m] = status] /\ serving[r].step = "milestone.write"
    BY <1>3, <2>1 DEF MilestoneWrite, taskRows, At
  <2>3. PlanRowsOK' /\ PlanAnnounced({m})
    BY <1>0, <2>2 DEF PlanRowsOK, PlanAnnounced, Awaited, Linked, TaskExists
  <2>4. undisturbed' => undisturbed /\ ~serving[r].stale
    BY <1>0, <2>2, WritesFollow
  <2>5. PlanMove
    <3>1. \A k \in Milestones : milestones'[k] # milestones[k] => k = m
      BY <1>0, <2>2 DEF PlanRowsOK
    <3>2. milestones'[m] = status
      BY <1>0, <2>2 DEF PlanRowsOK
    <3>3. undisturbed' => ~Finished(m) /\ (status = "DONE" => AwaitedDone(r) /\ WorkDone(r))
      BY <1>0, <2>1, <2>2, <2>4 DEF PlanHeld, ProgressHeld
    <3>4. (AwaitedDone(r) => \A n \in Awaited(m) : Finished(n))
          /\ (WorkDone(r) => \A t \in Linked(m) : tasks[t].status \in TERMINAL_STATUSES)
      BY <2>1 DEF AwaitedDone, WorkDone
    <3> QED BY <3>1, <3>2, <3>3, <3>4 DEF PlanMove
  <2>6. PlanInv'
    BY <1>0, <2>2, <2>3, <2>4, PlanWrites, AwaitsThin DEF DoneHasOutput
  <2> QED BY <2>5, <2>6
<1> QED BY <1>1, <1>2, <1>3


\* The walk over the milestones: it begins, goes on and ends as the one over the tasks.
LEMMA AwaitReadStep ==
  ASSUME PlanInv, NEW r \in Slots, AwaitWalk(r) \/ \E m, n \in Milestones : AwaitBegin(r, m, n)
  PROVE  PlanInv' /\ PlanMove
<1>0. Shape /\ PlanHeld(r) /\ PlanRowsOK
  BY DEF PlanInv, OutputInv, TaskTypeOK
<1>1. CASE \E m, n \in Milestones : AwaitBegin(r, m, n)
  <2>1. PICK m \in Milestones, n \in Milestones : AwaitBegin(r, m, n)
    BY <1>1
  <2>2. PICK args : args = <<m, n, {}, {n}>>
    OBVIOUS
  <2>3. Continue(r, "milestone.walk", args, {}) /\ UNCHANGED <<taskRows, milestoneRows>> /\ m # n
    BY <2>1, <2>2 DEF AwaitBegin
  <2>4. serving'[r].step = "milestone.walk" /\ serving'[r].args = args
    BY <1>0, <2>3, ContinueEffect
  <2>5. PlanHeld(r)'
    BY <2>2, <2>3, <2>4 DEF PlanHeld, ProgressHeld, AwaitHeld, Args, Met, Asked
  <2>6. PICK step, rows : step = "milestone.walk" /\ rows = {}
    OBVIOUS
  <2>7. step \in MilestoneSteps /\ Continue(r, step, args, rows) /\ UNCHANGED <<taskRows, milestoneRows>>
    BY <2>3, <2>6 DEF MilestoneSteps
  <2> QED BY <2>5, <2>7, PlanReads
<1>2. CASE AwaitWalk(r)
  <2>1. PICK m \in Milestones, n \in Milestones, visited \in SUBSET Milestones :
          m = Args(r)[1] /\ n = Args(r)[2] /\ visited = Args(r)[3]
    BY <1>0, <1>2 DEF AwaitWalk, PlanHeld, AwaitHeld, At
  <2>2. PICK frontier : frontier = Args(r)[4]
    OBVIOUS
  <2>3. PICK found : found = UNION {Awaited(v) : v \in frontier}
    OBVIOUS
  <2>4. PICK args : args = <<m, n, visited \cup found, found \ visited>>
    OBVIOUS
  <2>5. PICK step : step = IF found \subseteq visited THEN "milestone.link" ELSE "milestone.walk"
    OBVIOUS
  <2>6. /\ serving[r].step = "milestone.walk" /\ m \notin found /\ UNCHANGED <<taskRows, milestoneRows>>
        /\ Continue(r, step, args, Looked(frontier))
    BY <1>2, <2>1, <2>2, <2>3, <2>4, <2>5 DEF AwaitWalk, At
  <2>7. /\ serving'[r].step = step /\ serving'[r].args = args
        /\ serving'[r].on = serving[r].on \cup Looked(frontier) /\ serving'[r].stale = serving[r].stale
    BY <1>0, <2>6, ContinueEffect, ContinueHolds
  <2>8. found \subseteq Milestones
    BY <2>3 DEF Awaited
  <2>9. /\ Args(r)'[1] = m /\ Args(r)'[2] = n /\ Args(r)'[3] = visited \cup found /\ Args(r)'[4] = found \ visited
    BY <2>4, <2>7 DEF Args
  <2>10. \A v \in Milestones : Awaited(v)' = Awaited(v)
    BY <2>6 DEF Awaited, milestoneRows
  <2>11. ASSUME serving[r].stale PROVE AwaitHeld(r)'
    BY <2>5, <2>7, <2>8, <2>9, <2>11 DEF AwaitHeld, Met
  <2>12. ASSUME ~serving[r].stale PROVE AwaitHeld(r)'
    <3>1. m \notin Met(r) /\ \A v \in Asked(r) : Awaited(v) \subseteq visited /\ <<"awaits", v>> \in serving[r].on
      BY <1>0, <2>1, <2>6, <2>12 DEF PlanHeld, AwaitHeld
    <3>2. m \notin Met(r)'
      BY <2>1, <2>6, <2>9, <3>1 DEF Met
    <3>3. ASSUME NEW v \in Asked(r)'
          PROVE  Awaited(v)' \subseteq visited \cup found /\ <<"awaits", v>> \in serving'[r].on
      <4>1. v \in Met(r) /\ v \in Milestones
        BY <2>1, <2>9, <3>3 DEF Met, Asked
      <4>2. CASE v \in frontier
        BY <2>3, <2>7, <2>10, <4>1, <4>2 DEF Looked
      <4>3. CASE v \notin frontier
        BY <2>2, <2>7, <2>10, <3>1, <4>1, <4>3 DEF Asked
      <4> QED BY <4>2, <4>3
    <3>4. \A v \in Asked(r)' : Awaited(v)' \subseteq Args(r)'[3] /\ <<"awaits", v>> \in serving'[r].on
      BY <2>9, <3>3
    <3> QED BY <2>5, <2>7, <2>8, <2>9, <3>2, <3>4 DEF AwaitHeld, Met
  <2>13. step \in {"milestone.link", "milestone.walk"}
    BY <2>5
  <2>14. ProgressHeld(r)'
    BY <2>7, <2>13 DEF ProgressHeld
  <2>15. step \in MilestoneSteps
    BY <2>13 DEF MilestoneSteps
  <2>16. PlanHeld(r)'
    BY <2>11, <2>12, <2>14 DEF PlanHeld
  <2>17. PICK rows : rows = Looked(frontier)
    OBVIOUS
  <2>18. Continue(r, step, args, rows) /\ UNCHANGED <<taskRows, milestoneRows>>
    BY <2>6, <2>17
  <2> QED BY <2>15, <2>16, <2>18, PlanReads
<1> QED BY <1>1, <1>2

\* A dependency more or less.
LEMMA AwaitWriteStep ==
  ASSUME PlanInv, NEW r \in Slots, AwaitLink(r) \/ \E m, n \in Milestones : AwaitUnlink(r, m, n)
  PROVE  PlanInv' /\ PlanMove
<1>0. /\ Shape /\ PlanHeld(r) /\ PlanRowsOK /\ NoAwaitCycle /\ Slot(Idle)
      /\ tasks \in [Tasks -> TaskRow] /\ DoneHasOutput
  BY IdleSlot DEF PlanInv, OutputInv, TaskTypeOK
<1>1. CASE \E m, n \in Milestones : AwaitUnlink(r, m, n)
  <2>1. PICK m \in Milestones, n \in Milestones : AwaitUnlink(r, m, n)
    BY <1>1
  <2>2. Put(r, {}, Idle) /\ UNCHANGED <<tasks, requires, milestones, part>> /\ awaits' = awaits \ {<<m, n>>}
    BY <2>1 DEF AwaitUnlink, taskRows
  <2>3. PlanRowsOK' /\ PlanAnnounced({}) /\ PlanMove
    BY <1>0, <2>2 DEF PlanRowsOK, PlanAnnounced, PlanMove, Awaited, Linked, TaskExists
  <2>4. undisturbed' => undisturbed
    BY <1>0, <2>2, PutsFollow
  <2>5. PlanInv'
    BY <1>0, <2>2, <2>3, <2>4, PlanWrites, AwaitsThin DEF DoneHasOutput
  <2> QED BY <2>3, <2>5
<1>2. CASE AwaitLink(r)
  <2>1. PICK m \in Milestones, n \in Milestones : m = Args(r)[1] /\ n = Args(r)[2]
    BY <1>0, <1>2 DEF AwaitLink, PlanHeld, AwaitHeld, At
  <2>2. PICK V : V = Met(r)
    OBVIOUS
  <2>3. /\ Write(r, Looked({m}), Idle) /\ UNCHANGED <<tasks, requires, milestones, part>>
        /\ awaits' = awaits \cup {<<m, n>>} /\ serving[r].step = "milestone.link"
    BY <1>2, <2>1 DEF AwaitLink, taskRows, At
  <2>4. undisturbed' => undisturbed /\ ~serving[r].stale
    BY <1>0, <2>3, WritesFollow
  <2>5. n \in V /\ V \subseteq Milestones
    BY <1>0, <2>1, <2>2, <2>3 DEF PlanHeld, AwaitHeld, Met
  <2>6. ASSUME undisturbed' PROVE m \notin V /\ \A v \in V, x \in Milestones : <<v, x>> \in awaits => x \in V
    BY <1>0, <2>1, <2>2, <2>3, <2>4, <2>6 DEF PlanHeld, AwaitHeld, Asked, Met, Awaited
  <2>7. NoAwaitCycle'
    <3>1. SUFFICES ASSUME undisturbed' PROVE Acyclic(Milestones, awaits')
      BY DEF NoAwaitCycle, Awaited, Acyclic
    <3>2. Acyclic(Milestones, awaits)
      BY <1>0, <2>4, <3>1 DEF NoAwaitCycle, Awaited, Acyclic
    <3>3. m \notin V /\ n \in V /\ Closed(Milestones, awaits, V)
      BY <2>5, <2>6, <3>1 DEF Closed
    <3>4. Acyclic(Milestones, awaits \cup {<<m, n>>})
      BY <3>2, <3>3, NewEdge
    <3> QED BY <2>3, <3>4
  <2>8. PlanRowsOK' /\ PlanAnnounced(Looked({m})) /\ PlanMove
    BY <1>0, <2>3 DEF PlanRowsOK, PlanAnnounced, PlanMove, Awaited, Linked, TaskExists, Looked
  <2>9. PlanInv'
    BY <1>0, <2>3, <2>7, <2>8, PlanWrites DEF DoneHasOutput
  <2> QED BY <2>8, <2>9
<1> QED BY <1>1, <1>2

LEMMA PlanStep == PlanInv /\ [PlanNext]_planVars => PlanInv' /\ PlanMove
<1> SUFFICES ASSUME PlanInv, [PlanNext]_planVars PROVE PlanInv' /\ PlanMove
  OBVIOUS
<1>1. CASE UNCHANGED planVars
  <2>1. /\ UNCHANGED <<tasks, requires, milestones, awaits, part>> /\ UNCHANGED taskVars
        /\ serving' = serving /\ undisturbed' = undisturbed
    BY <1>1 DEF planVars, taskVars, taskRows, milestoneRows, handlerVars
  <2>2. OutputInv'
    BY <2>1, OutputStep DEF PlanInv
  <2>3. PlanRowsOK' /\ NoAwaitCycle' /\ PlanMove
    BY <2>1 DEF PlanInv, PlanRowsOK, NoAwaitCycle, PlanMove, TaskExists, Awaited
  <2>4. ASSUME NEW r \in Slots PROVE PlanHeld(r)'
    BY <2>1 DEF PlanInv, PlanHeld, ProgressHeld, AwaitHeld, AwaitedDone, WorkDone, Awaited, Linked, Finished,
                TaskExists, Met, Asked, Args
  <2> QED BY <2>2, <2>3, <2>4 DEF PlanInv
<1>2. CASE TaskNext /\ UNCHANGED milestoneRows
  BY <1>2, PlanTaskStep
<1>3. CASE PlanNext /\ ~(TaskNext /\ UNCHANGED milestoneRows)
  <2>1. PICK r \in Slots :
          \/ \E m \in Milestones :
               \/ MilestoneCreate(r, m)
               \/ \E t \in Tasks : MilestoneTask(r, m, t)
               \/ \E status \in TaskStatus : MilestoneStatusRead(r, m, status)
               \/ \E n \in Milestones : AwaitBegin(r, m, n) \/ AwaitUnlink(r, m, n)
          \/ MilestonesChecked(r) \/ TasksChecked(r) \/ MilestoneWrite(r)
          \/ AwaitWalk(r) \/ AwaitLink(r)
    BY <1>3 DEF PlanNext
  <2> QED BY <2>1, ProgressStep, PlanWriteStep, AwaitReadStep, AwaitWriteStep
<1> QED BY <1>1, <1>2, <1>3

LEMMA PlanInitInv == PlanInit => PlanInv
<1> SUFFICES ASSUME PlanInit PROVE PlanInv
  OBVIOUS
<1>1. OutputInv /\ \A r \in Slots : serving[r] = Idle
  BY OutputInit, HandlersInitShape DEF PlanInit, TaskInit
<1>2. PlanRowsOK /\ NoAwaitCycle
  BY DEF PlanInit, PlanRowsOK, NoAwaitCycle, Awaited
<1>3. \A r \in Slots : PlanHeld(r)
  <2>1. SUFFICES ASSUME NEW r \in Slots PROVE PlanHeld(r)
    OBVIOUS
  <2>2. serving[r].step = "idle"
    BY <1>1 DEF Idle
  <2> QED BY <2>2 DEF PlanHeld, ProgressHeld, AwaitHeld
<1> QED BY <1>1, <1>2, <1>3 DEF PlanInv

\* Unless what a handler has looked at changed before it wrote, a milestone is done when what
\* it waits for is finished, and stays so, and no milestones wait for each other in a circle:
\* for any number of milestones, tasks and requests.
THEOREM MilestonesRest == PlanSpec => MilestonesRestOnWork
<1>1. PlanInv /\ [PlanNext]_planVars =>
        [undisturbed' =>
           /\ \A m \in Milestones : milestones'[m] # milestones[m] =>
                /\ ~Finished(m)
                /\ milestones'[m] = "DONE" =>
                     /\ \A n \in Awaited(m) : Finished(n)
                     /\ \A t \in Linked(m) : tasks[t].status \in TERMINAL_STATUSES
           /\ \A S \in SUBSET Milestones : S # {} => \E m \in S : S \cap Awaited(m)' = {}]_planVars
  BY PlanStep DEF PlanInv, PlanMove, NoAwaitCycle, Awaited
<1>2. PlanSpec => []PlanInv
  BY PlanInitInv, PlanStep, PTL DEF PlanSpec
<1> QED BY <1>1, <1>2, PTL DEF PlanSpec, MilestonesRestOnWork
=============================================================================
