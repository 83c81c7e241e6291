----------------------------- MODULE TaskBoard -----------------------------
(***************************************************************************)
(* TasksService: the status of tasks, their output, which the student may  *)
(* hand in through the portal, and the dependencies between them.  What    *)
(* only describes a task (title, deadline, owner, priority) is left out.   *)
(***************************************************************************)
EXTENDS Handlers

CONSTANT Tasks

VARIABLES
  tasks,      \* status, and whether an output is recorded
  requires    \* task_dependencies: <<t, u>> when t depends on u

taskRows == <<tasks, requires>>
taskVars == <<handlerVars, taskRows>>

TaskStatus == {"NOT_STARTED", "IN_PROGRESS", "BLOCKED", "DONE", "CANCELLED"}

TERMINAL_STATUSES == {"DONE", "CANCELLED"}

TASK_TRANSITIONS ==
  [s \in TaskStatus |->
     CASE s = "NOT_STARTED" -> {"IN_PROGRESS", "BLOCKED", "CANCELLED"}
       [] s = "IN_PROGRESS" -> {"BLOCKED", "DONE", "CANCELLED"}
       [] s = "BLOCKED"     -> {"IN_PROGRESS", "CANCELLED"}
       [] OTHER             -> {}]

NoTask    == [status |-> "ABSENT", output |-> FALSE]
TaskExists(t) == tasks[t].status # "ABSENT"

\* What t waits for, as of now.
Prerequisites(t) == {u \in Tasks : <<t, u>> \in requires}

\* The rows that a query for the dependencies of the tasks in T depends on.
Queried(T) == {<<"dependencies", t>> : t \in T}

TaskInit ==
  /\ HandlersInit
  /\ tasks = [t \in Tasks |-> NoTask]
  /\ requires = {}

-----------------------------------------------------------------------------
CreateTask(r, t) ==
  /\ IsIdle(r) /\ ~TaskExists(t)
  /\ tasks' = [tasks EXCEPT ![t].status = "NOT_STARTED"]
  /\ Put(r, {t}, Idle)
  /\ UNCHANGED requires

\* portalSubmitOutput(): whatever the status of the task is.
PortalSubmitOutput(r, t) ==
  /\ IsIdle(r) /\ TaskExists(t)
  /\ tasks' = [tasks EXCEPT ![t].output = TRUE]
  /\ Put(r, {t}, Idle)
  /\ UNCHANGED requires

\* updateStatus() and portalUpdateStatus(): the row, the transition, and for DONE
\* an output, which the caller may have sent along.
StatusRead(r, t, status, sent) ==
  /\ IsIdle(r) /\ TaskExists(t)
  /\ status \in TASK_TRANSITIONS[tasks[t].status]
  /\ status = "DONE" => sent \/ tasks[t].output
  /\ Continue(r, IF status = "DONE" THEN "task.prerequisites" ELSE "task.write",
              <<t, status, sent \/ tasks[t].output>>, {t})
  /\ UNCHANGED taskRows

\* Faulty: it is enough that the prerequisites are under way.
PrerequisitesRushed(r) ==
  LET t == Args(r)[1]
  IN  /\ At(r, "task.prerequisites")
      /\ \A u \in Prerequisites(t) : tasks[u].status # "NOT_STARTED"
      /\ Continue(r, "task.write", Args(r), Prerequisites(t) \cup Queried({t}))
      /\ UNCHANGED taskRows

PrerequisitesRead(r) ==
  LET t == Args(r)[1]
  IN  /\ At(r, "task.prerequisites")
      /\ \A u \in Prerequisites(t) : tasks[u].status \in TERMINAL_STATUSES
      /\ Continue(r, "task.write", Args(r), Prerequisites(t) \cup Queried({t}))
      /\ UNCHANGED taskRows

\* The update by id: the status, and the output as sent or as read.
StatusWrite(r) ==
  LET t == Args(r)[1]
  IN  /\ At(r, "task.write")
      /\ tasks' = [tasks EXCEPT ![t] = [status |-> Args(r)[2], output |-> Args(r)[3]]]
      /\ Write(r, {t}, Idle)
      /\ UNCHANGED requires

-----------------------------------------------------------------------------
\* addDependency(t, u), up to the first query of wouldCreateCycle().
DependencyBegin(r, t, u) ==
  /\ IsIdle(r) /\ TaskExists(t) /\ TaskExists(u) /\ t # u
  /\ Continue(r, "task.walk", <<t, u, {}, {u}>>, {})
  /\ UNCHANGED taskRows

\* Faulty: the walk takes the tasks it starts from for visited, and ends there.
WalkShort(r) ==
  LET t == Args(r)[1]
      frontier == Args(r)[4]
      found == UNION {Prerequisites(v) : v \in frontier}
  IN  /\ At(r, "task.walk") /\ t \notin found
      /\ Continue(r, "task.link", <<t, Args(r)[2], {}, {}>>, Queried(frontier))
      /\ UNCHANGED taskRows

\* One round of the walk: the dependencies of the whole frontier in one query.
\* When t is among them the request is refused, when nothing new is, t may be linked.
Walk(r) ==
  LET t        == Args(r)[1]
      visited  == Args(r)[3]
      frontier == Args(r)[4]
      found    == UNION {Prerequisites(v) : v \in frontier}
  IN  /\ At(r, "task.walk") /\ t \notin found
      /\ Continue(r, IF found \subseteq visited THEN "task.link" ELSE "task.walk",
                  <<t, Args(r)[2], visited \cup found, found \ visited>>, Queried(frontier))
      /\ UNCHANGED taskRows

\* The row, unless the pair has one (P2002, which is a conflict).
Link(r) ==
  LET t == Args(r)[1]
  IN  /\ At(r, "task.link")
      /\ requires' = requires \cup {<<t, Args(r)[2]>>}
      /\ Write(r, Queried({t}), Idle)
      /\ UNCHANGED tasks

\* removeDependency(): its look-up and its delete concern the same row.
Unlink(r, t, u) ==
  /\ IsIdle(r) /\ <<t, u>> \in requires
  /\ requires' = requires \ {<<t, u>>}
  /\ Put(r, {}, Idle)
  /\ UNCHANGED tasks

\* A handler that refuses, or that does not live to go on.
TaskEnds(r) == Dies(r) /\ UNCHANGED taskRows

TaskNext ==
  \E r \in Slots :
    \/ \E t \in Tasks : CreateTask(r, t) \/ PortalSubmitOutput(r, t)
    \/ \E t \in Tasks, status \in TaskStatus, sent \in BOOLEAN : StatusRead(r, t, status, sent)
    \/ PrerequisitesRead(r)
    \/ StatusWrite(r)
    \/ \E t, u \in Tasks : DependencyBegin(r, t, u) \/ Unlink(r, t, u)
    \/ Walk(r)
    \/ Link(r)
    \/ TaskEnds(r)

TaskSpec == TaskInit /\ [][TaskNext]_taskVars

-----------------------------------------------------------------------------
\* Whatever requests overlap and wherever they end, a task that is done has its
\* output: the checks, the portal's write and the status are separate statements.
DoneHasOutput == \A t \in Tasks : tasks[t].status = "DONE" => tasks[t].output

\* The dependencies have no cycle, unless somebody wrote one that his walk through
\* the graph, query by query, could not have seen: the graph was changed meanwhile.
\* In a cycle every task waits for another one.
NoTaskCycle ==
  undisturbed => \A S \in SUBSET Tasks : S # {} => \E t \in S : S \cap Prerequisites(t) = {}

\* Unless the task, a prerequisite or the list of them changed under the handler, a
\* task is done only when all that it then depends on is finished, and what is finished
\* stays so.
DoneRestsOnDone ==
  [][/\ DoneHasOutput'
     /\ undisturbed' =>
          \A t \in Tasks : tasks'[t].status # tasks[t].status =>
            /\ tasks[t].status \notin TERMINAL_STATUSES
            /\ tasks'[t].status = "DONE" =>
                 \A u \in Prerequisites(t) : tasks[u].status \in TERMINAL_STATUSES]_taskVars
=============================================================================
