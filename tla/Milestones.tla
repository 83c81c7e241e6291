----------------------------- MODULE Milestones -----------------------------
(***************************************************************************)
(* MilestonesService: the milestones of a roadmap, which wait for each     *)
(* other and for the tasks that are linked to them.  What only describes a *)
(* milestone (objective, owner, evidence) is left out.                     *)
(***************************************************************************)
EXTENDS TaskBoard

CONSTANTS Milestones, NoMilestone

ASSUME MilestonesAssumption == NoMilestone \notin Milestones

VARIABLES
  milestones,   \* their status
  awaits,       \* roadmap_milestone_dependencies: <<m, n>> when m depends on n
  part          \* the milestone that a task is linked to

milestoneRows == <<milestones, awaits, part>>
planVars      == <<taskVars, milestoneRows>>

\* MILESTONE_TRANSITIONS and its TERMINAL_STATUSES are those of tasks, written twice.
MILESTONE_TRANSITIONS == [s \in TaskStatus \cup {"ABSENT"} |-> IF s = "ABSENT" THEN {} ELSE TASK_TRANSITIONS[s]]

Planned(m)  == milestones[m] # "ABSENT"
Awaited(m)  == {n \in Milestones : <<m, n>> \in awaits}
Linked(m)   == {t \in Tasks : TaskExists(t) /\ part[t] = m}
Finished(m) == milestones[m] \in TERMINAL_STATUSES

\* The rows that the queries for the dependencies, and the tasks, of milestones depend on.
Looked(S) == {<<"awaits", m>> : m \in S}
Work(m)   == {<<"work", m>>}

PlanInit ==
  /\ TaskInit
  /\ milestones = [m \in Milestones |-> "ABSENT"]
  /\ awaits = {}
  /\ part = [t \in Tasks |-> NoMilestone]

-----------------------------------------------------------------------------
MilestoneCreate(r, m) ==
  /\ IsIdle(r) /\ ~Planned(m)
  /\ milestones' = [milestones EXCEPT ![m] = "NOT_STARTED"]
  /\ Put(r, {m}, Idle)
  /\ UNCHANGED <<taskRows, awaits, part>>

\* createTask(), by way of TasksService.createForCase(): whatever the milestone's status.
MilestoneTask(r, m, t) ==
  /\ IsIdle(r) /\ Planned(m) /\ ~TaskExists(t)
  /\ tasks' = [tasks EXCEPT ![t].status = "NOT_STARTED"]
  /\ part' = [part EXCEPT ![t] = m]
  /\ Put(r, {t} \cup Work(m), Idle)
  /\ UNCHANGED <<requires, milestones, awaits>>

MilestoneStatusRead(r, m, status) ==
  /\ IsIdle(r) /\ status \in MILESTONE_TRANSITIONS[milestones[m]]
  /\ Continue(r, IF status = "DONE" THEN "milestone.checks" ELSE "milestone.write",
              <<m, status, {"milestones", "tasks"}>>, {m})
  /\ UNCHANGED <<taskRows, milestoneRows>>

\* For DONE, two queries side by side: an answer that is not good enough ends the request.
Checks(r, what) == [step |-> IF Args(r)[3] = {what} THEN "milestone.write" ELSE "milestone.checks",
                    args |-> <<Args(r)[1], Args(r)[2], Args(r)[3] \ {what}>>]

MilestonesChecked(r) ==
  LET m == Args(r)[1]
  IN  /\ At(r, "milestone.checks") /\ "milestones" \in Args(r)[3]
      /\ \A n \in Awaited(m) : Finished(n)
      /\ Continue(r, Checks(r, "milestones").step, Checks(r, "milestones").args, Awaited(m) \cup Looked({m}))
      /\ UNCHANGED <<taskRows, milestoneRows>>

\* Faulty: tasks that nobody has begun are let pass.
TasksCheckedLoosely(r) ==
  LET m == Args(r)[1]
  IN  /\ At(r, "milestone.checks") /\ "tasks" \in Args(r)[3]
      /\ \A t \in Linked(m) : tasks[t].status \in TERMINAL_STATUSES \cup {"NOT_STARTED"}
      /\ Continue(r, Checks(r, "tasks").step, Checks(r, "tasks").args, Linked(m) \cup Work(m))
      /\ UNCHANGED <<taskRows, milestoneRows>>

TasksChecked(r) ==
  LET m == Args(r)[1]
  IN  /\ At(r, "milestone.checks") /\ "tasks" \in Args(r)[3]
      /\ \A t \in Linked(m) : tasks[t].status \in TERMINAL_STATUSES
      /\ Continue(r, Checks(r, "tasks").step, Checks(r, "tasks").args, Linked(m) \cup Work(m))
      /\ UNCHANGED <<taskRows, milestoneRows>>

MilestoneWrite(r) ==
  LET m == Args(r)[1]
  IN  /\ At(r, "milestone.write")
      /\ milestones' = [milestones EXCEPT ![m] = Args(r)[2]]
      /\ Write(r, {m}, Idle)
      /\ UNCHANGED <<taskRows, awaits, part>>

-----------------------------------------------------------------------------
\* addDependency(m, n), as TasksService does it, over the milestones of one roadmap.
AwaitBegin(r, m, n) ==
  /\ IsIdle(r) /\ Planned(m) /\ Planned(n) /\ m # n
  /\ Continue(r, "milestone.walk", <<m, n, {}, {n}>>, {})
  /\ UNCHANGED <<taskRows, milestoneRows>>

AwaitWalk(r) ==
  LET m == Args(r)[1]  visited == Args(r)[3]
      found == UNION {Awaited(n) : n \in Args(r)[4]}
  IN  /\ At(r, "milestone.walk") /\ m \notin found
      /\ Continue(r, IF found \subseteq visited THEN "milestone.link" ELSE "milestone.walk",
                  <<m, Args(r)[2], visited \cup found, found \ visited>>, Looked(Args(r)[4]))
      /\ UNCHANGED <<taskRows, milestoneRows>>

\* The row, unless the pair has one.
AwaitLink(r) ==
  LET m == Args(r)[1]
  IN  /\ At(r, "milestone.link")
      /\ awaits' = awaits \cup {<<m, Args(r)[2]>>}
      /\ Write(r, Looked({m}), Idle)
      /\ UNCHANGED <<taskRows, milestones, part>>

\* removeDependency(): its look-up and its delete concern the same row.
AwaitUnlink(r, m, n) ==
  /\ IsIdle(r) /\ <<m, n>> \in awaits
  /\ awaits' = awaits \ {<<m, n>>}
  /\ Put(r, {}, Idle)
  /\ UNCHANGED <<taskRows, milestones, part>>

PlanNext ==
  \/ TaskNext /\ UNCHANGED milestoneRows
  \/ \E r \in Slots :
       \/ \E m \in Milestones :
            \/ MilestoneCreate(r, m)
            \/ \E t \in Tasks : MilestoneTask(r, m, t)
            \/ \E status \in TaskStatus : MilestoneStatusRead(r, m, status)
            \/ \E n \in Milestones : AwaitBegin(r, m, n) \/ AwaitUnlink(r, m, n)
       \/ MilestonesChecked(r) \/ TasksChecked(r) \/ MilestoneWrite(r)
       \/ AwaitWalk(r) \/ AwaitLink(r)

PlanSpec == PlanInit /\ [][PlanNext]_planVars

-----------------------------------------------------------------------------
\* A milestone is done when the milestones it waits for and its tasks are finished, and what
\* is finished stays so; and no milestones wait for each other in a circle, in which none
\* could ever be done.  Both hold unless what a handler looked at changed before it wrote.
MilestonesRestOnWork ==
  [][undisturbed' =>
       /\ \A m \in Milestones : milestones'[m] # milestones[m] =>
            /\ ~Finished(m)
            /\ milestones'[m] = "DONE" =>
                 /\ \A n \in Awaited(m) : Finished(n)
                 /\ \A t \in Linked(m) : tasks[t].status \in TERMINAL_STATUSES
       /\ \A S \in SUBSET Milestones : S # {} => \E m \in S : S \cap Awaited(m)' = {}]_planVars
=============================================================================
