---------------------------- MODULE Counselling ----------------------------
(***************************************************************************)
(* The assessments and roadmaps of one case: AssessmentsService,           *)
(* RoadmapsService.  Both are numbered, and (case, version) is unique in   *)
(* their tables: version v is element v of the sequence, and an insert of  *)
(* a number that is taken fails.                                           *)
(*                                                                         *)
(* MaxVersions   how far the model counts                                  *)
(***************************************************************************)
EXTENDS TaskGeneration, Naturals, Sequences

CONSTANT MaxVersions

VARIABLES
  assessments,   \* their status
  criteria,      \* versions whose criteria have been edited an odd number of times
  roadmaps,      \* their status, and the version of the assessment they rest on
  approvals,     \* decisions APPROVED: <<"assessment", v>>, <<"roadmap", v>>
  profile        \* the student's profile has all that an approval asks for

counsellingRows == <<assessments, criteria, roadmaps, approvals, profile>>
counsellingVars == <<handlerVars, generationRows, counsellingRows>>

NoBaseline == 0

ASSESSMENT_TRANSITIONS ==
  [DRAFT |-> {"REVIEW"}, REVIEW |-> {"APPROVED", "DRAFT"}, APPROVED |-> {}, SUPERSEDED |-> {}]

\* submit(), approve(), reject(), and POST_APPROVAL_TRANSITIONS.
ROADMAP_TRANSITIONS ==
  [DRAFT |-> {"REVIEW"}, REVIEW |-> {"APPROVED", "DRAFT"}, APPROVED |-> {"ACTIVE"}, ACTIVE |-> {"COMPLETED"},
   COMPLETED |-> {"ARCHIVED"}, ARCHIVED |-> {}]

CounsellingInit ==
  /\ HandlersInit
  /\ GenerationInit
  /\ assessments = <<>> /\ roadmaps = <<>>
  /\ criteria = {} /\ approvals = {}
  /\ profile = FALSE

Holds(r, step, args, rows) == Continue(r, step, args, rows) /\ UNCHANGED <<counsellingRows, generationRows>>

Decision(kind, v, status) == IF status = "APPROVED" THEN {<<kind, v>>} ELSE {}

-----------------------------------------------------------------------------
\* create(): the latest version is not open.
AssessmentCreateRead(r) ==
  LET n == Len(assessments)
  IN  /\ IsIdle(r) /\ n < MaxVersions
      /\ n > 0 => assessments[n] \notin {"DRAFT", "REVIEW"}
      /\ Holds(r, "assessment.create", <<n, n > 0 /\ assessments[n] = "APPROVED">>,
               {<<"assessment", n>>, <<"assessment", n + 1>>})

\* Faulty: the version before is left as it is.
AssessmentCreateBeside(r) ==
  LET n == Args(r)[1]
  IN  /\ At(r, "assessment.create") /\ Len(assessments) = n
      /\ assessments' = Append(assessments, "DRAFT")
      /\ Write(r, {<<"assessment", n>>, <<"assessment", n + 1>>}, Idle)
      /\ UNCHANGED <<criteria, roadmaps, approvals, profile, generationRows>>

\* One $transaction: an approved version is superseded, the next one inserted.
AssessmentCreate(r) ==
  LET n == Args(r)[1]
      before == IF Args(r)[2] THEN [assessments EXCEPT ![n] = "SUPERSEDED"] ELSE assessments
  IN  /\ At(r, "assessment.create") /\ Len(assessments) = n
      /\ assessments' = Append(before, "DRAFT")
      /\ Write(r, {<<"assessment", n>>, <<"assessment", n + 1>>}, Idle)
      /\ UNCHANGED <<criteria, roadmaps, approvals, profile, generationRows>>

\* submit(), approve() and reject() read the row; approve() reads the profile too.
AssessmentRead(r, v, status) ==
  /\ IsIdle(r) /\ status \in ASSESSMENT_TRANSITIONS[assessments[v]]
  /\ Holds(r, IF status = "APPROVED" THEN "assessment.profile" ELSE "assessment.write", <<v, status>>,
           {<<"assessment", v>>})

ProfileRead(r) ==
  At(r, "assessment.profile") /\ profile /\ Holds(r, "assessment.write", Args(r), {<<"profile">>})

AssessmentWrite(r) ==
  LET v == Args(r)[1]  status == Args(r)[2]
  IN  /\ At(r, "assessment.write")
      /\ assessments' = [assessments EXCEPT ![v] = status]
      /\ approvals' = approvals \cup Decision("assessment", v, status)
      /\ Write(r, {<<"assessment", v>>}, Idle)
      /\ UNCHANGED <<criteria, roadmaps, profile, generationRows>>

\* upsertCriterion(): of a draft only.
CriterionRead(r, v) ==
  IsIdle(r) /\ assessments[v] = "DRAFT" /\ Holds(r, "criterion.write", <<v>>, {<<"assessment", v>>})

CriterionWrite(r) ==
  LET v == Args(r)[1]
  IN  /\ At(r, "criterion.write")
      /\ criteria' = (criteria \cup {v}) \ (criteria \cap {v})
      /\ Write(r, {}, Idle)
      /\ UNCHANGED <<assessments, roadmaps, approvals, profile, generationRows>>

\* The student's record or the academic record gains or loses a field.
ProfileUpdate(r) ==
  /\ IsIdle(r)
  /\ profile' = ~profile
  /\ Put(r, {<<"profile">>}, Idle)
  /\ UNCHANGED <<assessments, criteria, roadmaps, approvals, generationRows>>

-----------------------------------------------------------------------------
RoadmapCreateRead(r, baseline) ==
  /\ IsIdle(r) /\ Len(roadmaps) < MaxVersions
  /\ Holds(r, "roadmap.create", <<Len(roadmaps), baseline>>, {<<"roadmap", Len(roadmaps) + 1>>})

RoadmapCreate(r) ==
  LET n == Args(r)[1]
  IN  /\ At(r, "roadmap.create") /\ Len(roadmaps) = n
      /\ roadmaps' = Append(roadmaps, [status |-> "DRAFT", baseline |-> Args(r)[2]])
      /\ Write(r, {<<"roadmap", n + 1>>}, Idle)
      /\ UNCHANGED <<assessments, criteria, approvals, profile, generationRows>>

RoadmapRead(r, v, status) ==
  /\ IsIdle(r) /\ status \in ROADMAP_TRANSITIONS[roadmaps[v].status]
  /\ status = "APPROVED" => roadmaps[v].baseline # NoBaseline
  /\ Holds(r, IF status = "APPROVED" THEN "roadmap.baseline" ELSE "roadmap.write",
           <<v, status, roadmaps[v].baseline>>, {<<"roadmap", v>>})

\* approve() reads the assessment the roadmap rests on.
BaselineRead(r) ==
  LET baseline == Args(r)[3]
  IN  /\ At(r, "roadmap.baseline") /\ assessments[baseline] = "APPROVED"
      /\ Holds(r, "roadmap.write", Args(r), {<<"assessment", baseline>>})

\* The status, with an approval its decision, and then the tasks.
RoadmapWrite(r) ==
  LET v == Args(r)[1]  status == Args(r)[2]
  IN  /\ At(r, "roadmap.write")
      /\ roadmaps' = [roadmaps EXCEPT ![v].status = status]
      /\ approvals' = approvals \cup Decision("roadmap", v, status)
      /\ Write(r, {<<"roadmap", v>>},
               IF status = "APPROVED"
               THEN [Idle EXCEPT !.step = "generation", !.args = GenerationOf(<<"roadmap", v>>, "ROADMAP_APPROVED")]
               ELSE Idle)
      /\ UNCHANGED <<assessments, criteria, profile, generationRows>>

CounsellingNext ==
  \E r \in Slots :
    \/ AssessmentCreateRead(r) \/ AssessmentCreate(r)
    \/ \E v \in DOMAIN assessments :
         \/ \E status \in {"DRAFT", "REVIEW", "APPROVED"} : AssessmentRead(r, v, status)
         \/ CriterionRead(r, v)
    \/ ProfileRead(r) \/ AssessmentWrite(r) \/ CriterionWrite(r) \/ ProfileUpdate(r)
    \/ \E baseline \in {NoBaseline} \cup DOMAIN assessments : RoadmapCreateRead(r, baseline)
    \/ RoadmapCreate(r)
    \/ \E v \in DOMAIN roadmaps, status \in DOMAIN ROADMAP_TRANSITIONS : RoadmapRead(r, v, status)
    \/ BaselineRead(r) \/ RoadmapWrite(r)
    \/ (GenerationNext(r) \/ Generate(r)) /\ UNCHANGED counsellingRows
    \/ Dies(r) /\ UNCHANGED <<counsellingRows, generationRows>>

CounsellingSpec == CounsellingInit /\ [][CounsellingNext]_counsellingVars

-----------------------------------------------------------------------------
\* What counts as settled was decided: also a late write cannot make an assessment
\* or a roadmap look approved that nobody approved.
SettledWasApproved ==
  /\ \A v \in DOMAIN assessments :
       assessments[v] \in {"APPROVED", "SUPERSEDED"} => <<"assessment", v>> \in approvals
  /\ \A v \in DOMAIN roadmaps :
       roadmaps[v].status \notin {"DRAFT", "REVIEW"} => <<"roadmap", v>> \in approvals

\* Unless a row changed under a handler: a case has one assessment that counts, the
\* last one, and all before it are superseded; the criteria that were handed in for
\* review are the ones approved; a roadmap is approved on an assessment that is approved
\* then, an assessment on a profile that is complete.
BaselinesHold ==
  [][/\ SettledWasApproved'
     /\ undisturbed' =>
       /\ \A v \in DOMAIN assessments : v < Len(assessments') => assessments'[v] = "SUPERSEDED"
       /\ \A v \in DOMAIN assessments :
            /\ assessments[v] # "DRAFT" => (v \in criteria <=> v \in criteria')
            /\ assessments[v] # "APPROVED" /\ assessments'[v] = "APPROVED" => profile
       /\ \A v \in DOMAIN roadmaps :
            roadmaps[v].status # "APPROVED" /\ roadmaps'[v].status = "APPROVED" =>
              assessments[roadmaps[v].baseline] = "APPROVED"]_counsellingVars
=============================================================================
