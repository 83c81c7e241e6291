------------------------------ MODULE Writing ------------------------------
(***************************************************************************)
(* WritingArtifactsService: a text, its status and its numbered versions.  *)
(* (artifact, versionNumber) is unique, so an insert of a number that is   *)
(* taken fails.  reviewVersion() only marks a version, and is left out.    *)
(***************************************************************************)
EXTENDS Handlers, Naturals

CONSTANTS Artifacts, MaxTextVersions

VARIABLES
  artifacts,   \* their status
  versions     \* [artifact -> the number of its versions]

writingRows == <<artifacts, versions>>
writingVars == <<handlerVars, writingRows>>

WRITING_TRANSITIONS ==
  [ABSENT |-> {}, DRAFT |-> {"REVIEW"}, REVIEW |-> {"REVISION", "FINAL"}, REVISION |-> {"REVIEW"},
   FINAL |-> {"SUBMITTED", "REVISION"}, SUBMITTED |-> {}]

WritingInit ==
  /\ HandlersInit
  /\ artifacts = [w \in Artifacts |-> "ABSENT"]
  /\ versions = [w \in Artifacts |-> 0]

\* create(): the artifact, then, in a statement of its own, its first version.
ArtifactCreate(r, w) ==
  /\ IsIdle(r) /\ artifacts[w] = "ABSENT"
  /\ artifacts' = [artifacts EXCEPT ![w] = "DRAFT"]
  /\ Write(r, {w}, [Idle EXCEPT !.step = "version.write", !.args = <<w, 0, "DRAFT">>, !.on = {w}])
  /\ UNCHANGED versions

WritingStatusRead(r, w, status) ==
  /\ IsIdle(r) /\ status \in WRITING_TRANSITIONS[artifacts[w]]
  /\ Continue(r, "writing.status", <<w, status>>, {w})
  /\ UNCHANGED writingRows

WritingStatusWrite(r) ==
  LET w == Args(r)[1]
  IN  /\ At(r, "writing.status")
      /\ artifacts' = [artifacts EXCEPT ![w] = Args(r)[2]]
      /\ Write(r, {w}, Idle)
      /\ UNCHANGED versions

\* createVersion(): the artifact, the latest number, the insert.
VersionRead(r, w) ==
  /\ IsIdle(r) /\ artifacts[w] \notin {"ABSENT", "SUBMITTED"}
  /\ Continue(r, "version.latest", <<w, 0, artifacts[w]>>, {w})
  /\ UNCHANGED writingRows

VersionLatest(r) ==
  LET w == Args(r)[1]
  IN  /\ At(r, "version.latest") /\ versions[w] < MaxTextVersions
      /\ Continue(r, "version.write", <<w, versions[w], Args(r)[3]>>, {<<"versions", w>>})
      /\ UNCHANGED writingRows

\* Faulty: a text that was final stays final with its new version.
VersionWriteQuietly(r) ==
  LET w == Args(r)[1]
  IN  /\ At(r, "version.write") /\ versions[w] = Args(r)[2]
      /\ versions' = [versions EXCEPT ![w] = @ + 1]
      /\ Write(r, {<<"versions", w>>}, Idle)
      /\ UNCHANGED artifacts

\* One $transaction: the version, and back to REVISION if the artifact was FINAL.
VersionWrite(r) ==
  LET w == Args(r)[1]  final == Args(r)[3] = "FINAL"
  IN  /\ At(r, "version.write") /\ versions[w] = Args(r)[2]
      /\ versions' = [versions EXCEPT ![w] = @ + 1]
      /\ artifacts' = IF final THEN [artifacts EXCEPT ![w] = "REVISION"] ELSE artifacts
      /\ Write(r, {<<"versions", w>>} \cup (IF final THEN {w} ELSE {}), Idle)

WritingNext ==
  \E r \in Slots :
    \/ \E w \in Artifacts :
         \/ ArtifactCreate(r, w) \/ VersionRead(r, w)
         \/ \E status \in DOMAIN WRITING_TRANSITIONS : WritingStatusRead(r, w, status)
    \/ WritingStatusWrite(r) \/ VersionLatest(r) \/ VersionWrite(r)
    \/ Dies(r) /\ UNCHANGED writingRows

WritingSpec == WritingInit /\ [][WritingNext]_writingVars

-----------------------------------------------------------------------------
\* What is handed in is the version that was declared final: no version is added
\* while the text is final or submitted, and what is submitted stays so, unless the
\* text changed under the handler that adds the version, or the first version.
FinalStands ==
  [][undisturbed' =>
       \A w \in Artifacts :
         /\ artifacts[w] \in {"FINAL", "SUBMITTED"} /\ artifacts'[w] \in {"FINAL", "SUBMITTED"} =>
              versions'[w] = versions[w]
         /\ artifacts[w] = "SUBMITTED" => artifacts'[w] = "SUBMITTED"]_writingVars
=============================================================================
