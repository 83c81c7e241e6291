---------------------------- MODULE MCLiveness ----------------------------
(***************************************************************************)
(* What must happen in the end.  A behaviour is one of the requests on a   *)
(* contract and its case, none of which dies, or of the job runner, some   *)
(* of whose ticks do.  Neither changes what the other one works on.        *)
(***************************************************************************)
EXTENDS CommercialSystem, JobQueue

VARIABLE scene

LivenessInit == scene \in {"requests", "jobs"} /\ Init /\ JobInit

LivenessNext ==
  /\ UNCHANGED scene
  /\ \/ scene = "requests" /\ Next /\ UNCHANGED jobVars
     \/ scene = "jobs" /\ JobNext /\ UNCHANGED vars

FairLivenessSpec ==
  LivenessInit /\ [][LivenessNext]_<<vars, jobVars, scene>> /\ FairRequests /\ FairJobs
=============================================================================
