----------------------------- MODULE Admission -----------------------------
(***************************************************************************)
(* One student's way into one programme: ApplicationsService with its      *)
(* checklist, OffersService, EnrollmentsService and, beside them,          *)
(* ScholarshipApplicationsService.  Intakes are the values of              *)
(* intendedIntake.  A checklist counts as open or not.                     *)
(***************************************************************************)
EXTENDS TaskGeneration

CONSTANTS Intakes, Offers, Enrollments, Scholarships, None

VARIABLES
  applications,   \* status, intake, and whether submittedAt is set
  unready,        \* applications with a required item that is not DONE or WAIVED
  offers,         \* status and application
  enrollments,    \* status and offer
  scholarships    \* status and eligibilityConfirmed

admissionRows == <<applications, unready, offers, enrollments, scholarships>>
admissionVars == <<handlerVars, generationRows, admissionRows>>

Applications      == Sources
ApplicationStatus == {"PLANNING", "PREPARING", "READY_FOR_REVIEW", "SUBMITTED", "WAITLIST", "OFFER",
                      "REJECT", "WITHDRAWN"}
ScholarshipStatus == {"PLANNING", "SUBMITTED", "UNDER_REVIEW", "INTERVIEW", "AWARDED", "REJECTED",
                      "WITHDRAWN"}

APPLICATION_TRANSITIONS ==
  [s \in ApplicationStatus |->
     CASE s = "PLANNING"         -> {"PREPARING", "WITHDRAWN"}
       [] s = "PREPARING"        -> {"READY_FOR_REVIEW", "PLANNING", "WITHDRAWN"}
       [] s = "READY_FOR_REVIEW" -> {"PREPARING", "WITHDRAWN"}
       [] s = "SUBMITTED"        -> {"WAITLIST", "REJECT", "WITHDRAWN"}
       [] s = "WAITLIST"         -> {"REJECT", "WITHDRAWN"}
       [] s = "OFFER"            -> {"WITHDRAWN"}
       [] OTHER                  -> {}]

SCHOLARSHIP_TRANSITIONS ==
  [s \in ScholarshipStatus |->
     CASE s = "PLANNING"     -> {"SUBMITTED", "WITHDRAWN"}
       [] s = "SUBMITTED"    -> {"UNDER_REVIEW", "WITHDRAWN"}
       [] s = "UNDER_REVIEW" -> {"INTERVIEW", "WITHDRAWN"}
       [] s = "INTERVIEW"    -> {"WITHDRAWN"}
       [] OTHER              -> {}]

NoApplication == [status |-> "ABSENT", intake |-> None, submitted |-> FALSE]
NoOffer       == [status |-> "ABSENT", of |-> None]
NoEnrollment  == [status |-> "ABSENT", on |-> None]
NoScholarship == [status |-> "ABSENT", eligible |-> FALSE]

\* What assertNoActiveDuplicate() looks for.
Active(i) == {a \in Applications : applications[a].intake = i
                                     /\ applications[a].status \notin {"ABSENT", "REJECT", "WITHDRAWN"}}

AdmissionInit ==
  /\ HandlersInit
  /\ GenerationInit
  /\ applications = [a \in Applications |-> NoApplication]
  /\ unready = {}
  /\ offers = [o \in Offers |-> NoOffer]
  /\ enrollments = [e \in Enrollments |-> NoEnrollment]
  /\ scholarships = [s \in Scholarships |-> NoScholarship]

\* A first read that only lets the handler go on.
Reads(r, step, args, rows) == IsIdle(r) /\ Continue(r, step, args, rows) /\ UNCHANGED <<admissionRows, generationRows>>

-----------------------------------------------------------------------------
(* Applications                                                             *)

SetApplication(r, a, field, next) ==
  /\ applications' = [applications EXCEPT ![a] = field]
  /\ Write(r, {a}, next)
  /\ UNCHANGED <<unready, offers, enrollments, scholarships, generationRows>>

ApplicationCreateRead(r, i) == Active(i) = {} /\ Reads(r, "application.create", <<i>>, {<<"active", i>>})

ApplicationCreate(r, a) ==
  /\ At(r, "application.create") /\ applications[a].status = "ABSENT"
  /\ applications' = [applications EXCEPT ![a] = [status |-> "PLANNING", intake |-> Args(r)[1], submitted |-> FALSE]]
  /\ Write(r, {a, <<"active", Args(r)[1]>>}, Idle)
  /\ UNCHANGED <<unready, offers, enrollments, scholarships, generationRows>>

ApplicationUpdateRead(r, a, i) ==
  applications[a].status \notin {"ABSENT", "WITHDRAWN"} /\ Reads(r, "application.update", <<a, i>>, {a})

\* update() may move the application to another intake.
ApplicationUpdate(r) ==
  /\ At(r, "application.update")
  /\ SetApplication(r, Args(r)[1], [applications[Args(r)[1]] EXCEPT !.intake = Args(r)[2]], Idle)

ApplicationStatusRead(r, a, status) ==
  /\ applications[a].status # "ABSENT" /\ status \in APPLICATION_TRANSITIONS[applications[a].status]
  /\ Reads(r, "application.status", <<a, status>>, {a})

ApplicationStatusWrite(r) ==
  /\ At(r, "application.status")
  /\ SetApplication(r, Args(r)[1], [applications[Args(r)[1]] EXCEPT !.status = Args(r)[2]], Idle)

\* A required item is added, taken up again, or done.
ChecklistChange(r, a) ==
  /\ IsIdle(r) /\ applications[a].status # "ABSENT"
  /\ unready' = IF a \in unready THEN unready \ {a} ELSE unready \cup {a}
  /\ Put(r, {<<"checklist", a>>}, Idle)
  /\ UNCHANGED <<applications, offers, enrollments, scholarships, generationRows>>

SubmitRead(r, a) == applications[a].status = "READY_FOR_REVIEW" /\ Reads(r, "submit.check", <<a>>, {a})

SubmitCheck(r) ==
  /\ At(r, "submit.check") /\ Args(r)[1] \notin unready
  /\ Continue(r, "submit.write", Args(r), {<<"checklist", Args(r)[1]>>})
  /\ UNCHANGED <<admissionRows, generationRows>>

\* The submission is recorded with the status; the tasks follow.
SubmitWrite(r) ==
  LET a == Args(r)[1]
  IN  /\ At(r, "submit.write")
      /\ SetApplication(r, a, [applications[a] EXCEPT !.status = "SUBMITTED", !.submitted = TRUE],
                        [Idle EXCEPT !.step = "generation", !.args = GenerationOf(a, "APPLICATION_SUBMITTED")])

-----------------------------------------------------------------------------
(* Offers                                                                   *)

OfferRead(r, a) == applications[a].status \in {"SUBMITTED", "WAITLIST", "OFFER"} /\ Reads(r, "offer.create", <<a>>, {a})

\* Faulty: the application is moved to OFFER ahead of the offer.
OfferAfterTransition(r, o) ==
  LET a == Args(r)[1]
  IN  /\ At(r, "offer.create") /\ offers[o].status = "ABSENT"
      /\ SetApplication(r, a, [applications[a] EXCEPT !.status = "OFFER"], Idle)

OfferCreate(r, o) ==
  /\ At(r, "offer.create") /\ offers[o].status = "ABSENT"
  /\ offers' = [offers EXCEPT ![o] = [status |-> "RECEIVED", of |-> Args(r)[1]]]
  /\ Write(r, {o}, [serving[r] EXCEPT !.step = "offer.transition"])
  /\ UNCHANGED <<applications, unready, enrollments, scholarships, generationRows>>

\* transitionToOffer() reads the application again: there is nothing to do for a
\* second offer, and an application that was withdrawn meanwhile makes it throw.
TransitionRead(r) ==
  LET status == applications[Args(r)[1]].status
  IN  /\ At(r, "offer.transition")
      /\ \/ status = "OFFER" /\ Return(r)
         \/ status \in {"SUBMITTED", "WAITLIST"} /\ Continue(r, "offer.write", Args(r), {Args(r)[1]})
      /\ UNCHANGED <<admissionRows, generationRows>>

TransitionWrite(r) ==
  /\ At(r, "offer.write")
  /\ SetApplication(r, Args(r)[1], [applications[Args(r)[1]] EXCEPT !.status = "OFFER"], Idle)

\* syncExpired(): those past their deadline, which may be any, as long as they are
\* only RECEIVED.
Sweep(r, a, next) ==
  \E late \in SUBSET {o \in Offers : offers[o].of = a /\ offers[o].status = "RECEIVED"} :
    /\ offers' = [o \in Offers |-> IF o \in late THEN [offers[o] EXCEPT !.status = "EXPIRED"] ELSE offers[o]]
    /\ Put(r, late, next)
    /\ UNCHANGED <<applications, unready, enrollments, scholarships, generationRows>>

ListOffers(r, a) == IsIdle(r) /\ Sweep(r, a, Idle)

\* respond(): it sweeps, reads the offer again, and writes.
RespondSweep(r, o, status) ==
  /\ IsIdle(r) /\ offers[o].status # "ABSENT"
  /\ Sweep(r, offers[o].of, [Idle EXCEPT !.step = "respond.read", !.args = <<o, status>>])

RespondRead(r) ==
  /\ At(r, "respond.read") /\ offers[Args(r)[1]].status = "RECEIVED"
  /\ Continue(r, "respond.write", Args(r), {Args(r)[1]})
  /\ UNCHANGED <<admissionRows, generationRows>>

RespondWrite(r) ==
  /\ At(r, "respond.write")
  /\ offers' = [offers EXCEPT ![Args(r)[1]].status = Args(r)[2]]
  /\ Write(r, {Args(r)[1]}, Idle)
  /\ UNCHANGED <<applications, unready, enrollments, scholarships, generationRows>>

-----------------------------------------------------------------------------
(* Enrollments                                                              *)

SetEnrollment(r, e, row, rows) ==
  /\ enrollments' = [enrollments EXCEPT ![e] = row]
  /\ Write(r, {e} \cup rows, Idle)
  /\ UNCHANGED <<applications, unready, offers, scholarships, generationRows>>

\* Faulty: an offer that nobody has answered yet will do.
EnrollReadEarly(r, o) == offers[o].status \in {"RECEIVED", "ACCEPTED"} /\ Reads(r, "enroll", <<o>>, {o})

EnrollRead(r, o) == offers[o].status = "ACCEPTED" /\ Reads(r, "enroll", <<o>>, {o})

Enroll(r, e) ==
  /\ At(r, "enroll") /\ enrollments[e].status = "ABSENT"
  /\ SetEnrollment(r, e, [status |-> "PLANNED", on |-> Args(r)[1]], {})

ConfirmRead(r, e) == enrollments[e].status = "PLANNED" /\ Reads(r, "confirm.check", <<e>>, {e})

ConfirmCheck(r) ==
  /\ At(r, "confirm.check") /\ \A e \in Enrollments : enrollments[e].status # "CONFIRMED"
  /\ Continue(r, "confirm.write", Args(r), {<<"confirmed", None>>})
  /\ UNCHANGED <<admissionRows, generationRows>>

ConfirmWrite(r) ==
  LET e == Args(r)[1]
  IN  At(r, "confirm.write") /\ SetEnrollment(r, e, [enrollments[e] EXCEPT !.status = "CONFIRMED"], {<<"confirmed", None>>})

EnrollmentWithdrawRead(r, e) ==
  enrollments[e].status \in {"PLANNED", "CONFIRMED"} /\ Reads(r, "enrollment.withdraw", <<e>>, {e})

EnrollmentWithdraw(r) ==
  LET e == Args(r)[1]
  IN  At(r, "enrollment.withdraw") /\ SetEnrollment(r, e, [enrollments[e] EXCEPT !.status = "WITHDRAWN"], {})

-----------------------------------------------------------------------------
(* Scholarships                                                             *)

SetScholarship(r, s, row, next) ==
  /\ scholarships' = [scholarships EXCEPT ![s] = row]
  /\ Write(r, {s}, next)
  /\ UNCHANGED <<applications, unready, offers, enrollments, generationRows>>

ScholarshipCreate(r, s) ==
  /\ IsIdle(r) /\ scholarships[s].status = "ABSENT"
  /\ SetScholarship(r, s, [status |-> "PLANNING", eligible |-> FALSE], Idle)

ConfirmEligibility(r, s) ==
  /\ IsIdle(r) /\ scholarships[s].status # "ABSENT"
  /\ SetScholarship(r, s, [scholarships[s] EXCEPT !.eligible = TRUE], Idle)

\* Faulty: the eligibility of a scholarship is not asked for.
ScholarshipReadUnchecked(r, s, status) ==
  /\ scholarships[s].status # "ABSENT" /\ status \in SCHOLARSHIP_TRANSITIONS[scholarships[s].status]
  /\ Reads(r, "scholarship.write", <<s, status>>, {s})

ScholarshipRead(r, s, status) ==
  /\ scholarships[s].status # "ABSENT" /\ status \in SCHOLARSHIP_TRANSITIONS[scholarships[s].status]
  /\ status = "SUBMITTED" => scholarships[s].eligible
  /\ Reads(r, "scholarship.write", <<s, status>>, {s})

\* award() and reject().
ScholarshipDecide(r, s, status) ==
  /\ scholarships[s].status \in {"UNDER_REVIEW", "INTERVIEW"} /\ status \in {"AWARDED", "REJECTED"}
  /\ Reads(r, "scholarship.write", <<s, status>>, {s})

\* An award calls for tasks.
ScholarshipWrite(r) ==
  LET s == Args(r)[1]  status == Args(r)[2]
  IN  /\ At(r, "scholarship.write")
      /\ SetScholarship(r, s, [scholarships[s] EXCEPT !.status = status],
                        IF status = "AWARDED"
                        THEN [Idle EXCEPT !.step = "generation", !.args = GenerationOf(s, "SCHOLARSHIP_AWARDED")]
                        ELSE Idle)

-----------------------------------------------------------------------------
AdmissionEnds(r) == Dies(r) /\ UNCHANGED <<admissionRows, generationRows>>

ApplicationNext(r) ==
  \/ \E i \in Intakes : ApplicationCreateRead(r, i) \/ \E a \in Applications : ApplicationUpdateRead(r, a, i)
  \/ \E a \in Applications :
       \/ ApplicationCreate(r, a) \/ ChecklistChange(r, a) \/ SubmitRead(r, a)
       \/ \E status \in ApplicationStatus : ApplicationStatusRead(r, a, status)
  \/ ApplicationUpdate(r) \/ ApplicationStatusWrite(r) \/ SubmitCheck(r) \/ SubmitWrite(r)
  \/ (GenerationNext(r) \/ Generate(r)) /\ UNCHANGED admissionRows
  \/ AdmissionEnds(r)

OfferNext(r) ==
  \/ \E a \in Applications : OfferRead(r, a) \/ ListOffers(r, a)
  \/ \E o \in Offers : OfferCreate(r, o) \/ \E status \in {"ACCEPTED", "DECLINED"} : RespondSweep(r, o, status)
  \/ TransitionRead(r) \/ TransitionWrite(r) \/ RespondRead(r) \/ RespondWrite(r)

EnrollmentNext(r) ==
  \/ \E o \in Offers : EnrollRead(r, o)
  \/ \E e \in Enrollments : Enroll(r, e) \/ ConfirmRead(r, e) \/ EnrollmentWithdrawRead(r, e)
  \/ ConfirmCheck(r) \/ ConfirmWrite(r) \/ EnrollmentWithdraw(r)

ScholarshipNext(r) ==
  \/ \E s \in Scholarships :
       \/ ScholarshipCreate(r, s) \/ ConfirmEligibility(r, s)
       \/ \E status \in ScholarshipStatus : ScholarshipRead(r, s, status) \/ ScholarshipDecide(r, s, status)
  \/ ScholarshipWrite(r)
  \/ AdmissionEnds(r)

AdmissionNext ==
  \E r \in Slots : ApplicationNext(r) \/ OfferNext(r) \/ EnrollmentNext(r) \/ ScholarshipNext(r)

AdmissionSpec == AdmissionInit /\ [][AdmissionNext]_admissionVars

-----------------------------------------------------------------------------
\* What the two processes decide stands on evidence, whatever overlaps and wherever
\* requests die: an application is at OFFER, or answered or waiting, only when it was
\* submitted, at OFFER only with an offer on record; a scholarship that is beyond
\* PLANNING was found eligible.
DecisionsAreBacked ==
  /\ \A a \in Applications :
       /\ applications[a].status \in {"SUBMITTED", "WAITLIST", "OFFER", "REJECT"} => applications[a].submitted
       /\ applications[a].status = "OFFER" => \E o \in Offers : offers[o].of = a
  /\ \A s \in Scholarships :
       scholarships[s].status \notin {"ABSENT", "PLANNING", "WITHDRAWN"} => scholarships[s].eligible

\* An enrollment rests on an offer that was accepted and still is, and one at most is
\* confirmed, as long as nobody wrote what he decided on rows of before: the answer to
\* an offer is final for answers, and for the sweep of expired offers.
EnrollmentHolds ==
  undisturbed =>
    /\ \A e \in Enrollments : enrollments[e].status # "ABSENT" => offers[enrollments[e].on].status = "ACCEPTED"
    /\ \A d, e \in Enrollments : enrollments[d].status = "CONFIRMED" /\ enrollments[e].status = "CONFIRMED" => d = e

\* "At most one non-terminal Application per (student, program, intake)", with no two
\* requests overlapping: applications.service.ts and the data dictionary say so.
OneActiveApplication == \A i \in Intakes : \A a, b \in Active(i) : a = b
=============================================================================
