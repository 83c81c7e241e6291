--------------------------- MODULE Notifications ---------------------------
(***************************************************************************)
(* NotificationsService over the job queue: a caller c tells a recipient   *)
(* of an event, in the inbox and by e-mail, and the job runner dispatches  *)
(* the e-mail.  The e-mail job of an event has the event's row id in its   *)
(* dedupe key, so an event is named here by its job.                       *)
(***************************************************************************)
EXTENDS JobQueue

CONSTANTS Callers, MaxCalls

ASSUME CallAssumption == MaxCalls \in Nat

VARIABLES
  inbox,     \* events with an IN_APP notification row
  emails,    \* EMAIL rows: "ABSENT", "UNSENT" or "SENT" (sentAt is set)
  mailed,    \* how often the provider accepted the e-mail of an event
  calls,     \* what each caller is doing, and how many calls it has begun
  dispatch   \* how far the handler of each tick has come

mailVars == <<jobVars, inbox, emails, mailed, calls, dispatch>>

Call == [step : {"idle", "inApp", "email", "enqueue"}, event : Jobs \cup {NoJob}, begun : 0..MaxCalls]

\* The rows of notifications and jobs, and the progress of callers and ticks.
NotificationTypeOK ==
  /\ JobTypeOK
  /\ inbox \in SUBSET Jobs
  /\ emails \in [Jobs -> {"ABSENT", "UNSENT", "SENT"}]
  /\ mailed \in [Jobs -> Nat]
  /\ calls \in [Callers -> Call]
  /\ dispatch \in [Pollers -> {"send", "mark", "finish"}]

MailInit ==
  /\ JobInit
  /\ inbox = {}
  /\ emails = [e \in Jobs |-> "ABSENT"]
  /\ mailed = [e \in Jobs |-> 0]
  /\ calls = [c \in Callers |-> [step |-> "idle", event |-> NoJob, begun |-> 0]]
  /\ dispatch = [p \in Pollers |-> "send"]

-----------------------------------------------------------------------------
(* notifyBothChannels(), for the same event by any caller and again by a    *)
(* retry.  MaxCalls bounds the calls of a caller.                           *)

Goto(c, step)  == calls' = [calls EXCEPT ![c].step = step]
CallReturns(c) == calls' = [calls EXCEPT ![c].step = "idle", ![c].event = NoJob]

BeginCall(c, e) ==
  /\ calls[c].step = "idle" /\ calls[c].begun < MaxCalls
  /\ calls' = [calls EXCEPT ![c] = [step |-> "inApp", event |-> e, begun |-> @.begun + 1]]
  /\ UNCHANGED <<jobVars, inbox, emails, mailed, dispatch>>

\* A second row with the event's dedupe key is refused (P2002): null is returned.
NotifyInApp(c) ==
  /\ calls[c].step = "inApp"
  /\ inbox' = inbox \cup {calls[c].event}
  /\ Goto(c, "email")
  /\ UNCHANGED <<jobVars, emails, mailed, dispatch>>

NotifyEmail(c) ==
  /\ calls[c].step = "email"
  /\ \/ /\ emails[calls[c].event] = "ABSENT"
        /\ emails' = [emails EXCEPT ![calls[c].event] = "UNSENT"]
        /\ Goto(c, "enqueue")
     \/ emails[calls[c].event] # "ABSENT" /\ CallReturns(c) /\ UNCHANGED emails
  /\ UNCHANGED <<jobVars, inbox, mailed, dispatch>>

EnqueueEmail(c) ==
  /\ calls[c].step = "enqueue"
  /\ Enqueue(calls[c].event)
  /\ CallReturns(c)
  /\ UNCHANGED <<inbox, emails, mailed, dispatch>>

\* The caller's process dies, or a query throws, between two of its writes.
CallerDies(c) ==
  /\ "crash" \in Failures
  /\ calls[c].step # "idle"
  /\ CallReturns(c)
  /\ UNCHANGED <<jobVars, inbox, emails, mailed, dispatch>>

-----------------------------------------------------------------------------
(* The NOTIFICATION_EMAIL_DISPATCH processor, as runOne() calls it.         *)

Unsent == UNCHANGED <<inbox, emails, mailed, calls>>

StartDispatch(p) ==
  /\ RunOne(p)
  /\ dispatch' = [dispatch EXCEPT ![p] = "send"]
  /\ Unsent

SendEmail(p) ==
  /\ Working(p) /\ dispatch[p] = "send"
  /\ mailed' = [mailed EXCEPT ![pollers[p].job] = @ + 1]
  /\ dispatch' = [dispatch EXCEPT ![p] = "mark"]
  /\ UNCHANGED <<jobVars, inbox, emails, calls>>

\* EmailProvider.send() rejects, which the processor makes a TransientJobError.
SendFails(p) ==
  /\ "transient" \in Failures
  /\ dispatch[p] = "send" /\ FailTransient(p)
  /\ Unsent /\ UNCHANGED dispatch

MarkEmailSent(p) ==
  /\ Working(p) /\ dispatch[p] = "mark"
  /\ emails' = [emails EXCEPT ![pollers[p].job] = "SENT"]
  /\ dispatch' = [dispatch EXCEPT ![p] = "finish"]
  /\ UNCHANGED <<jobVars, inbox, mailed, calls>>

\* Faulty: the e-mail is not waited to be marked.
DispatchSucceedsEarly(p) ==
  dispatch[p] \in {"mark", "finish"} /\ Succeed(p) /\ Unsent /\ UNCHANGED dispatch

DispatchSucceeds(p) == dispatch[p] = "finish" /\ Succeed(p) /\ Unsent /\ UNCHANGED dispatch

\* Faulty: a failure to mark the e-mail is retried like a failure to send it.
DispatchRetries(p) == "permanent" \in Failures /\ FailTransient(p) /\ Unsent /\ UNCHANGED dispatch

\* A query of the processor, or the write of the success itself, throws.
DispatchFails(p) == "permanent" \in Failures /\ FailPermanent(p) /\ Unsent /\ UNCHANGED dispatch

DispatchNext(p) ==
  \/ (PollRead(p) \/ PollClaim(p) \/ PollFetch(p) \/ PollerDies(p)) /\ Unsent /\ UNCHANGED dispatch
  \/ StartDispatch(p) \/ SendEmail(p) \/ SendFails(p) \/ MarkEmailSent(p)
  \/ DispatchSucceeds(p) \/ DispatchFails(p)

MailNext ==
  \/ \E c \in Callers, e \in Jobs : BeginCall(c, e)
  \/ \E c \in Callers : NotifyInApp(c) \/ NotifyEmail(c) \/ EnqueueEmail(c) \/ CallerDies(c)
  \/ \E p \in Pollers : DispatchNext(p)
  \/ \E e \in Jobs : BackoffOver(e) /\ Unsent /\ UNCHANGED dispatch

MailSpec == MailInit /\ [][MailNext]_mailVars

-----------------------------------------------------------------------------
(* One application instance whose ticks do not overlap.                    *)

\* Retries of the event, of the job and of the tick never send an e-mail twice,
\* wherever a process dies in between ("a retried job can never double-send",
\* notifications.service.ts:33-34).
EmailAtMostOnce == \A e \in Jobs : mailed[e] <= 1

\* What the rows say is what happened: an e-mail is marked sent, and its job
\* SUCCEEDED, only if it went out, and a job is given up for good only when
\* it used its attempts or something other than the provider failed
\* (notifications.module.ts:26-45, job-runner.service.ts:109-125).
RowsTellTheTruth ==
  \A e \in Jobs :
    /\ emails[e] = "SENT" => mailed[e] > 0
    /\ jobs[e].status = "SUCCEEDED" => emails[e] = "SENT"
    /\ jobs[e].status = "PENDING" => mailed[e] = 0 /\ jobs[e].attempts < MaxAttempts
    /\ jobs[e].attempts <= MaxAttempts

\* A job that was settled is never run or rescheduled again.
SettledForGood == [][\A e \in Jobs : e \in Settled => jobs'[e] = jobs[e]]_mailVars
=============================================================================
