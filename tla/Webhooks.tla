------------------------------ MODULE Webhooks ------------------------------
(***************************************************************************)
(* WebhooksService and the receiver of e-signature events: the sender may  *)
(* deliver an event any number of times, overlapping, and deliveries whose *)
(* signature is not valid come under the same event id.                    *)
(***************************************************************************)
EXTENDS Handlers

CONSTANT Events

VARIABLES
  events,     \* incoming_webhook_events: status, and whether the signature was valid
  forged,     \* the events that were first recorded with a signature that was not
  news        \* how often an event with a valid signature was answered as a new one: 0, 1, more

webhookRows == <<events, forged, news>>
webhookVars == <<handlerVars, webhookRows>>

NoEvent == [status |-> "ABSENT", valid |-> FALSE]
Once    == [never |-> "once", once |-> "again", again |-> "again"]

WebhookInit ==
  /\ HandlersInit
  /\ events = [e \in Events |-> NoEvent]
  /\ forged = {}
  /\ news = [e \in Events |-> "never"]

\* Faulty: every delivery with a valid signature brings the event up to date.
LookAtSignature(r, e, valid) ==
  /\ IsIdle(r) /\ (events[e].status = "ABSENT" \/ valid)
  /\ Continue(r, IF events[e].status = "ABSENT" THEN "event.create" ELSE "event.upgrade", <<e, valid>>, {e})
  /\ UNCHANGED webhookRows

\* recordEvent(): the look-up.  What is recorded is a duplicate, and answered at once,
\* unless only a valid signature arrives now.
Look(r, e, valid) ==
  /\ IsIdle(r) /\ ~(events[e].status # "ABSENT" /\ (events[e].valid \/ ~valid))
  /\ Continue(r, IF events[e].status = "ABSENT" THEN "event.create" ELSE "event.upgrade", <<e, valid>>, {e})
  /\ UNCHANGED webhookRows

\* What the controller does next with an event that is new.
New(r, e, valid) ==
  /\ Write(r, {e}, IF valid THEN [Idle EXCEPT !.step = "event.processed", !.args = <<e>>] ELSE Idle)
  /\ news' = IF valid THEN [news EXCEPT ![e] = Once[@]] ELSE news

\* The insert.  An event that another delivery has recorded meanwhile is a duplicate.
EventCreate(r) ==
  LET e == Args(r)[1]  valid == Args(r)[2]
  IN  /\ At(r, "event.create")
      /\ IF events[e].status = "ABSENT"
         THEN /\ events' = [events EXCEPT ![e] = [status |-> IF valid THEN "RECEIVED" ELSE "REJECTED", valid |-> valid]]
              /\ forged' = forged \cup (IF valid THEN {} ELSE {e})
              /\ New(r, e, valid)
         ELSE Return(r) /\ UNCHANGED webhookRows

EventUpgrade(r) ==
  LET e == Args(r)[1]
  IN  /\ At(r, "event.upgrade")
      /\ events' = [events EXCEPT ![e] = [status |-> "RECEIVED", valid |-> TRUE]]
      /\ New(r, e, TRUE)
      /\ UNCHANGED forged

EventProcessed(r) ==
  /\ At(r, "event.processed")
  /\ events' = [events EXCEPT ![Args(r)[1]].status = "PROCESSED"]
  /\ Write(r, {Args(r)[1]}, Idle)
  /\ UNCHANGED <<forged, news>>

WebhookNext ==
  \E r \in Slots :
    \/ \E e \in Events, valid \in BOOLEAN : Look(r, e, valid)
    \/ EventCreate(r) \/ EventUpgrade(r) \/ EventProcessed(r)
    \/ Dies(r) /\ UNCHANGED webhookRows

WebhookSpec == WebhookInit /\ [][WebhookNext]_webhookVars

-----------------------------------------------------------------------------
\* However often an event is delivered, and however the deliveries overlap, at most one
\* of them is answered as new; but for an event that was first recorded with a signature
\* that was not valid, two deliveries that correct it at the same time both are.
NewOnce ==
  \A e \in Events : news[e] = "again" => e \in forged /\ ~undisturbed
=============================================================================
